--------------------------- MODULE MCFunctionsAgent ---------------------------
\* A tool and the name of none; arguments that hold "__arg1", and raw ones.
EXTENDS FunctionsAgent

MCTools == <<"calculator">>
MCUpper == [n \in {"calculator", "weather"} |-> n]
MCUnwrapped == [a \in {"{__arg1: 1+1}", "2+2"} |->
                  IF a = "2+2" THEN a ELSE "1+1"]
==============================================================================
