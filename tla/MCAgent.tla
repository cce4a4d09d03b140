------------------------------- MODULE MCAgent -------------------------------
\* Two tools whose names differ only in case, and the name of no tool.
EXTENDS AgentExecutor

MCNames == {"search", "Search", "shell"}
MCTools == <<"search", "Search">>
MCUpper == [n \in MCNames |-> IF n = "shell" THEN "shell" ELSE "search"]
==============================================================================
