--------------------------- MODULE MCFinalStream ---------------------------
\* Texts for FinalStream: every one of five glyphs that holds a keyword or
\* nearly so, over the glyphs of "Final Answer:" and "AI:" cut down to three
\* and two, and one of a second answer.
EXTENDS FinalStream

Final  == <<"F", "A", ":">>
AI     == <<"A", ":">>
FinalOnly == <<"F", ":">>
Default == <<Final, FinalOnly>>
AllLists == {Default, <<AI>>}
Alphabet == {"F", "A", ":", " ", "x"}
Near(t) == \E i \in DOMAIN t : t[i] = "F"
AllTexts == {t \in [1..5 -> Alphabet] : Near(t) /\ \E i \in DOMAIN t : t[i] = ":"}
============================================================================
