----------------------------- MODULE MCOllamaChat -----------------------------
\* Four contexts, of which two differ in an image only: they share a key.
EXTENDS OllamaChat, TLC

CONSTANTS a, b, c, cWithImage
MCContexts == {a, b, c, cWithImage}
ClientSymmetry == Permutations(Clients)
MCKeys == {"a", "b", "c"}
MCKeyOf == [m \in MCContexts |-> CASE m = a -> "a" [] m = b -> "b" [] OTHER -> "c"]
==============================================================================
