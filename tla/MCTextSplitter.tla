-------------------------- MODULE MCTextSplitter --------------------------
(***************************************************************************)
(* Texts of four atoms, read with the separators "\n\n" and " ", or with   *)
(* "\n\n", " " and "".                                                     *)
(***************************************************************************)
EXTENDS TextSplitter

Separators == {<<2, 1>>, <<2, 1, 0>>}
==============================================================================
