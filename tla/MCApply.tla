------------------------------- MODULE MCApply -------------------------------
(* Apply for TLC; its constants have their values in the configurations. *)
EXTENDS Apply

==============================================================================
