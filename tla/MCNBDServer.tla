----------------------------- MODULE MCNBDServer ----------------------------
(***************************************************************************)
(* Instance of NBDServer for TLC: two READs, a WRITE, a FLUSH and the      *)
(* kernel's goodbye.                                                       *)
(***************************************************************************)
EXTENDS NBDServer

MCRequests == {"r1", "r2", "w", "flush", "bye"}

MCKind == [r1 |-> "read", r2 |-> "read", w |-> "write", flush |-> "plain", bye |-> "disc"]
=============================================================================
