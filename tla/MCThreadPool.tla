---------------------------- MODULE MCThreadPool ----------------------------
(* Instances of ThreadPool for TLC.                                        *)
EXTENDS ThreadPool, TLC

CONSTANTS low, med, high, adm

\* A command of each priority a caller may choose.
MCPriority ==
    LET all == (low :> Low) @@ (med :> Med) @@ (high :> High) @@ (adm :> Admin)
    IN  [c \in Commands |-> all[c]]
=============================================================================
