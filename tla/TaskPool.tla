------------------------------ MODULE TaskPool ------------------------------
(***************************************************************************)
(* What a user of the command pool may rely on, without workers, tokens,   *)
(* locks or condition variables.  ThreadPool is shown to implement it.     *)
(***************************************************************************)
EXTENDS Integers, FiniteSets

CONSTANTS
    Commands,    \* the commands a user may submit
    Priority,    \* the priority of each
    PausedFrom,  \* the least priority that may start in a paused pool
    DrainedFrom, \* the least priority a stopping pool must finish
    Capacity     \* commands that can be in execution at a time

VARIABLES
    waiting,     \* submitted and not started
    active,      \* being executed
    finished,    \* executed
    mode,        \* "open", "paused", "stopping" or "stopped"
    owed,        \* what Stop must see finished before it returns
    misused      \* Stop was called on a stopped pool, which voids the promises
                 \* about stopping

vars == <<waiting, active, finished, mode, owed, misused>>

Init ==
    /\ waiting = {} /\ active = {} /\ finished = {}
    /\ mode = "open"
    /\ owed = {}
    /\ misused = FALSE

Submit(c) ==
    /\ c \notin waiting \cup active \cup finished
    /\ waiting' = waiting \cup {c}
    /\ UNCHANGED <<active, finished, mode, owed, misused>>

\* The most urgent command starts; a paused pool starts urgent ones only and
\* a stopped one none.
Start(c) ==
    /\ c \in waiting
    /\ \A d \in waiting : Priority[d] <= Priority[c]
    /\ Cardinality(active) < Capacity
    /\ mode # "stopped"
    /\ mode = "paused" => Priority[c] >= PausedFrom
    /\ waiting' = waiting \ {c}
    /\ active' = active \cup {c}
    /\ UNCHANGED <<finished, mode, owed, misused>>

Finish(c) ==
    /\ c \in active
    /\ active' = active \ {c}
    /\ finished' = finished \cup {c}
    /\ UNCHANGED <<waiting, mode, owed, misused>>

Pause   == /\ mode = "open" /\ mode' = "paused"
           /\ UNCHANGED <<waiting, active, finished, owed, misused>>

Unpause == /\ mode = "paused" /\ mode' = "open"
           /\ UNCHANGED <<waiting, active, finished, owed, misused>>

BeginStop ==
    /\ mode # "stopping"
    /\ mode' = "stopping"
    /\ misused' = (misused \/ mode = "stopped")
    /\ owed' = {c \in waiting \cup active : Priority[c] >= DrainedFrom}
    /\ UNCHANGED <<waiting, active, finished>>

\* Stop returns, leaving the pool stopped, or open when it was resized.
EndStop ==
    /\ mode = "stopping"
    /\ active = {}
    /\ misused \/ owed \subseteq finished
    /\ mode' \in {"stopped", "open"}
    /\ UNCHANGED <<waiting, active, finished, owed, misused>>

\* A misused pool may stop by itself after it was resized.
Collapse ==
    /\ misused
    /\ mode \in {"open", "paused"} /\ active = {}
    /\ mode' = "stopped"
    /\ UNCHANGED <<waiting, active, finished, owed, misused>>

Next ==
    \/ \E c \in Commands : Submit(c) \/ Start(c) \/ Finish(c)
    \/ Pause \/ Unpause \/ BeginStop \/ EndStop \/ Collapse

Spec == Init /\ [][Next]_vars
=============================================================================
