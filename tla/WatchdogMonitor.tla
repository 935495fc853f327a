--------------------------- MODULE WatchdogMonitor --------------------------
(***************************************************************************)
(* WatchdogMonitor: a detached thread of the server that looks every three *)
(* seconds whether a process still exists, and starts argv[0] anew when it *)
(* does not.  The process is the server's parent when monitoring begins:   *)
(* the watchdog, or the reaper (init, a subreaper) that adopted the server *)
(* if the watchdog had ended before.                                       *)
(***************************************************************************)
EXTENDS Naturals

VARIABLES
    monitoring,  \* is_monitoring
    monitor,     \* where the monitor thread is
    watchdog,    \* the process that started the server
    watched,     \* what has the number watchdog_pid
    foreign,     \* the server must not signal that process (EPERM)
    respawns     \* processes started

vars == <<monitoring, monitor, watchdog, watched, foreign, respawns>>

Init ==
    /\ monitoring = FALSE /\ monitor = "none"
    /\ watchdog = "alive" /\ watched = "none" /\ foreign = FALSE
    /\ respawns = 0

\* Called once, by RunServer, when everything is constructed; getppid is called
\* here.
StartMonitoring ==
    /\ ~monitoring /\ monitor = "none"
    /\ monitoring' = TRUE /\ monitor' = "test"
    /\ watched' = IF watchdog = "alive" THEN "watchdog" ELSE "reaper"
    /\ foreign' \in BOOLEAN
    /\ UNCHANGED <<watchdog, respawns>>

\* The thread is detached, so it is not joinable and nothing waits for it.
StopMonitoring ==
    /\ monitoring' = FALSE
    /\ UNCHANGED <<monitor, watchdog, watched, foreign, respawns>>

\* while (is_monitoring) sleep
Test ==
    /\ monitor = "test"
    /\ monitor' = IF monitoring THEN "asleep" ELSE "ended"
    /\ UNCHANGED <<monitoring, watchdog, watched, foreign, respawns>>

\* A process has the number: an ended watchdog has, until it is reaped.
Exists ==
    \/ watched \in {"reaper", "other"}
    \/ watched = "watchdog" /\ watchdog # "dead"

\* Mutant of Check: after a check the thread only ends.
CheckOnce ==
    /\ monitor = "asleep"
    /\ monitor' = "ended"
    /\ UNCHANGED <<monitoring, watchdog, watched, foreign, respawns>>

\* After the sleep, kill(pid, 0): every failure counts as death, also that the
\* process belongs to another user.
Check ==
    /\ monitor = "asleep"
    /\ monitor' = IF Exists /\ ~foreign THEN "test" ELSE "restart"
    /\ UNCHANGED <<monitoring, watchdog, watched, foreign, respawns>>

\* Mutant of RestartWatchdog: no break, the loop goes on.
RestartWatchdogStays ==
    /\ monitor = "restart"
    /\ respawns' \in {respawns, respawns + 1}
    /\ monitor' = "test"
    /\ UNCHANGED <<monitoring, watchdog, watched, foreign>>

\* fork may fail; either way the thread's loop is left.
RestartWatchdog ==
    /\ monitor = "restart"
    /\ respawns' \in {respawns, respawns + 1}
    /\ monitor' = "ended"
    /\ UNCHANGED <<monitoring, watchdog, watched, foreign>>

Monitor == Test \/ Check \/ RestartWatchdog

\* The watchdog ends, its parent reaps it, and its number may be given to any
\* other process.
WatchdogEnds ==
    /\ \/ watchdog = "alive" /\ watchdog' = "zombie" /\ UNCHANGED <<watched, foreign>>
       \/ watchdog = "zombie" /\ watchdog' = "dead" /\ UNCHANGED <<watched, foreign>>
       \/ /\ watched = "watchdog" /\ watchdog = "dead"
          /\ watched' = "other" /\ foreign' \in BOOLEAN /\ UNCHANGED watchdog
    /\ UNCHANGED <<monitoring, monitor, respawns>>

-----------------------------------------------------------------------------

TypeOK ==
    /\ monitoring \in BOOLEAN /\ foreign \in BOOLEAN
    /\ monitor \in {"none", "test", "asleep", "restart", "ended"}
    /\ watchdog \in {"alive", "zombie", "dead"}
    /\ watched \in {"none", "watchdog", "reaper", "other"}
    /\ respawns \in Nat
=============================================================================
