------------------------------ MODULE NBDDriver -----------------------------
(***************************************************************************)
(* The threads of NBDDriverComm and its Disconnect, which the signal       *)
(* thread and the destructor run without a common lock.                    *)
(*                                                                         *)
(* NBD_DO_IT returns when the kernel has given the device up: when the     *)
(* server's end of the socket pair is closed, which Disconnect does after  *)
(* its joins, or when somebody else clears the device (nbd-client -d).     *)
(* NBD_DISCONNECT only sends NBD_CMD_DISC, to which the server does        *)
(* nothing.  A thread that joins itself gets EDEADLK, which                *)
(* std::thread::join throws out of the thread: std::terminate.  So the     *)
(* signal thread never ends, nobody who joins it goes on, and the          *)
(* descriptors of the socket pair stay open.                               *)
(***************************************************************************)
EXTENDS Naturals

VARIABLES
    nbdFd,       \* m_nbdFd is not -1
    doIt,        \* the listener thread: on its way to NBD_DO_IT, in it, or ended
    connected,   \* the kernel uses the socket for the device
    joinable,    \* m_listener is joinable
    sigThread,   \* the signal thread: in sigwait, or in Disconnect
    disc         \* where each caller is in Disconnect

vars == <<nbdFd, doIt, connected, joinable, sigThread, disc>>

Callers == {"main", "signal"}

Init ==
    /\ nbdFd = FALSE /\ doIt = "none" /\ connected = FALSE /\ joinable = FALSE
    /\ sigThread = "none"
    /\ disc = [c \in Callers |-> "idle"]

\* The constructor has opened the device and set its size; the signal thread
\* is started, its handle stored before the thread gets to the join.
SetUpSignals ==
    /\ sigThread = "none"
    /\ nbdFd' = TRUE /\ sigThread' = "sigwait"
    /\ UNCHANGED <<doIt, connected, joinable, disc>>

\* The device has not been closed.
Open == nbdFd /\ \A c \in Callers : disc[c] # "unset"

\* NBD_SET_SOCK succeeds, on a device that is still open, and the listener
\* thread is started.
StartListener ==
    /\ sigThread # "none" /\ doIt = "none" /\ Open
    /\ doIt' = "starting" /\ connected' = TRUE /\ joinable' = TRUE
    /\ UNCHANGED <<nbdFd, sigThread, disc>>

\* NBD_DO_IT, which fails at once on a device that was closed or given up.
ListenerThread ==
    /\ \/ doIt = "starting" /\ doIt' = IF Open /\ connected THEN "blocked" ELSE "ended"
       \/ doIt = "blocked" /\ ~connected /\ doIt' = "ended"
    /\ UNCHANGED <<nbdFd, connected, joinable, sigThread, disc>>

\* The kernel gives the device up.
KernelDisconnects ==
    /\ connected
    /\ connected' = FALSE
    /\ UNCHANGED <<nbdFd, doIt, joinable, sigThread, disc>>

\* The signal thread has been given the signal.
TakeSignal ==
    /\ sigThread = "sigwait"
    /\ sigThread' = "disconnect"
    /\ disc' = [disc EXCEPT !["signal"] = "close"]
    /\ UNCHANGED <<nbdFd, doIt, connected, joinable>>

\* The destructor.
Destroy ==
    /\ disc["main"] = "idle"
    /\ disc' = [disc EXCEPT !["main"] = "close"]
    /\ UNCHANGED <<nbdFd, doIt, connected, joinable, sigThread>>

-----------------------------------------------------------------------------
(* Disconnect, by caller c.                                                *)

\* NBD_DISCONNECT and close, if m_nbdFd is not -1.  A thread in NBD_DO_IT stays
\* there.
CloseDevice(c) ==
    /\ disc[c] = "close"
    /\ disc' = [disc EXCEPT ![c] = IF nbdFd THEN "unset" ELSE "listener"]
    /\ UNCHANGED <<nbdFd, doIt, connected, joinable, sigThread>>

UnsetDevice(c) ==
    /\ disc[c] = "unset"
    /\ nbdFd' = FALSE
    /\ disc' = [disc EXCEPT ![c] = "listener"]
    /\ UNCHANGED <<doIt, connected, joinable, sigThread>>

\* m_listener.joinable()
TestListener(c) ==
    /\ disc[c] = "listener"
    /\ disc' = [disc EXCEPT ![c] = IF joinable THEN "join" ELSE "joinSignal"]
    /\ UNCHANGED <<nbdFd, doIt, connected, joinable, sigThread>>

\* m_listener.join(): if both callers wait, the second one's join of a thread
\* that is gone may return or throw.
JoinListener(c) ==
    /\ disc[c] = "join" /\ doIt = "ended"
    /\ joinable' = FALSE
    /\ \/ disc' = [disc EXCEPT ![c] = "joinSignal"]
       \/ ~joinable /\ disc' = [disc EXCEPT ![c] = "throw"]
    /\ UNCHANGED <<nbdFd, doIt, connected, sigThread>>

\* m_signal_thread is joinable and never ends: the signal thread itself throws,
\* the destructor waits.
JoinSignal ==
    /\ disc["signal"] = "joinSignal"
    /\ disc' = [disc EXCEPT !["signal"] = "throw"]
    /\ UNCHANGED <<nbdFd, doIt, connected, joinable, sigThread>>

Disconnect(c) == CloseDevice(c) \/ UnsetDevice(c) \/ TestListener(c) \/ JoinListener(c)

\* An exception has left the signal thread, or a destructor.
Terminates == \E c \in Callers : disc[c] = "throw"

-----------------------------------------------------------------------------

TypeOK ==
    /\ nbdFd \in BOOLEAN /\ connected \in BOOLEAN /\ joinable \in BOOLEAN
    /\ doIt \in {"none", "starting", "blocked", "ended"}
    /\ sigThread \in {"none", "sigwait", "disconnect"}
    /\ disc \in [Callers -> {"idle", "close", "unset", "listener", "join", "joinSignal", "throw"}]
=============================================================================
