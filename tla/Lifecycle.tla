------------------------------ MODULE Lifecycle -----------------------------
(***************************************************************************)
(* The server process from main to its end: what RunServer and its caller  *)
(* construct, the masks their threads inherit, who gets SIGINT or SIGTERM, *)
(* and the destruction in reverse order, with commands in the pool, plugin *)
(* events, a watchdog that dies and constructors that throw.               *)
(*                                                                         *)
(* Composes Plugins, WatchdogMonitor and NBDDriver with main, the pool's   *)
(* queue and the kernel's signal delivery.                                 *)
(***************************************************************************)
EXTENDS Integers, Sequences

CONSTANTS
    NumWorkers,   \* threads of the pool
    MaxQueued,    \* bound: commands waiting in the pool
    MaxSignals,   \* bound: signals sent
    SizeMod,      \* size_t wraps around at SizeMod
    ArgMinions,   \* values of the argument num-minions, 0 if there is none
    HwThreads,    \* values hardware_concurrency may return
    Files, Named, Valid, ReadMax, QueueMax, MaxRewrites     \* see Plugins

ASSUME PoolAssumption == NumWorkers \in Nat \ {0} /\ MaxQueued \in Nat /\ MaxSignals \in Nat
ASSUME ArgsAssumption ==
    /\ SizeMod \in Nat /\ SizeMod > 4 /\ SizeMod % 2 = 0
    /\ ArgMinions \subseteq 0 .. SizeMod - 1 /\ HwThreads \subseteq 0 .. SizeMod - 1
ASSUME PluginsAssumption ==
    /\ Named \subseteq Files /\ Valid \subseteq Files
    /\ ReadMax \in Nat \ {0} /\ QueueMax \in Nat \ {0} /\ MaxRewrites \in Nat

VARIABLES
    mode,        \* argv[1]: "tcp" or "nbd"
    arg,         \* argv[4], 0 if there is none
    inherited,   \* the two signals were blocked when the program was started
    minions,     \* num_minions
    main,        \* where the main thread is
    built,       \* how many of Objects are constructed
    proc,        \* "running", or how the process ended
    masked,      \* main blocks the two signals
    poolMasked,  \* the workers do
    signal,      \* a signal is pending for the process
    sent,        \* signals sent
    queued,      \* commands waiting
    running,     \* commands being executed
    dir, rewrites, queue, listener, event, subscribed, loader, libs, refs, ctors,
    monitoring, monitor, watchdog, watched, foreign, respawns,
    nbdFd, doIt, connected, joinable, sigThread, disc

P  == INSTANCE Plugins
WD == INSTANCE WatchdogMonitor
D  == INSTANCE NBDDriver

args  == <<mode, arg, inherited, minions>>
own   == <<args, main, built, proc, masked, poolMasked, signal, sent, queued, running>>
plug  == <<dir, rewrites, queue, listener, event, subscribed, loader, libs, refs, ctors>>
watch == <<monitoring, monitor, watchdog, watched, foreign, respawns>>
drive == <<nbdFd, doIt, connected, joinable, sigThread, disc>>
parts == <<plug, watch, drive>>
vars  == <<own, parts>>

\* In the order of construction.
Storage  == 1
Driver   == 2
Pool     == 3
Reactor  == 4
Mediator == 5
Pnp      == 6

\* The number of minions: the argument, else the number of hardware threads,
\* else 4, made even.
ResolveMinions(n0, hw) ==
    LET n == IF n0 # 0 THEN n0 ELSE IF hw # 0 THEN hw ELSE 4
    IN  IF n % 2 # 0 THEN (n + 1) % SizeMod ELSE n

\* DispatchMode has read the arguments.  The mask is that of whoever started the
\* program; the monitor thread of a server (RestartWatchdog) has both signals
\* blocked.
Init ==
    /\ mode \in {"tcp", "nbd"}
    /\ arg \in ArgMinions /\ inherited \in BOOLEAN
    /\ minions \in {ResolveMinions(arg, h) : h \in HwThreads}
    /\ main = "start" /\ built = 0 /\ proc = "running"
    /\ masked = inherited /\ poolMasked = FALSE
    /\ signal = FALSE /\ sent = 0
    /\ queued = 0 /\ running = 0
    /\ P!Init /\ WD!Init /\ D!Init

-----------------------------------------------------------------------------
(* The main thread: construction.                                          *)

rest == <<args, proc, signal, sent, queued, running>>

\* Next object to construct.
Constructs(object) == main = "start" /\ built = object - 1

\* CreateMinions refuses to create none, RAIDStorage an odd number.
BuildStorage ==
    /\ Constructs(Storage)
    /\ \/ minions # 0 /\ minions % 2 = 0 /\ built' = Storage /\ UNCHANGED main
       \/ (minions = 0 \/ minions % 2 # 0) /\ main' = "unwind" /\ UNCHANGED built
    /\ UNCHANGED <<masked, poolMasked, rest, parts>>

BuildTCP ==
    /\ Constructs(Driver) /\ mode = "tcp"
    /\ built' = Driver
    /\ UNCHANGED <<main, masked, poolMasked, rest, parts>>

\* SetUpSignals of NBDDriverComm blocks the signals before any other thread is
\* there to inherit the mask.
BuildNBD ==
    /\ Constructs(Driver) /\ mode = "nbd"
    /\ \/ D!SetUpSignals /\ masked' = TRUE /\ UNCHANGED built
       \/ D!StartListener /\ built' = Driver /\ UNCHANGED masked
    /\ UNCHANGED <<main, poolMasked, rest, plug, watch>>

\* NBD_SET_SOCK fails: the exception destroys m_signal_thread, which is joinable.
SetSockFails ==
    /\ Constructs(Driver) /\ sigThread # "none"
    /\ proc' = "aborted"
    /\ UNCHANGED <<args, main, built, masked, poolMasked, signal, sent, queued,
                   running, parts>>

\* Mutant of BuildPool: the workers do not get the signals.
BuildPoolMasked ==
    /\ Constructs(Pool)
    /\ built' = Pool /\ poolMasked' = TRUE
    /\ UNCHANGED <<main, masked, rest, parts>>

\* A new thread inherits the mask of the one that starts it.
BuildPool ==
    /\ Constructs(Pool)
    /\ built' = Pool /\ poolMasked' = masked
    /\ UNCHANGED <<main, masked, rest, parts>>

\* SetupSignals of Reactor, in main alone.
BuildReactor ==
    /\ Constructs(Reactor)
    /\ built' = Reactor /\ masked' = TRUE
    /\ UNCHANGED <<main, poolMasked, rest, parts>>

BuildMediator ==
    /\ Constructs(Mediator)
    /\ built' = Mediator
    /\ UNCHANGED <<main, masked, poolMasked, rest, parts>>

\* The members of PNP, one after the other.
BuildPnp ==
    /\ Constructs(Pnp)
    /\ \/ (P!StartDirMonitor \/ P!Register) /\ UNCHANGED built
       \/ P!CallBackBuilt /\ built' = Pnp
    /\ UNCHANGED <<main, masked, poolMasked, rest, watch, drive>>

Serve ==
    /\ main = "start" /\ built = Pnp
    /\ WD!StartMonitoring
    /\ main' = "run"
    /\ UNCHANGED <<built, masked, poolMasked, rest, plug, drive>>

\* What a constructor can throw before it has started a thread.
Throw ==
    /\ main = "start"
    /\ built = Driver - 1 => sigThread = "none"
    /\ built = Pnp - 1 => listener = "none"
    /\ main' = "unwind"
    /\ UNCHANGED <<built, masked, poolMasked, rest, parts>>

-----------------------------------------------------------------------------
(* The main thread: Run, and destruction.                                  *)

\* A request has been read and its command queued.
Request ==
    /\ main = "run" /\ queued < MaxQueued
    /\ queued' = queued + 1
    /\ UNCHANGED <<args, main, built, proc, masked, poolMasked, signal, sent,
                   running, parts>>

\* The signal descriptor is readable; Run returns without reading it.
RunReturns ==
    /\ main = "run" /\ signal
    /\ main' = "stop"
    /\ UNCHANGED <<built, masked, poolMasked, rest, parts>>

\* epoll_wait fails, or the handler throws.
RunThrows ==
    /\ main = "run"
    /\ main' = "unwind"
    /\ UNCHANGED <<built, masked, poolMasked, rest, parts>>

StopServing ==
    /\ main = "stop"
    /\ WD!StopMonitoring
    /\ main' = "unwind"
    /\ UNCHANGED <<built, masked, poolMasked, rest, plug, drive>>

\* The object to destroy next.
Destroys(object) == main = "unwind" /\ built = object

\* Mutant of DestroyPnp: the listener ends when it is joined.
DestroyPnpJoins ==
    /\ Destroys(Pnp)
    /\ \/ P!CloseLibs /\ UNCHANGED built
       \/ P!UnRegister /\ built' = Mediator
    /\ UNCHANGED <<main, masked, poolMasked, rest, watch, drive>>

\* ~PNP, up to the join of the listener, at which main stays.
DestroyPnp ==
    /\ Destroys(Pnp)
    /\ P!CloseLibs \/ P!UnRegister
    /\ UNCHANGED <<main, built, masked, poolMasked, rest, watch, drive>>

DestroyObject ==
    /\ Destroys(Mediator) \/ Destroys(Reactor) \/ Destroys(Storage)
    /\ built' = built - 1
    /\ UNCHANGED <<main, masked, poolMasked, rest, parts>>

\* ~ThreadPool: Stop lets the workers execute what is queued, and joins them.
DestroyPool ==
    /\ Destroys(Pool) /\ queued = 0 /\ running = 0
    /\ built' = built - 1
    /\ UNCHANGED <<main, masked, poolMasked, rest, parts>>

\* ~TCPDriverComm closes its sockets.
DestroyTCP ==
    /\ Destroys(Driver) /\ mode = "tcp"
    /\ built' = built - 1
    /\ UNCHANGED <<main, masked, poolMasked, rest, parts>>

\* ~NBDDriverComm does not come back from the join of the signal thread.
DestroyNBD ==
    /\ Destroys(Driver) /\ mode = "nbd"
    /\ D!Destroy \/ D!Disconnect("main")
    /\ proc' = IF D!Terminates' THEN "aborted" ELSE proc
    /\ UNCHANGED <<args, main, built, masked, poolMasked, signal, sent, queued,
                   running, plug, watch>>

\* main returns: "shutdown complete", or the message of the exception.
Return ==
    /\ main = "unwind" /\ built = 0
    /\ proc' = "exited"
    /\ UNCHANGED <<args, main, built, masked, poolMasked, signal, sent, queued,
                   running, parts>>

Main ==
    \/ BuildStorage \/ BuildTCP \/ BuildNBD \/ BuildPool \/ BuildReactor \/ BuildMediator
    \/ BuildPnp \/ Serve \/ RunReturns \/ StopServing
    \/ DestroyPnp \/ DestroyObject \/ DestroyPool \/ DestroyTCP \/ DestroyNBD \/ Return

-----------------------------------------------------------------------------
(* The other threads, and the kernel.                                      *)

\* Mutant of StartCommand: a worker takes a command while it executes one.
StartCommandEarly ==
    /\ built >= Pool /\ queued > 0
    /\ queued' = queued - 1 /\ running' = running + 1
    /\ UNCHANGED <<args, main, built, proc, masked, poolMasked, signal, sent, parts>>

StartCommand ==
    /\ built >= Pool /\ queued > 0 /\ running < NumWorkers
    /\ queued' = queued - 1 /\ running' = running + 1
    /\ UNCHANGED <<args, main, built, proc, masked, poolMasked, signal, sent, parts>>

EndCommand ==
    /\ running > 0
    /\ running' = running - 1
    /\ UNCHANGED <<args, main, built, proc, masked, poolMasked, signal, sent,
                   queued, parts>>

PluginListener ==
    /\ P!Listener
    /\ proc' = IF P!Crashed' THEN "aborted" ELSE proc
    /\ UNCHANGED <<args, main, built, masked, poolMasked, signal, sent, queued,
                   running, watch, drive>>

WatchdogThread == WD!Monitor /\ UNCHANGED <<own, plug, drive>>

DeviceThread == D!ListenerThread /\ UNCHANGED <<own, plug, watch>>

\* sigwait takes the signal, unless nothing is pending.
SigWait ==
    /\ signal /\ D!TakeSignal
    /\ signal' = FALSE
    /\ UNCHANGED <<args, main, built, proc, masked, poolMasked, sent, queued,
                   running, plug, watch>>

\* The signal thread's Disconnect.
SigDisconnect ==
    /\ D!Disconnect("signal") \/ D!JoinSignal
    /\ proc' = IF D!Terminates' THEN "aborted" ELSE proc
    /\ UNCHANGED <<args, main, built, masked, poolMasked, signal, sent, queued,
                   running, plug, watch>>

\* SIGINT or SIGTERM is sent to the process.  A thread that does not block it
\* takes it, and its default action ends the process.
SendSignal ==
    /\ sent < MaxSignals
    /\ sent' = sent + 1
    /\ \/ /\ ~masked \/ (built >= Pool /\ ~poolMasked)
          /\ proc' = "killed" /\ UNCHANGED signal
       \/ /\ masked /\ (built >= Pool => poolMasked)
          /\ signal' = TRUE /\ UNCHANGED proc
    /\ UNCHANGED <<args, main, built, masked, poolMasked, queued, running, parts>>

Environment ==
    \/ Throw \/ SetSockFails \/ Request \/ RunThrows \/ SendSignal
    \/ P!Directory /\ UNCHANGED <<own, watch, drive>>
    \/ WD!WatchdogEnds /\ UNCHANGED <<own, plug, drive>>
    \/ D!KernelDisconnects /\ UNCHANGED <<own, plug, watch>>

Worker == StartCommand \/ EndCommand
Signals == SigWait \/ SigDisconnect

Next ==
    /\ proc = "running"
    /\ Main \/ Worker \/ PluginListener \/ WatchdogThread \/ DeviceThread \/ Signals
            \/ Environment

Spec == Init /\ [][Next]_vars

\* Every thread of the process takes the steps it can.
FairSpec ==
    /\ Spec
    /\ WF_vars(proc = "running" /\ Main)
    /\ WF_vars(proc = "running" /\ Worker)
    /\ WF_vars(proc = "running" /\ PluginListener)
    /\ WF_vars(proc = "running" /\ WatchdogThread)
    /\ WF_vars(proc = "running" /\ DeviceThread)
    /\ WF_vars(proc = "running" /\ Signals)

-----------------------------------------------------------------------------
(* Properties.                                                             *)

\* The values every variable ranges over.
TypeOK ==
    /\ mode \in {"tcp", "nbd"} /\ arg \in ArgMinions /\ inherited \in BOOLEAN /\ minions \in 0 .. SizeMod - 1
    /\ main \in {"start", "run", "stop", "unwind"} /\ built \in 0 .. Pnp
    /\ proc \in {"running", "killed", "aborted", "exited"}
    /\ masked \in BOOLEAN /\ poolMasked \in BOOLEAN /\ signal \in BOOLEAN
    /\ sent \in 0 .. MaxSignals
    /\ queued \in 0 .. MaxQueued /\ running \in 0 .. NumWorkers
    /\ P!TypeOK /\ WD!TypeOK /\ D!TypeOK

\* The commands in the pool use the mediator, the driver and the storage, and
\* the mediator is destroyed before the pool has executed what is queued.  No
\* command meets a destroyed mediator, and the reason is that ~PNP, which comes
\* first, never returns.
MediatorOutlivesCommands == running > 0 => built >= Mediator

\* A signal is never lost: whatever main is doing when it comes, the process
\* ends, or a thread that has taken the signal is stuck, for one of two reasons
\* only.  In TCP mode a worker takes it, unless the server was started with the
\* signals blocked; then main does and stays in ~PNP.  In NBD mode the signal
\* thread does, and joins a listener that the kernel holds in NBD_DO_IT.
StuckInPnp    == mode = "tcp" /\ inherited /\ main = "unwind" /\ built = Pnp
StuckInDoIt   == mode = "nbd" /\ disc["signal"] = "join" /\ doIt = "blocked" /\ connected
SignalNotLost == sent > 0 ~> proc # "running" \/ StuckInPnp \/ StuckInDoIt

\* A signal ends the server in NBD mode, which the signal thread is there for.
\* It does not: the server's end of the socket, whose closing would end
\* NBD_DO_IT, is closed after the join of the thread that waits in it.
SignalEndsServer == mode = "nbd" /\ sent > 0 ~> proc # "running"

\* The monitor thread starts one process, not one every three seconds, and
\* none beside a watchdog that is alive and that the server may signal.  One of
\* another user (sudo -u) answers EPERM and is taken for dead.
RestartOnce ==
    [][respawns' > respawns => respawns = 0 /\ (watchdog = "alive" => foreign)]_vars

\* A watchdog that is gone is noticed, whatever the thread is doing at that
\* time, unless another process gets its number, monitoring stops or the server
\* ends.  It must have been there when monitoring began: one that ended while
\* main constructed storage, driver, pool and plugins is never noticed, since
\* whoever adopted the server is watched in its place.
DeathNoticed ==
    /\ watched = "watchdog" /\ watchdog = "dead"
    /\ monitoring /\ monitor \in {"test", "asleep"}
    ~> monitor = "restart" \/ watched = "other" \/ ~monitoring \/ proc # "running"
=============================================================================
