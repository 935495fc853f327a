---------------------------- MODULE LifecycleProofs -------------------------
(***************************************************************************)
(* Theorems about Lifecycle, in both modes, for any number of workers,     *)
(* commands and signals and any plugin files.                              *)
(*                                                                         *)
(* Each step of the composition is a step of one part, which keeps that    *)
(* part's invariant, while the others stand still; what main adds is that  *)
(* commands exist only while everything is constructed, since main gets no *)
(* further than the destructor of PNP, which does not return.              *)
(***************************************************************************)
EXTENDS Lifecycle, TLAPS

PL == INSTANCE PluginsProofs

-----------------------------------------------------------------------------
(* The inductive invariant.                                                *)

\* The types of the masks, and of the rest of main and the pool.
MaskType ==
    /\ inherited \in BOOLEAN /\ masked \in BOOLEAN
    /\ poolMasked \in BOOLEAN /\ signal \in BOOLEAN

OwnType ==
    /\ mode \in {"tcp", "nbd"} /\ arg \in ArgMinions /\ minions \in 0 .. SizeMod - 1
    /\ main \in {"start", "run", "stop", "unwind"} /\ built \in 0 .. Pnp
    /\ proc \in {"running", "killed", "aborted", "exited"}
    /\ sent \in 0 .. MaxSignals
    /\ queued \in 0 .. MaxQueued /\ running \in 0 .. NumWorkers

\* There are commands only once everything is constructed, and while ~PNP does
\* not return it all stays.
PoolInv ==
    /\ main = "start" => queued = 0 /\ running = 0
    /\ main \in {"run", "stop"} => built = Pnp
    /\ queued > 0 \/ running > 0 => built = Pnp

\* The monitor thread ends with its first restart.  It monitors the watchdog, as
\* long as that is alive, and takes it for dead only if it must not signal it.
WatchInv ==
    /\ WD!TypeOK
    /\ respawns > 0 => respawns = 1 /\ monitor = "ended"
    /\ monitor # "none" /\ watchdog = "alive" => watched = "watchdog"
    /\ monitor = "restart" /\ watchdog = "alive" => foreign

LifecycleInv == MaskType /\ OwnType /\ PoolInv /\ PL!PluginsInv /\ WatchInv /\ D!TypeOK

-----------------------------------------------------------------------------
(* The parts: each keeps its own invariant.                                *)

LEMMA PluginsAssumptions == PL!FilesAssumption /\ PL!EventsAssumption
  BY PluginsAssumption DEF PL!FilesAssumption, PL!EventsAssumption

LEMMA PlugKept ==
    ASSUME PL!PluginsInv, UNCHANGED plug PROVE PL!PluginsInv'
  BY DEF plug, PL!PluginsInv, PL!TypeOK, PL!QueueInv, PL!LoaderInv, PL!HandleInv, PL!Pending

LEMMA PlugDirectory ==
    ASSUME PL!PluginsInv, P!Directory PROVE PL!PluginsInv'
  <1>1. PL!Directory
    BY DEF P!Directory, P!Create, P!Finish, P!Rewrite, P!MoveIn, P!Post, P!Queued,
           P!Merged, P!Overflow, PL!Directory, PL!Create, PL!Finish, PL!Rewrite, PL!MoveIn,
           PL!Post, PL!Queued, PL!Merged, PL!Overflow
  <1> QED
    BY <1>1, PluginsAssumptions, PL!DirectoryStep

LEMMA PlugLoader ==
    ASSUME PL!PluginsInv,
           P!StartDirMonitor \/ P!Register \/ P!CallBackBuilt \/ P!CloseLibs \/ P!UnRegister
    PROVE  PL!PluginsInv'
  <1>1. PL!StartDirMonitor \/ PL!Register \/ PL!CallBackBuilt \/ PL!CloseLibs \/ PL!UnRegister
    BY DEF P!StartDirMonitor, P!Register, P!CallBackBuilt, P!CloseLibs, P!UnRegister, P!Subscribe,
           P!Unsubscribe, PL!StartDirMonitor, PL!Register, PL!CallBackBuilt, PL!CloseLibs,
           PL!UnRegister, PL!Subscribe, PL!Unsubscribe
  <1> QED
    BY <1>1, PluginsAssumptions, PL!LoaderStep

LEMMA PlugListener ==
    ASSUME PL!PluginsInv, P!Listener PROVE PL!PluginsInv'
  <1>1. PL!Listener
    <2>1. CASE P!ReadLoop
      BY <2>1 DEF P!ReadLoop, P!Goto, P!Filter, P!NoFile, P!Overflow,
                  PL!ReadLoop, PL!Goto, PL!Filter, PL!NoFile, PL!Overflow, PL!Listener
    <2>2. CASE P!NotifyAll \/ P!NotifyHalf
      BY <2>2 DEF P!NotifyAll, P!NotifyHalf, P!Goto, P!NoFile,
                  PL!NotifyAll, PL!NotifyHalf, PL!Goto, PL!NoFile, PL!Listener
    <2>3. CASE P!DlOpen \/ P!DlOpenFails
      BY <2>3 DEF P!DlOpen, P!DlOpenFails, P!Loadable, P!InitPlugin, P!Goto, P!NoFile,
                  PL!DlOpen, PL!DlOpenFails, PL!Loadable, PL!InitPlugin, PL!Goto, PL!NoFile,
                  PL!Listener
    <2>4. CASE P!PushBack
      BY <2>4 DEF P!PushBack, P!Goto, P!NoFile, PL!PushBack, PL!Goto, PL!NoFile, PL!Listener
    <2> QED
      BY <2>1, <2>2, <2>3, <2>4 DEF P!Listener
  <1> QED
    BY <1>1, PluginsAssumptions, PL!ListenerStep

LEMMA WatchKept ==
    ASSUME WatchInv, UNCHANGED watch PROVE WatchInv'
  BY DEF watch, WatchInv, WD!TypeOK

LEMMA WatchStep ==
    ASSUME WatchInv, WD!Monitor \/ WD!WatchdogEnds \/ WD!StartMonitoring \/ WD!StopMonitoring
    PROVE  WatchInv'
  <1> USE DEF WatchInv, WD!TypeOK
  <1>1. CASE WD!Test \/ WD!Check
    BY <1>1 DEF WD!Test, WD!Check, WD!Exists
  <1>2. CASE WD!RestartWatchdog
    BY <1>2 DEF WD!RestartWatchdog
  <1>3. CASE WD!WatchdogEnds
    BY <1>3 DEF WD!WatchdogEnds
  <1>4. CASE WD!StartMonitoring \/ WD!StopMonitoring
    BY <1>4 DEF WD!StartMonitoring, WD!StopMonitoring
  <1> QED
    BY <1>1, <1>2, <1>3, <1>4 DEF WD!Monitor

LEMMA DriveKept ==
    ASSUME D!TypeOK, UNCHANGED drive PROVE D!TypeOK'
  BY DEF drive, D!TypeOK

LEMMA DriveDisconnect ==
    ASSUME D!TypeOK, NEW c \in {"main", "signal"}, D!Disconnect(c) PROVE D!TypeOK'
  <1> USE DEF D!TypeOK, D!Callers
  <1>1. CASE D!CloseDevice(c)
    BY <1>1 DEF D!CloseDevice
  <1>2. CASE D!UnsetDevice(c) \/ D!TestListener(c)
    BY <1>2 DEF D!UnsetDevice, D!TestListener
  <1>3. CASE D!JoinListener(c)
    BY <1>3 DEF D!JoinListener
  <1> QED
    BY <1>1, <1>2, <1>3 DEF D!Disconnect

LEMMA DriveStep ==
    ASSUME D!TypeOK,
           \/ D!SetUpSignals \/ D!StartListener \/ D!ListenerThread \/ D!KernelDisconnects
           \/ D!TakeSignal \/ D!Destroy \/ D!JoinSignal
    PROVE  D!TypeOK'
  BY DEF D!TypeOK, D!Callers, D!SetUpSignals, D!StartListener, D!ListenerThread,
         D!KernelDisconnects, D!TakeSignal, D!Destroy, D!JoinSignal

-----------------------------------------------------------------------------
(* The steps of the composition.                                           *)

Parts == PL!PluginsInv /\ WatchInv /\ D!TypeOK

LEMMA MainParts ==
    ASSUME Parts, Main PROVE Parts'
  <1>1. CASE UNCHANGED parts
    <2>1. UNCHANGED plug /\ UNCHANGED watch /\ UNCHANGED drive
      BY <1>1 DEF parts
    <2> QED
      BY <2>1, PlugKept, WatchKept, DriveKept DEF Parts
  <1>2. CASE BuildNBD \/ DestroyNBD
    <2>1. UNCHANGED plug /\ UNCHANGED watch
      BY <1>2 DEF BuildNBD, DestroyNBD
    <2>2. D!TypeOK'
      BY <1>2, DriveStep, DriveDisconnect DEF Parts, BuildNBD, DestroyNBD
    <2> QED
      BY <2>1, <2>2, PlugKept, WatchKept DEF Parts
  <1>3. CASE BuildPnp \/ DestroyPnp
    <2>1. UNCHANGED watch /\ UNCHANGED drive
      BY <1>3 DEF BuildPnp, DestroyPnp
    <2>2. PL!PluginsInv'
      BY <1>3, PlugLoader DEF Parts, BuildPnp, DestroyPnp
    <2> QED
      BY <2>1, <2>2, WatchKept, DriveKept DEF Parts
  <1>4. CASE Serve \/ StopServing
    <2>1. UNCHANGED plug /\ UNCHANGED drive
      BY <1>4 DEF Serve, StopServing
    <2>2. WatchInv'
      BY <1>4, WatchStep DEF Parts, Serve, StopServing
    <2> QED
      BY <2>1, <2>2, PlugKept, DriveKept DEF Parts
  <1> QED
    BY <1>1, <1>2, <1>3, <1>4
    DEF Main, BuildStorage, BuildTCP, BuildPool, BuildReactor, BuildMediator, RunReturns,
        DestroyObject, DestroyPool, DestroyTCP, Return

LEMMA OtherParts ==
    ASSUME Parts,
           Worker \/ PluginListener \/ WatchdogThread \/ DeviceThread \/ Signals \/ Environment
    PROVE  Parts'
  <1>1. CASE UNCHANGED parts
    <2>1. UNCHANGED plug /\ UNCHANGED watch /\ UNCHANGED drive
      BY <1>1 DEF parts
    <2> QED
      BY <2>1, PlugKept, WatchKept, DriveKept DEF Parts
  <1>2. CASE PluginListener \/ (P!Directory /\ UNCHANGED <<own, watch, drive>>)
    <2>1. UNCHANGED watch /\ UNCHANGED drive
      BY <1>2 DEF PluginListener
    <2>2. PL!PluginsInv'
      BY <1>2, PlugListener, PlugDirectory DEF Parts, PluginListener
    <2> QED
      BY <2>1, <2>2, WatchKept, DriveKept DEF Parts
  <1>3. CASE WatchdogThread \/ (WD!WatchdogEnds /\ UNCHANGED <<own, plug, drive>>)
    <2>1. UNCHANGED plug /\ UNCHANGED drive
      BY <1>3 DEF WatchdogThread
    <2>2. WatchInv'
      BY <1>3, WatchStep DEF Parts, WatchdogThread
    <2> QED
      BY <2>1, <2>2, PlugKept, DriveKept DEF Parts
  <1>4. CASE DeviceThread \/ Signals \/ (D!KernelDisconnects /\ UNCHANGED <<own, plug, watch>>)
    <2>1. UNCHANGED plug /\ UNCHANGED watch
      BY <1>4 DEF DeviceThread, Signals, SigWait, SigDisconnect
    <2>2. D!TypeOK'
      BY <1>4, DriveStep, DriveDisconnect DEF Parts, DeviceThread, Signals, SigWait, SigDisconnect
    <2> QED
      BY <2>1, <2>2, PlugKept, WatchKept DEF Parts
  <1> QED
    BY <1>1, <1>2, <1>3, <1>4
    DEF Worker, StartCommand, EndCommand, Environment, Throw, SetSockFails, Request, RunThrows,
        SendSignal

\* Main and the pool.
OwnInv == OwnType /\ PoolInv

\* Masks are inherited or set.
LEMMA MaskStep ==
    ASSUME MaskType, Next PROVE MaskType'
  <1> USE DEF MaskType
  <1>1. CASE BuildStorage \/ BuildTCP \/ BuildNBD \/ BuildPool \/ BuildReactor \/ BuildMediator
    BY <1>1, Zenon
    DEF BuildStorage, BuildTCP, BuildNBD, BuildPool, BuildReactor, BuildMediator, rest, args
  <1>2. CASE BuildPnp \/ Serve \/ RunReturns \/ StopServing \/ DestroyPnp \/ DestroyObject
    BY <1>2, Zenon DEF BuildPnp, Serve, RunReturns, StopServing, DestroyPnp, DestroyObject, rest, args
  <1>3. CASE DestroyPool \/ DestroyTCP \/ DestroyNBD \/ Return
    BY <1>3, Zenon DEF DestroyPool, DestroyTCP, DestroyNBD, Return, rest, args
  <1>4. CASE StartCommand \/ EndCommand \/ PluginListener \/ SigDisconnect \/ UNCHANGED own
    BY <1>4, Zenon DEF StartCommand, EndCommand, PluginListener, SigDisconnect, own, args
  <1>5. CASE SigWait \/ SendSignal
    BY <1>5, Zenon DEF SigWait, SendSignal, args
  <1>6. CASE Throw \/ SetSockFails \/ Request \/ RunThrows
    BY <1>6, Zenon DEF Throw, SetSockFails, Request, RunThrows, rest, args
  <1> QED
    BY <1>1, <1>2, <1>3, <1>4, <1>5, <1>6
    DEF Next, Main, Worker, WatchdogThread, DeviceThread, Signals, Environment

LEMMA OwnKept ==
    ASSUME OwnInv, UNCHANGED own PROVE OwnInv'
  BY DEF own, args, OwnInv, OwnType, PoolInv

LEMMA MainOwn ==
    ASSUME OwnInv, Main PROVE OwnInv'
  <1> USE DEF OwnInv, OwnType, PoolInv, Constructs, Destroys, Storage, Driver, Pool, Reactor,
              Mediator, Pnp, rest, args
  <1>1. CASE BuildStorage
    BY <1>1 DEF BuildStorage
  <1>2. CASE BuildTCP \/ BuildMediator
    BY <1>2 DEF BuildTCP, BuildMediator
  <1>3. CASE BuildNBD
    BY <1>3 DEF BuildNBD
  <1>4. CASE BuildPool \/ BuildReactor
    BY <1>4 DEF BuildPool, BuildReactor
  <1>5. CASE BuildPnp
    BY <1>5 DEF BuildPnp
  <1>6. CASE Serve \/ RunReturns \/ StopServing
    BY <1>6 DEF Serve, RunReturns, StopServing
  <1>7. CASE DestroyPnp
    BY <1>7 DEF DestroyPnp
  <1>8. CASE DestroyObject \/ DestroyPool \/ DestroyTCP
    BY <1>8 DEF DestroyObject, DestroyPool, DestroyTCP
  <1>9. CASE DestroyNBD \/ Return
    BY <1>9 DEF DestroyNBD, Return
  <1> QED
    BY <1>1, <1>2, <1>3, <1>4, <1>5, <1>6, <1>7, <1>8, <1>9 DEF Main

LEMMA OtherOwn ==
    ASSUME OwnInv,
           Worker \/ PluginListener \/ WatchdogThread \/ DeviceThread \/ Signals \/ Environment
    PROVE  OwnInv'
  <1> USE PoolAssumption DEF OwnInv, OwnType, PoolInv, Pool, Pnp, Driver, rest, args
  <1>1. CASE StartCommand
    BY <1>1 DEF StartCommand
  <1>2. CASE EndCommand
    BY <1>2 DEF EndCommand
  <1>3. CASE PluginListener
    BY <1>3 DEF PluginListener
  <1>4. CASE UNCHANGED own
    BY <1>4, OwnKept
  <1>5. CASE SigWait \/ SigDisconnect
    BY <1>5 DEF SigWait, SigDisconnect
  <1>6. CASE Throw \/ RunThrows \/ SetSockFails
    BY <1>6 DEF Throw, RunThrows, SetSockFails
  <1>7. CASE Request
    BY <1>7 DEF Request
  <1>8. CASE SendSignal
    BY <1>8 DEF SendSignal
  <1> QED
    BY <1>1, <1>2, <1>3, <1>4, <1>5, <1>6, <1>7, <1>8
    DEF Worker, WatchdogThread, DeviceThread, Signals, Environment

-----------------------------------------------------------------------------
(* The theorems.                                                           *)

\* num_minions fits into a size_t, whatever the argument and the hardware.
LEMMA MinionsType ==
    ASSUME NEW n0 \in ArgMinions, NEW hw \in HwThreads
    PROVE  ResolveMinions(n0, hw) \in 0 .. SizeMod - 1
  <1>1. SizeMod \in Nat /\ SizeMod > 4 /\ n0 \in 0 .. SizeMod - 1 /\ hw \in 0 .. SizeMod - 1
    BY ArgsAssumption
  <1> DEFINE n == IF n0 # 0 THEN n0 ELSE IF hw # 0 THEN hw ELSE 4
  <1>2. n \in 0 .. SizeMod - 1
    BY <1>1
  <1>3. ResolveMinions(n0, hw) = IF n % 2 # 0 THEN (n + 1) % SizeMod ELSE n
    BY DEF ResolveMinions
  <1> HIDE DEF n
  <1>4. (n + 1) % SizeMod \in 0 .. SizeMod - 1
    BY <1>1, <1>2
  <1> QED
    BY <1>2, <1>3, <1>4

LEMMA LifecycleInit == Init => LifecycleInv
  <1> SUFFICES ASSUME Init PROVE LifecycleInv
    OBVIOUS
  <1>1. minions \in 0 .. SizeMod - 1
    <2>1. PICK h \in HwThreads : minions = ResolveMinions(arg, h)
      BY DEF Init
    <2>2. arg \in ArgMinions
      BY DEF Init
    <2> QED
      BY <2>1, <2>2, MinionsType
  <1>2. OwnType /\ PoolInv
    BY <1>1, PoolAssumption DEF Init, OwnType, PoolInv, Pnp
  <1>m. MaskType
    BY Zenon DEF Init, MaskType
  <1>3. PL!PluginsInv
    <2>1. PL!Init
      BY DEF Init, P!Init, P!NoFile, PL!Init, PL!NoFile
    <2> QED
      BY <2>1, PluginsAssumptions, PL!PluginsInit
  <1>4. WatchInv
    <2>1. monitoring \in BOOLEAN /\ foreign \in BOOLEAN
      BY Zenon DEF Init, WD!Init
    <2> QED
      BY <2>1 DEF Init, WD!Init, WatchInv, WD!TypeOK
  <1>5. D!TypeOK
    BY DEF Init, D!Init, D!TypeOK, D!Callers
  <1> QED
    BY <1>2, <1>m, <1>3, <1>4, <1>5 DEF LifecycleInv

LEMMA LifecycleStep == LifecycleInv /\ [Next]_vars => LifecycleInv'
  <1> SUFFICES ASSUME LifecycleInv, [Next]_vars PROVE LifecycleInv'
    OBVIOUS
  <1>1. MaskType /\ OwnInv /\ Parts
    BY DEF LifecycleInv, OwnInv, Parts
  <1>2. MaskType' /\ OwnInv' /\ Parts'
    <2>1. CASE UNCHANGED vars
      <3>1. UNCHANGED own /\ UNCHANGED plug /\ UNCHANGED watch /\ UNCHANGED drive
        BY <2>1 DEF vars, parts
      <3>2. MaskType'
        BY <1>1, <3>1, Zenon DEF own, args, MaskType
      <3> QED
        BY <1>1, <3>1, <3>2, OwnKept, PlugKept, WatchKept, DriveKept DEF Parts
    <2>2. CASE Next
      BY <1>1, <2>2, MaskStep, MainOwn, OtherOwn, MainParts, OtherParts DEF Next
    <2> QED
      BY <2>1, <2>2
  <1> QED
    BY <1>2 DEF LifecycleInv, OwnInv, Parts

\* The invariant of the composition is inductive.
THEOREM LifecycleInvariant == Spec => []LifecycleInv
  BY LifecycleInit, LifecycleStep, PTL DEF Spec

\* Types of main and of the three parts it starts, in every interleaving.
THEOREM LifecycleTypeCorrect == Spec => []TypeOK
  <1>1. LifecycleInv => TypeOK
    <2> SUFFICES ASSUME LifecycleInv PROVE TypeOK
      OBVIOUS
    <2>1. P!TypeOK
      BY DEF LifecycleInv, PL!PluginsInv, PL!TypeOK, PL!Overflow, PL!NoFile, P!TypeOK, P!Overflow,
             P!NoFile
    <2> QED
      BY <2>1 DEF LifecycleInv, MaskType, OwnType, WatchInv, TypeOK
  <1> QED
    BY LifecycleInvariant, <1>1, PTL

\* A worker that executes a command never finds the mediator destroyed: ~PNP
\* comes first, and does not return.
THEOREM CommandsHaveMediator == Spec => []MediatorOutlivesCommands
  <1>1. LifecycleInv => MediatorOutlivesCommands
    BY DEF LifecycleInv, PoolInv, OwnType, MediatorOutlivesCommands, Mediator, Pnp
  <1> QED
    BY LifecycleInvariant, <1>1, PTL

\* The monitor thread of WatchdogMonitor starts at most one process, and none
\* beside a watchdog that is alive and that the server may signal.
THEOREM WatchdogRestartedOnce == Spec => RestartOnce
  <1>1. LifecycleInv /\ [Next]_vars =>
          [respawns' > respawns => respawns = 0 /\ (watchdog = "alive" => foreign)]_vars
    <2> SUFFICES ASSUME LifecycleInv, Next, respawns' > respawns
                 PROVE  respawns = 0 /\ (watchdog = "alive" => foreign)
      OBVIOUS
    <2>1. respawns \in Nat
      BY DEF LifecycleInv, WatchInv, WD!TypeOK
    <2>2. ~UNCHANGED respawns
      BY <2>1
    <2>3. WD!RestartWatchdog
      <3>1. ~UNCHANGED watch
        BY <2>2 DEF watch
      <3>2. WD!Monitor \/ WD!WatchdogEnds \/ WD!StartMonitoring \/ WD!StopMonitoring
        <4>1. CASE Main
          BY <3>1, <4>1
          DEF Main, parts, BuildStorage, BuildTCP, BuildNBD, BuildPool, BuildReactor,
              BuildMediator, BuildPnp, Serve, RunReturns, StopServing, DestroyPnp, DestroyObject,
              DestroyPool, DestroyTCP, DestroyNBD, Return
        <4>2. CASE ~Main
          BY <3>1, <4>2
          DEF Next, parts, Worker, StartCommand, EndCommand, PluginListener, WatchdogThread,
              DeviceThread, Signals, SigWait, SigDisconnect, Environment, Throw, SetSockFails,
              Request, RunThrows, SendSignal
        <4> QED
          BY <4>1, <4>2
      <3> QED
        BY <2>2, <3>2
        DEF WD!Monitor, WD!Test, WD!Check, WD!WatchdogEnds, WD!StartMonitoring, WD!StopMonitoring
    <2> QED
      BY <2>1, <2>3 DEF LifecycleInv, WatchInv, WD!RestartWatchdog
  <1> QED
    BY LifecycleInvariant, <1>1, PTL DEF Spec, RestartOnce
=============================================================================
