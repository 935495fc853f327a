----------------------------- MODULE ThreadPool -----------------------------
(***************************************************************************)
(* The command thread pool of utilities/threading/thread_pool on top of    *)
(* the blocking priority queue WPQ and the ICommand priorities.            *)
(*                                                                         *)
(* Threads: the workers running ThreadFunc; one controller, the thread     *)
(* that calls Suspend, Resume, Stop and SetSize (m_threads has no lock, so *)
(* the class allows no more than one); and any thread calling AddCommand.  *)
(*                                                                         *)
(* Atomicity: WPQ::Push and WPQ::Pop are critical sections of the queue's  *)
(* own mutex, so each is one step, and a Pop on an empty queue blocks      *)
(* atomically on the queue's condition variable.  The suspend protocol is  *)
(* different: Resume writes m_suspend_flag and notifies WITHOUT m_mutex,   *)
(* so the write, the notification, a worker's test of the flag and its     *)
(* blocking are four separate steps.  m_suspend_flag is a plain bool read  *)
(* and written by different threads; the outcomes a build can produce are  *)
(* the old and the new value, which the interleaving of these steps gives. *)
(***************************************************************************)
EXTENDS Integers, FiniteSets

CONSTANTS
    Workers,     \* identities for std::thread objects
    Commands,    \* user commands, each added at most once
    Priority,    \* the CMDPriority each command was built with
    StopBound,   \* cap on the StopCommand entries a call may leave queued
    SuspendBound \* cap on the SuspendCommand entries; 0: Suspend is never called

None == "none"

\* ICommand::CMDPriority, in enumeration order.
Low   == 0
Med   == 1
High  == 2
Admin == 3

ASSUME WorkersAssumption    == IsFiniteSet(Workers) /\ Workers # {}
ASSUME CommandsAssumption   == None \notin Commands
ASSUME PriorityAssumption   == Priority \in [Commands -> {Low, Med, High, Admin}]
ASSUME BoundsAssumption     == StopBound \in Nat /\ SuspendBound \in Nat

VARIABLES
    queued,      \* user commands in m_command
    stops,       \* StopCommand entries in m_command
    suspends,    \* SuspendCommand entries in m_command
    flag,        \* m_suspend_flag
    threads,     \* m_threads
    pc,          \* where each worker is in ThreadFunc
    running,     \* the command each worker is executing
    done,        \* commands whose Execute returned or threw
    call,        \* the controller's place in the call it is making
    left,        \* iterations left in the push loop of Suspend or Stop
    newSize,     \* SetSize's argument while it runs; 0 in a plain Stop
    before,      \* history: commands in the pool when the last Stop began
    restopped    \* history: Stop was once called on a pool already stopped

vars == <<queued, stops, suspends, flag, threads, pc, running, done,
          call, left, newSize, before, restopped>>

queueVars      == <<queued, stops, suspends>>
controllerVars == <<call, left, newSize, before, restopped, threads>>

(* A worker is                                                             *)
(*   popping    about to lock the queue in WPQ::Pop                        *)
(*   waiting    blocked on the queue's condition variable                  *)
(*   executing  inside a user command's Execute                            *)
(*   locking    in SuspendCommand::Execute, about to lock m_mutex          *)
(*   parking    holding m_mutex, having read m_suspend_flag = true         *)
(*   parked     blocked on m_cv                                            *)
(*   exited     past the loop of ThreadFunc; absent when it was never made *)
WorkerState == {"absent", "popping", "waiting", "executing",
                "locking", "parking", "parked", "exited"}

CallState == {"idle", "suspend", "resume", "stopResume", "stopPush", "join"}

At(state) == {w \in Workers : pc[w] = state}
Held      == At("locking") \cup At("parking") \cup At("parked")
Busy      == At("popping") \cup At("waiting") \cup At("executing")
Live      == Busy \cup Held
Running   == {running[w] : w \in At("executing")}
Submitted == queued \cup Running \cup done
Size      == Cardinality(threads)

-----------------------------------------------------------------------------

Init ==
    /\ queued = {} /\ stops = 0 /\ suspends = 0
    /\ flag = FALSE
    /\ threads \in (SUBSET Workers) \ {{}}
    /\ pc = [w \in Workers |-> IF w \in threads THEN "popping" ELSE "absent"]
    /\ running = [w \in Workers |-> None]
    /\ done = {}
    /\ call = "idle" /\ left = 0 /\ newSize = 0
    /\ before = {} /\ restopped = FALSE

-----------------------------------------------------------------------------
(* The queue.                                                              *)

\* Mutants of IsTop: operator< reversed; suspend tokens built with priority Low.
IsTopReversed(p) ==
    /\ \A d \in queued : Priority[d] >= p
    /\ suspends > 0 => High >= p
    /\ stops > 0 => Low >= p

IsTopSuspendLow(p) ==
    /\ \A d \in queued : Priority[d] <= p
    /\ suspends + stops > 0 => Low <= p

\* std::priority_queue with ICommand::operator<: an entry of priority p may
\* be at the top when nothing in the queue is greater; ties are unspecified.
IsTop(p) ==
    /\ \A d \in queued : Priority[d] <= p
    /\ suspends > 0 => High <= p
    /\ stops > 0 => Low <= p

\* Mutant of NotifyOne: Push forgets to notify.
NotifyNobody == UNCHANGED pc

\* m_cv.notify_one() of WPQ::Push: one blocked worker, if there is one, wakes
\* up and goes back to the test of the queue.
NotifyOne ==
    IF At("waiting") = {} THEN UNCHANGED pc
    ELSE \E w \in At("waiting") : pc' = [pc EXCEPT ![w] = "popping"]

-----------------------------------------------------------------------------
(* ThreadFunc, one worker.                                                 *)

\* WPQ::Pop on an empty queue.
PopWait(w) ==
    /\ pc[w] = "popping"
    /\ queued = {} /\ stops = 0 /\ suspends = 0
    /\ pc' = [pc EXCEPT ![w] = "waiting"]
    /\ UNCHANGED <<queueVars, flag, running, done, controllerVars>>

\* A condition variable may wake a waiter without a notification.
SpuriousPop(w) ==
    /\ pc[w] = "waiting"
    /\ pc' = [pc EXCEPT ![w] = "popping"]
    /\ UNCHANGED <<queueVars, flag, running, done, controllerVars>>

\* Mutant of PopCommand: top() without pop().
PopCommandKeeps(w, c) ==
    /\ pc[w] = "popping"
    /\ c \in queued /\ IsTop(Priority[c])
    /\ pc' = [pc EXCEPT ![w] = "executing"]
    /\ running' = [running EXCEPT ![w] = c]
    /\ UNCHANGED <<queueVars, flag, done, controllerVars>>

\* Pop returns a user command.
PopCommand(w, c) ==
    /\ pc[w] = "popping"
    /\ c \in queued /\ IsTop(Priority[c])
    /\ queued' = queued \ {c}
    /\ pc' = [pc EXCEPT ![w] = "executing"]
    /\ running' = [running EXCEPT ![w] = c]
    /\ UNCHANGED <<stops, suspends, flag, done, controllerVars>>

\* Execute returns, or throws and ThreadFunc swallows the exception.
Finish(w) ==
    /\ pc[w] = "executing"
    /\ done' = done \cup {running[w]}
    /\ running' = [running EXCEPT ![w] = None]
    /\ pc' = [pc EXCEPT ![w] = "popping"]
    /\ UNCHANGED <<queueVars, flag, controllerVars>>

\* Mutant of PopStop: the wait's predicate is lost and an empty heap is popped.
PopStopUnguarded(w) ==
    /\ pc[w] = "popping"
    /\ IsTop(Low)
    /\ stops' = stops - 1
    /\ pc' = [pc EXCEPT ![w] = "exited"]
    /\ UNCHANGED <<queued, suspends, flag, running, done, controllerVars>>

\* Pop returns a StopCommand; its Execute throws StopException, which ends
\* the loop and the thread.
PopStop(w) ==
    /\ pc[w] = "popping"
    /\ stops > 0 /\ IsTop(Low)
    /\ stops' = stops - 1
    /\ pc' = [pc EXCEPT ![w] = "exited"]
    /\ UNCHANGED <<queued, suspends, flag, running, done, controllerVars>>

\* Pop returns a SuspendCommand.
PopSuspend(w) ==
    /\ pc[w] = "popping"
    /\ suspends > 0 /\ IsTop(High)
    /\ suspends' = suspends - 1
    /\ pc' = [pc EXCEPT ![w] = "locking"]
    /\ UNCHANGED <<queued, stops, flag, running, done, controllerVars>>

\* SuspendCommand::Execute takes m_mutex and tests m_suspend_flag: it keeps
\* the mutex when the flag is set and leaves otherwise.
TestFlag(w) ==
    /\ pc[w] = "locking"
    /\ At("parking") = {}
    /\ pc' = [pc EXCEPT ![w] = IF flag THEN "parking" ELSE "popping"]
    /\ UNCHANGED <<queueVars, flag, running, done, controllerVars>>

\* m_cv.wait blocks and releases m_mutex, atomically.
Park(w) ==
    /\ pc[w] = "parking"
    /\ pc' = [pc EXCEPT ![w] = "parked"]
    /\ UNCHANGED <<queueVars, flag, running, done, controllerVars>>

SpuriousUnpark(w) ==
    /\ pc[w] = "parked"
    /\ pc' = [pc EXCEPT ![w] = "locking"]
    /\ UNCHANGED <<queueVars, flag, running, done, controllerVars>>

-----------------------------------------------------------------------------
(* Any thread.                                                             *)

\* AddCommand with a command; a null one throws and changes nothing.
AddCommand(c) ==
    /\ c \notin Submitted
    /\ queued' = queued \cup {c}
    /\ NotifyOne
    /\ UNCHANGED <<stops, suspends, flag, running, done, controllerVars>>

-----------------------------------------------------------------------------
(* The controller.                                                         *)

\* Mutant of Suspend: one token too few.
SuspendOneShort ==
    /\ call = "idle"
    /\ suspends + Size <= SuspendBound
    /\ flag' = TRUE
    /\ call' = "suspend"
    /\ left' = Size - 1
    /\ UNCHANGED <<queueVars, threads, pc, running, done, newSize, before, restopped>>

Suspend ==
    /\ call = "idle"
    /\ suspends + Size <= SuspendBound
    /\ flag' = TRUE
    /\ call' = "suspend"
    /\ left' = Size
    /\ UNCHANGED <<queueVars, threads, pc, running, done, newSize, before, restopped>>

\* One iteration of Suspend's loop.
SuspendPush ==
    /\ call = "suspend" /\ left > 0
    /\ suspends' = suspends + 1
    /\ left' = left - 1
    /\ NotifyOne
    /\ UNCHANGED <<queued, stops, flag, threads, running, done, call, newSize,
                   before, restopped>>

SuspendReturn ==
    /\ call = "suspend" /\ left = 0
    /\ call' = "idle"
    /\ UNCHANGED <<queueVars, flag, threads, pc, running, done, left, newSize,
                   before, restopped>>

\* Resume's first statement.
Resume ==
    /\ call = "idle"
    /\ flag' = FALSE
    /\ call' = "resume"
    /\ UNCHANGED <<queueVars, threads, pc, running, done, left, newSize, before,
                   restopped>>

\* m_cv.notify_all(): it wakes the workers blocked now, and no others.
NotifyAll ==
    pc' = [w \in Workers |-> IF pc[w] = "parked" THEN "locking" ELSE pc[w]]

\* Resume's second statement, when the caller is the user.
ResumeReturn ==
    /\ call = "resume"
    /\ NotifyAll
    /\ call' = "idle"
    /\ UNCHANGED <<queueVars, flag, threads, running, done, left, newSize, before,
                   restopped>>

\* Stop is entered, by SetSize(n) when n > 0, and its Resume clears the flag.
BeginStop(n) ==
    /\ call = "idle"
    /\ stops + Size <= StopBound
    /\ flag' = FALSE
    /\ call' = "stopResume"
    /\ newSize' = n
    /\ before' = queued \cup Running
    /\ restopped' = (restopped \/ At("exited") # {})
    /\ UNCHANGED <<queueVars, threads, pc, running, done, left>>

Stop == BeginStop(0)

\* SetSize(0) throws before it changes anything.
SetSize(n) == n > 0 /\ BeginStop(n)

\* Mutants of StopNotify: the push loop runs once too often, once too few.
StopNotifyOneMore ==
    /\ call = "stopResume"
    /\ NotifyAll
    /\ call' = "stopPush"
    /\ left' = Size + 1
    /\ UNCHANGED <<queueVars, flag, threads, running, done, newSize, before, restopped>>

StopNotifyOneShort ==
    /\ call = "stopResume"
    /\ NotifyAll
    /\ call' = "stopPush"
    /\ left' = Size - 1
    /\ UNCHANGED <<queueVars, flag, threads, running, done, newSize, before, restopped>>

\* The notification of the Resume inside Stop.
StopNotify ==
    /\ call = "stopResume"
    /\ NotifyAll
    /\ call' = "stopPush"
    /\ left' = Size
    /\ UNCHANGED <<queueVars, flag, threads, running, done, newSize, before, restopped>>

\* One iteration of Stop's push loop.
StopPush ==
    /\ call = "stopPush" /\ left > 0
    /\ stops' = stops + 1
    /\ left' = left - 1
    /\ NotifyOne
    /\ UNCHANGED <<queued, suspends, flag, threads, running, done, call, newSize,
                   before, restopped>>

StopPushed ==
    /\ call = "stopPush" /\ left = 0
    /\ call' = "join"
    /\ UNCHANGED <<queueVars, flag, threads, pc, running, done, left, newSize,
                   before, restopped>>

\* Mutant of Joined: Stop returns after the first join.
JoinedOne == \E w \in threads : pc[w] = "exited"

\* Every joinable thread has been joined.
Joined == \A w \in threads : pc[w] = "exited"

StopReturn ==
    /\ call = "join" /\ newSize = 0 /\ Joined
    /\ call' = "idle"
    /\ UNCHANGED <<queueVars, flag, threads, pc, running, done, left, newSize,
                   before, restopped>>

\* SetSize after Stop: clear, resize and InitThreads.
InitThreads ==
    /\ call = "join" /\ newSize > 0 /\ Joined
    /\ \E T \in SUBSET Workers :
         /\ Cardinality(T) = newSize
         /\ threads' = T
         /\ pc' = [w \in Workers |-> IF w \in T THEN "popping" ELSE "absent"]
    /\ call' = "idle"
    /\ newSize' = 0
    /\ UNCHANGED <<queueVars, flag, running, done, left, before, restopped>>

-----------------------------------------------------------------------------

Worker(w) ==
    \/ PopWait(w)
    \/ \E c \in Commands : PopCommand(w, c)
    \/ Finish(w)
    \/ PopStop(w)
    \/ PopSuspend(w)
    \/ TestFlag(w)
    \/ Park(w)

\* The rest of a call the controller has begun.
Controller ==
    \/ SuspendPush \/ SuspendReturn
    \/ ResumeReturn
    \/ StopNotify \/ StopPush \/ StopPushed \/ StopReturn \/ InitThreads

Next ==
    \/ \E w \in Workers : Worker(w) \/ SpuriousPop(w) \/ SpuriousUnpark(w)
    \/ \E c \in Commands : AddCommand(c)
    \/ Suspend \/ Resume \/ Stop
    \/ \E n \in 1 .. Cardinality(Workers) : SetSize(n)
    \/ Controller

\* Every thread that can take a step of a call or of ThreadFunc does; nobody
\* has to begin a call, and no condition variable has to wake spuriously.
Fairness == (\A w \in Workers : WF_vars(Worker(w))) /\ WF_vars(Controller)

Spec     == Init /\ [][Next]_vars
FairSpec == Spec /\ Fairness

-----------------------------------------------------------------------------
(* Properties.                                                             *)

\* The values every variable ranges over.
TypeOK ==
    /\ queued \subseteq Commands
    /\ stops \in Nat /\ suspends \in Nat
    /\ flag \in BOOLEAN
    /\ threads \subseteq Workers
    /\ pc \in [Workers -> WorkerState]
    /\ running \in [Workers -> Commands \cup {None}]
    /\ done \subseteq Commands
    /\ call \in CallState
    /\ left \in Nat
    /\ newSize \in Nat
    /\ before \subseteq Commands
    /\ restopped \in BOOLEAN

\* Suspend has returned and Resume has not been called since.
Suspended == flag /\ call # "suspend"

\* What Suspend promises without asking for a lock: once it has returned, and
\* until the next call of Suspend, Resume or Stop, no worker starts a command of
\* a priority below the suspend tokens, although the tokens are taken one by one by whichever
\* workers reach the queue, in a race with commands added before and after.
SuspendHolds ==
    [][\A c \in Commands :
         Suspended /\ c \in queued /\ c \notin queued' => Priority[c] >= High]_vars

\* Why SuspendHolds is true: the tokens queued and still to be pushed cover
\* every live worker that is not already inside SuspendCommand::Execute.
TokensCoverWorkers ==
    flag => Cardinality(Busy) <= suspends + (IF call = "suspend" THEN left ELSE 0)

\* A worker leaves ThreadFunc only while some Stop is pushing its tokens or
\* joining: no token outlives the Stop that pushed it, however the commands,
\* the suspensions and the tokens interleave.  Stop must not have been called
\* on a stopped pool before: it pushes a token for every thread it has joined
\* already, and the workers of a later SetSize would take them and exit.
NoStrayExit ==
    [][\A w \in Workers :
         ~restopped /\ pc[w] # "exited" /\ pc'[w] = "exited"
           => call \in {"stopPush", "join"}]_vars

\* Why NoStrayExit is true: the tokens queued and still to be pushed are
\* exactly one for each worker that has not exited, and none between Stops.
StopTokensMatch ==
    ~restopped =>
      stops = IF call = "stopPush" THEN Cardinality(Live) - left
              ELSE IF call = "join" THEN Cardinality(Live) ELSE 0

\* Stop on a running pool returns only when every command that was in the
\* pool at the call has run, those of the stop tokens' own priority apart.
StopDrains ==
    call = "join" /\ Joined /\ ~restopped
      => \A c \in before : Priority[c] > Low => c \in done

\* A command is executed once: it is in one place, and with one worker.
ExactlyOnce ==
    /\ queued \cap (Running \cup done) = {} /\ Running \cap done = {}
    /\ \A v, w \in At("executing") : running[v] = running[w] => v = w

\* test_thread_pool.cpp: "Suspend followed immediately by Stop must not
\* deadlock".  Stop returns.
StopReturns == call = "join" ~> call # "join"

\* A worker sleeps on m_cv although no suspension is in force: it had read the
\* flag before Resume cleared it and blocked after Resume's notification.
Stranded == At("parked") # {} /\ ~flag /\ call \notin {"resume", "stopResume"}

\* A worker that sleeps through Resume is all that can keep Stop from
\* returning: the tokens it pushes always reach every other worker.
StopJoins == call = "join" ~> call # "join" \/ Stranded

\* A command given to a running pool is executed, also when Stop follows at
\* once, unless a suspension, or its lost wake-up, holds a worker back.
CommandsRun ==
    \A c \in Commands :
      (c \in queued /\ call = "idle" /\ Live # {} /\ ~restopped /\ Priority[c] > Low)
         ~> (c \in done \/ flag \/ Stranded)

\* A suspension that is not called off takes hold of every worker.
SuspendTakesHold == Suspended ~> (Live = Held \/ ~flag)

\* The state of the abstract pool that a state of this one stands for.
Mode == IF call \in {"stopResume", "stopPush", "join"} THEN "stopping"
        ELSE IF Live = {} THEN "stopped"
        ELSE IF Suspended THEN "paused" ELSE "open"

Abstract == INSTANCE TaskPool WITH
    PausedFrom <- High, DrainedFrom <- Med, Capacity <- Cardinality(Workers),
    waiting <- queued, active <- Running, finished <- done, mode <- Mode,
    owed <- {c \in before : Priority[c] > Low}, misused <- restopped

\* The pool implements TaskPool: commands start in priority order, a
\* suspension keeps all but the urgent ones from starting, Stop finishes what
\* it owes, and no command is lost or executed twice.
ImplementsTaskPool == Abstract!Spec

=============================================================================
