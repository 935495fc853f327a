-------------------------- MODULE ThreadPoolProofs --------------------------
(***************************************************************************)
(* Theorems about ThreadPool, for any finite set of workers, any set of    *)
(* commands and any bounds.                                                *)
(*                                                                         *)
(* The argument is one of token counting.  Suspend and Stop push one token *)
(* per worker and rely on each worker taking exactly one; nothing in the   *)
(* code ties a token to a worker, so the properties follow only from       *)
(* invariants that count tokens against workers.  That the pool implements *)
(* TaskPool follows from them, and from the fact that a pool stopped once  *)
(* has stopped as a whole.                                                 *)
(***************************************************************************)
EXTENDS ThreadPool, FiniteSetTheorems, TLAPS

Stopping == call \in {"stopResume", "stopPush", "join"}

\* Bookkeeping the counting rests on: what a worker runs agrees with where it
\* is, m_threads agrees with the workers that exist, and the flag is clear
\* from Resume's first statement to the end of the call.
Consistent ==
    /\ \A w \in Workers : pc[w] = "executing" <=> running[w] # None
    /\ \A w \in Workers : pc[w] = "absent" <=> w \notin threads
    /\ threads # {}
    /\ call = "resume" \/ Stopping => ~flag
    /\ call = "stopResume" /\ ~restopped => At("exited") = {}

\* What Stop owes is still in the pool or done, and is out of the queue from
\* the moment a worker has taken a stop token.
DrainInv ==
    Stopping =>
      /\ before \subseteq Submitted
      /\ ~restopped /\ At("exited") # {}
           => \A c \in before : Priority[c] > Low => c \notin queued

IndInv == TypeOK /\ Consistent /\ TokensCoverWorkers /\ StopTokensMatch
                 /\ ExactlyOnce /\ DrainInv

-----------------------------------------------------------------------------

\* Sets of workers are finite.
LEMMA FiniteWorkers ==
    ASSUME NEW S \in SUBSET Workers
    PROVE  IsFiniteSet(S) /\ Cardinality(S) \in Nat
  BY WorkersAssumption, FS_Subset, FS_CardinalityType

\* The values the variables take, together with the agreement between pc and
\* running that the type of done depends on.
LEMMA TypeStep == TypeOK /\ Consistent /\ [Next]_vars => TypeOK'
  <1> SUFFICES ASSUME TypeOK, Consistent, [Next]_vars
               PROVE  TypeOK'
    OBVIOUS
  <1> USE DEF TypeOK, WorkerState, CallState, queueVars, controllerVars, At
  <1>1. Size \in Nat
    BY FiniteWorkers DEF Size
  <1>2. ASSUME NotifyOne
        PROVE  pc' \in [Workers -> WorkerState]
    BY <1>2 DEF NotifyOne
  <1>3. ASSUME NotifyAll
        PROVE  pc' \in [Workers -> WorkerState]
    BY <1>3 DEF NotifyAll
  <1>4. ASSUME NEW w \in Workers, Worker(w) \/ SpuriousPop(w) \/ SpuriousUnpark(w)
        PROVE  TypeOK'
    <2>1. CASE PopWait(w)
      BY <2>1 DEF PopWait
    <2>2. ASSUME NEW c \in Commands, PopCommand(w, c)
          PROVE  TypeOK'
      BY <2>2 DEF PopCommand
    <2>3. CASE Finish(w)
      BY <2>3 DEF Finish, Consistent
    <2>4. CASE PopStop(w)
      BY <2>4 DEF PopStop
    <2>5. CASE PopSuspend(w)
      BY <2>5 DEF PopSuspend
    <2>6. CASE TestFlag(w)
      BY <2>6 DEF TestFlag
    <2>7. CASE Park(w)
      BY <2>7 DEF Park
    <2>8. CASE SpuriousPop(w)
      BY <2>8 DEF SpuriousPop
    <2>9. CASE SpuriousUnpark(w)
      BY <2>9 DEF SpuriousUnpark
    <2> QED
      BY <1>4, <2>1, <2>2, <2>3, <2>4, <2>5, <2>6, <2>7, <2>8, <2>9 DEF Worker
  <1>5. ASSUME NEW c \in Commands, AddCommand(c)
        PROVE  TypeOK'
    BY <1>2, <1>5 DEF AddCommand
  <1>6. CASE Suspend
    BY <1>1, <1>6 DEF Suspend
  <1>7. CASE Resume
    BY <1>7 DEF Resume
  <1>8. ASSUME NEW n \in Nat, BeginStop(n)
        PROVE  TypeOK'
    BY <1>8 DEF BeginStop, Running, Consistent
  <1>9. CASE Stop
    BY <1>8, <1>9 DEF Stop
  <1>10. ASSUME NEW n \in 1 .. Cardinality(Workers), SetSize(n)
         PROVE  TypeOK'
    <2>1. n \in Nat
      BY FiniteWorkers
    <2> QED
      BY <1>8, <1>10, <2>1 DEF SetSize
  <1>11. CASE Controller
    <2>1. CASE SuspendPush
      BY <1>2, <2>1 DEF SuspendPush
    <2>2. CASE SuspendReturn
      BY <2>2 DEF SuspendReturn
    <2>3. CASE ResumeReturn
      BY <1>3, <2>3 DEF ResumeReturn
    <2>4. CASE StopNotify
      BY <1>1, <1>3, <2>4 DEF StopNotify
    <2>5. CASE StopPush
      BY <1>2, <2>5 DEF StopPush
    <2>6. CASE StopPushed
      BY <2>6 DEF StopPushed
    <2>7. CASE StopReturn
      BY <2>7 DEF StopReturn
    <2>8. CASE InitThreads
      BY <2>8 DEF InitThreads
    <2> QED
      BY <1>11, <2>1, <2>2, <2>3, <2>4, <2>5, <2>6, <2>7, <2>8 DEF Controller
  <1>12. CASE UNCHANGED vars
    BY <1>12 DEF vars
  <1> QED
    BY <1>4, <1>5, <1>6, <1>7, <1>9, <1>10, <1>11, <1>12 DEF Next

\* Which workers a notification touches.
LEMMA NotifyOneEffect ==
    ASSUME TypeOK, NotifyOne
    PROVE  \A w \in Workers : \/ pc'[w] = pc[w]
                              \/ pc[w] = "waiting" /\ pc'[w] = "popping"
  BY DEF TypeOK, NotifyOne, At

LEMMA NotifyAllEffect ==
    ASSUME TypeOK, NotifyAll
    PROVE  \A w \in Workers : \/ pc'[w] = pc[w]
                              \/ pc[w] = "parked" /\ pc'[w] = "locking"
  BY DEF TypeOK, NotifyAll

LEMMA ConsistentStep ==
    TypeOK /\ Consistent /\ StopTokensMatch /\ [Next]_vars => Consistent'
  <1> SUFFICES ASSUME TypeOK, Consistent, StopTokensMatch, [Next]_vars
               PROVE  Consistent'
    OBVIOUS
  <1> USE DEF Consistent, Stopping, At, queueVars, controllerVars
  <1>1. ASSUME NEW w \in Workers, Worker(w) \/ SpuriousPop(w) \/ SpuriousUnpark(w)
        PROVE  Consistent'
    <2> USE DEF TypeOK
    <2>1. CASE PopWait(w)
      BY <2>1 DEF PopWait
    <2>2. ASSUME NEW c \in Commands, PopCommand(w, c)
          PROVE  Consistent'
      BY <2>2, CommandsAssumption DEF PopCommand
    <2>3. CASE Finish(w)
      BY <2>3 DEF Finish
    <2>4. CASE PopStop(w)
      BY <2>4 DEF PopStop, StopTokensMatch
    <2>5. CASE PopSuspend(w)
      BY <2>5 DEF PopSuspend
    <2>6. CASE TestFlag(w)
      BY <2>6 DEF TestFlag
    <2>7. CASE Park(w)
      BY <2>7 DEF Park
    <2>8. CASE SpuriousPop(w)
      BY <2>8 DEF SpuriousPop
    <2>9. CASE SpuriousUnpark(w)
      BY <2>9 DEF SpuriousUnpark
    <2> QED
      BY <1>1, <2>1, <2>2, <2>3, <2>4, <2>5, <2>6, <2>7, <2>8, <2>9 DEF Worker
  <1>2. ASSUME NEW c \in Commands, AddCommand(c)
        PROVE  Consistent'
    BY <1>2, NotifyOneEffect DEF AddCommand
  <1>3. CASE Suspend
    BY <1>3 DEF Suspend
  <1>4. CASE Resume
    BY <1>4 DEF Resume
  <1>5. ASSUME NEW n, BeginStop(n)
        PROVE  Consistent'
    BY <1>5 DEF BeginStop
  <1>6. CASE Controller
    <2>1. CASE SuspendPush
      BY <2>1, NotifyOneEffect DEF SuspendPush
    <2>2. CASE SuspendReturn
      BY <2>2 DEF SuspendReturn
    <2>3. CASE ResumeReturn
      BY <2>3, NotifyAllEffect DEF ResumeReturn
    <2>4. CASE StopNotify
      BY <2>4, NotifyAllEffect DEF StopNotify
    <2>5. CASE StopPush
      BY <2>5, NotifyOneEffect DEF StopPush
    <2>6. CASE StopPushed
      BY <2>6 DEF StopPushed
    <2>7. CASE StopReturn
      BY <2>7 DEF StopReturn
    <2>8. CASE InitThreads
      <3>1. PICK T \in SUBSET Workers :
                   /\ Cardinality(T) = newSize
                   /\ threads' = T
                   /\ pc' = [w \in Workers |-> IF w \in T THEN "popping" ELSE "absent"]
        BY <2>8 DEF InitThreads
      <3>2. T # {}
        BY <2>8, <3>1, FS_EmptySet DEF InitThreads
      <3>3. \A w \in Workers : running[w] = None
        BY <2>8 DEF InitThreads, Joined
      <3> QED
        BY <2>8, <3>1, <3>2, <3>3 DEF InitThreads
    <2> QED
      BY <1>6, <2>1, <2>2, <2>3, <2>4, <2>5, <2>6, <2>7, <2>8 DEF Controller
  <1>7. CASE UNCHANGED vars
    BY <1>7 DEF vars
  <1> QED
    BY <1>1, <1>2, <1>3, <1>4, <1>5, <1>6, <1>7 DEF Next, Stop, SetSize

-----------------------------------------------------------------------------
(* Counting.                                                               *)

\* Removing a worker from a set of workers takes one off its size.
LEMMA RemoveWorker ==
    ASSUME NEW S \in SUBSET Workers, NEW w \in S
    PROVE  Cardinality(S \ {w}) = Cardinality(S) - 1
  BY FiniteWorkers, FS_RemoveElement

\* Only PopStop and InitThreads change which workers are live.
LEMMA LiveStep ==
    ASSUME TypeOK, [Next]_vars,
           ~(\E w \in Workers : PopStop(w)), ~InitThreads
    PROVE  Live' = Live
  <1> USE DEF TypeOK, Live, Busy, Held, At, queueVars, controllerVars
  <1>1. ASSUME NEW w \in Workers, Worker(w) \/ SpuriousPop(w) \/ SpuriousUnpark(w)
        PROVE  Live' = Live
    BY <1>1 DEF Worker, PopWait, PopCommand, Finish, PopSuspend, TestFlag, Park,
                SpuriousPop, SpuriousUnpark
  <1>2. ASSUME NotifyOne
        PROVE  Live' = Live
    BY <1>2, NotifyOneEffect
  <1>3. ASSUME NotifyAll
        PROVE  Live' = Live
    BY <1>3, NotifyAllEffect
  <1>4. ASSUME UNCHANGED pc
        PROVE  Live' = Live
    BY <1>4
  <1> QED
    BY <1>1, <1>2, <1>3, <1>4 DEF Next, AddCommand, Suspend, Resume, Stop, SetSize,
       BeginStop, Controller, SuspendPush, SuspendReturn, ResumeReturn, StopNotify,
       StopPush, StopPushed, StopReturn, vars

\* While the flag is set, the workers outside SuspendCommand::Execute only
\* become fewer, by one for each token that leaves the queue.
LEMMA BusyStep ==
    ASSUME TypeOK, Consistent, [Next]_vars, flag,
           ~(\E w \in Workers : PopStop(w) \/ PopSuspend(w))
    PROVE  Busy' = Busy
  <1> USE DEF TypeOK, Busy, At, queueVars, controllerVars
  <1>1. ASSUME NEW w \in Workers, Worker(w) \/ SpuriousPop(w) \/ SpuriousUnpark(w)
        PROVE  Busy' = Busy
    BY <1>1 DEF Worker, PopWait, PopCommand, Finish, TestFlag, Park,
                SpuriousPop, SpuriousUnpark
  <1>2. ASSUME NotifyOne
        PROVE  Busy' = Busy
    BY <1>2, NotifyOneEffect
  <1>3. ASSUME NotifyAll
        PROVE  Busy' = Busy
    BY <1>3, NotifyAllEffect
  <1>4. ASSUME UNCHANGED pc
        PROVE  Busy' = Busy
    BY <1>4
  <1>5. ~InitThreads
    BY DEF InitThreads, Consistent, Stopping
  <1> QED
    BY <1>1, <1>2, <1>3, <1>4, <1>5 DEF Next, AddCommand, Suspend, Resume, Stop, SetSize,
       BeginStop, Controller, SuspendPush, SuspendReturn, ResumeReturn, StopNotify,
       StopPush, StopPushed, StopReturn, vars

\* Stop tokens keep matching the workers they are for.
LEMMA StopTokensStep ==
    TypeOK /\ Consistent /\ StopTokensMatch /\ [Next]_vars => StopTokensMatch'
  <1> SUFFICES ASSUME TypeOK, Consistent, StopTokensMatch, [Next]_vars, ~restopped'
               PROVE  StopTokensMatch'
    BY DEF StopTokensMatch
  <1>1. Live \in SUBSET Workers /\ Cardinality(Live) \in Nat
    BY FiniteWorkers DEF Live, Busy, Held, At
  <1>2. ~restopped
    BY DEF Next, Worker, PopWait, PopCommand, Finish, PopStop, PopSuspend, TestFlag,
       Park, SpuriousPop, SpuriousUnpark, AddCommand, Suspend, Resume, Stop, SetSize,
       BeginStop, Controller, SuspendPush, SuspendReturn, ResumeReturn, StopNotify,
       StopPush, StopPushed, StopReturn, InitThreads, controllerVars, vars
  <1> USE DEF StopTokensMatch, queueVars, controllerVars
  <1>3. ASSUME NEW w \in Workers, PopStop(w)
        PROVE  StopTokensMatch'
    <2>1. w \in Live /\ Live' = Live \ {w}
      BY <1>3 DEF PopStop, Live, Busy, Held, At, TypeOK
    <2>2. Cardinality(Live') = Cardinality(Live) - 1
      BY <1>1, <2>1, RemoveWorker
    <2> QED
      BY <1>1, <1>2, <1>3, <2>2 DEF PopStop, TypeOK
  <1>4. CASE InitThreads
    <2>1. Live = {}
      BY <1>4 DEF InitThreads, Joined, Live, Busy, Held, At, TypeOK, Consistent
    <2> QED
      BY <1>2, <1>4, <2>1, FS_EmptySet DEF InitThreads
  <1>5. CASE StopReturn
    <2>1. Live = {} /\ Live' = Live
      BY <1>5 DEF StopReturn, Joined, Live, Busy, Held, At, TypeOK, Consistent
    <2> QED
      BY <1>2, <1>5, <2>1, FS_EmptySet DEF StopReturn
  <1>6. CASE StopNotify
    <2>1. Live = threads
      BY <1>2, <1>6 DEF StopNotify, Live, Busy, Held, At, TypeOK, Consistent, WorkerState
    <2>2. Live' = Live
      BY <1>6, NotifyAllEffect DEF StopNotify, Live, Busy, Held, At
    <2> QED
      BY <1>1, <1>2, <1>6, <2>1, <2>2 DEF StopNotify, Size
  <1>7. ASSUME Live' = Live, ~(\E w \in Workers : PopStop(w)), ~InitThreads,
               ~StopReturn, ~StopNotify
        PROVE  StopTokensMatch'
    <2>1. CASE StopPush
      BY <1>1, <1>2, <1>7, <2>1 DEF StopPush, TypeOK
    <2>2. CASE StopPushed
      BY <1>1, <1>2, <1>7, <2>2 DEF StopPushed, TypeOK
    <2>3. ASSUME NEW n, BeginStop(n)
          PROVE  StopTokensMatch'
      BY <1>2, <2>3 DEF BeginStop
    <2>4. CASE Suspend \/ SuspendPush \/ SuspendReturn \/ Resume \/ ResumeReturn
      BY <1>2, <2>4 DEF Suspend, SuspendPush, SuspendReturn, Resume, ResumeReturn
    <2>5. ASSUME UNCHANGED <<stops, call, left, restopped>>
          PROVE  StopTokensMatch'
      BY <1>2, <1>7, <2>5
    <2> QED
      BY <1>7, <2>1, <2>2, <2>3, <2>4, <2>5 DEF Next, Worker, PopWait, PopCommand, Finish,
         PopSuspend, TestFlag, Park, SpuriousPop, SpuriousUnpark, AddCommand, Stop,
         SetSize, Controller, vars
  <1> QED
    BY <1>3, <1>4, <1>5, <1>6, <1>7, LiveStep

\* Suspend tokens keep covering the workers they are for.
LEMMA SuspendTokensStep ==
    TypeOK /\ Consistent /\ TokensCoverWorkers /\ [Next]_vars => TokensCoverWorkers'
  <1> SUFFICES ASSUME TypeOK, Consistent, TokensCoverWorkers, [Next]_vars, flag'
               PROVE  TokensCoverWorkers'
    BY DEF TokensCoverWorkers
  <1>1. Busy \in SUBSET Workers /\ Cardinality(Busy) \in Nat
    BY FiniteWorkers DEF Busy, At
  <1> USE DEF TokensCoverWorkers, queueVars, controllerVars
  <1>2. CASE Suspend
    <2>1. Busy \subseteq threads /\ Busy' = Busy
      BY <1>2 DEF Busy, At, Suspend, Consistent
    <2>2. Cardinality(Busy) <= Size /\ Size \in Nat
      BY <2>1, FiniteWorkers, FS_Subset DEF Size, TypeOK
    <2> QED
      BY <1>1, <1>2, <2>1, <2>2 DEF Suspend, TypeOK
  <1>3. CASE ~Suspend
    <2>1. flag
      BY <1>3 DEF Next, Worker, PopWait, PopCommand, Finish, PopStop, PopSuspend, TestFlag,
         Park, SpuriousPop, SpuriousUnpark, AddCommand, Resume, Stop, SetSize,
         BeginStop, Controller, SuspendPush, SuspendReturn, ResumeReturn, StopNotify,
         StopPush, StopPushed, StopReturn, InitThreads, vars
    <2>2. call \in {"idle", "suspend"}
      BY <2>1 DEF Consistent, Stopping, TypeOK, CallState
    <2>3. ASSUME NEW w \in Workers, PopSuspend(w) \/ PopStop(w)
          PROVE  TokensCoverWorkers'
      <3>1. w \in Busy /\ Busy' = Busy \ {w}
        BY <2>3 DEF PopSuspend, PopStop, Busy, At, TypeOK
      <3>2. Cardinality(Busy') = Cardinality(Busy) - 1
        BY <1>1, <3>1, RemoveWorker
      <3> QED
        BY <1>1, <2>1, <2>3, <3>2 DEF PopSuspend, PopStop, TypeOK
    <2>4. ASSUME Busy' = Busy, ~(\E w \in Workers : PopStop(w) \/ PopSuspend(w))
          PROVE  TokensCoverWorkers'
      <3>1. CASE SuspendPush
        BY <1>1, <2>1, <2>4, <3>1 DEF SuspendPush, TypeOK
      <3>2. CASE SuspendReturn
        BY <1>1, <2>1, <2>4, <3>2 DEF SuspendReturn, TypeOK
      <3>3. ASSUME UNCHANGED <<suspends, call, left>>
            PROVE  TokensCoverWorkers'
        BY <2>1, <2>4, <3>3
      <3> QED
        BY <1>3, <2>2, <2>4, <3>1, <3>2, <3>3 DEF Next, Worker, PopWait, PopCommand, Finish,
           TestFlag, Park, SpuriousPop, SpuriousUnpark, AddCommand, Resume, Stop,
           SetSize, BeginStop, Controller, ResumeReturn, StopNotify, StopPush,
           StopPushed, StopReturn, InitThreads, vars
    <2> QED
      BY <2>1, <2>3, <2>4, BusyStep
  <1> QED
    BY <1>2, <1>3

-----------------------------------------------------------------------------
(* Commands.                                                               *)

\* What a step does to the commands in execution.
LEMMA RunningPop ==
    ASSUME TypeOK, NEW w \in Workers, NEW c \in Commands, PopCommand(w, c)
    PROVE  /\ At("executing")' = At("executing") \cup {w} /\ w \notin At("executing")
           /\ Running' = Running \cup {c}
  BY DEF TypeOK, PopCommand, Running, At

LEMMA RunningFinish ==
    ASSUME TypeOK, ExactlyOnce, NEW w \in Workers, Finish(w)
    PROVE  /\ At("executing")' = At("executing") \ {w} /\ w \in At("executing")
           /\ Running' = Running \ {running[w]} /\ running[w] \in Running
  <1>1. At("executing")' = At("executing") \ {w} /\ w \in At("executing")
    BY DEF TypeOK, Finish, At
  <1>2. \A v \in At("executing") : v # w => running[v] # running[w] /\ running'[v] = running[v]
    BY <1>1 DEF TypeOK, ExactlyOnce, Finish, At
  <1> QED
    BY <1>1, <1>2 DEF Running

\* Every other step leaves them alone.
LEMMA RunningSame ==
    ASSUME TypeOK, Consistent, [Next]_vars,
           ~(\E w \in Workers, c \in Commands : PopCommand(w, c)),
           ~(\E w \in Workers : Finish(w))
    PROVE  /\ At("executing")' = At("executing") /\ UNCHANGED <<running, done>>
           /\ Running' = Running
  <1>1. At("executing")' = At("executing") /\ UNCHANGED <<running, done>>
    <2> USE DEF TypeOK, At, queueVars, controllerVars
    <2>1. ASSUME NEW w \in Workers, Worker(w) \/ SpuriousPop(w) \/ SpuriousUnpark(w)
          PROVE  At("executing")' = At("executing") /\ UNCHANGED <<running, done>>
      BY <2>1 DEF Worker, PopWait, PopStop, PopSuspend, TestFlag, Park, SpuriousPop,
                  SpuriousUnpark
    <2>2. NotifyOne => At("executing")' = At("executing")
      BY NotifyOneEffect
    <2>3. NotifyAll => At("executing")' = At("executing")
      BY NotifyAllEffect
    <2>4. CASE InitThreads
      BY <2>4 DEF InitThreads, Joined, Consistent
    <2> QED
      BY <2>1, <2>2, <2>3, <2>4 DEF Next, AddCommand, Suspend, Resume, Stop, SetSize,
         BeginStop, Controller, SuspendPush, SuspendReturn, ResumeReturn, StopNotify,
         StopPush, StopPushed, StopReturn, vars
  <1> QED
    BY <1>1 DEF Running

LEMMA OnceStep == TypeOK /\ Consistent /\ ExactlyOnce /\ [Next]_vars => ExactlyOnce'
  <1> SUFFICES ASSUME TypeOK, Consistent, ExactlyOnce, [Next]_vars
               PROVE  ExactlyOnce'
    OBVIOUS
  <1>1. ASSUME NEW w \in Workers, NEW c \in Commands, PopCommand(w, c)
        PROVE  ExactlyOnce'
    <2>1. /\ At("executing")' = At("executing") \cup {w} /\ w \notin At("executing")
          /\ Running' = Running \cup {c}
      BY <1>1, RunningPop
    <2>2. c \in queued /\ queued' = queued \ {c} /\ done' = done
      BY <1>1 DEF PopCommand
    <2>3. \A v \in At("executing") : running[v] \in Running /\ running'[v] = running[v]
      BY <1>1, <2>1 DEF Running, PopCommand, TypeOK, At
    <2>4. running'[w] = c
      BY <1>1 DEF PopCommand, TypeOK
    <2>5. c \notin Running
      BY <2>2 DEF ExactlyOnce
    <2>6. \A u, v \in At("executing")' : running'[u] = running'[v] => u = v
      BY <2>1, <2>3, <2>4, <2>5 DEF ExactlyOnce
    <2>7. /\ queued' \cap (Running' \cup done') = {}
          /\ Running' \cap done' = {}
      BY <2>1, <2>2 DEF ExactlyOnce
    <2> QED
      BY <2>6, <2>7 DEF ExactlyOnce
  <1>2. ASSUME NEW w \in Workers, Finish(w)
        PROVE  ExactlyOnce'
    <2>1. /\ At("executing")' = At("executing") \ {w} /\ w \in At("executing")
          /\ Running' = Running \ {running[w]} /\ running[w] \in Running
      BY <1>2, RunningFinish
    <2>2. queued' = queued /\ done' = done \cup {running[w]}
      BY <1>2 DEF Finish, queueVars
    <2>3. \A v \in At("executing") : v # w => running'[v] = running[v]
      BY <1>2 DEF Finish, TypeOK, At
    <2>4. \A u, v \in At("executing")' : running'[u] = running'[v] => u = v
      BY <2>1, <2>3 DEF ExactlyOnce
    <2>5. /\ queued' \cap (Running' \cup done') = {}
          /\ Running' \cap done' = {}
      BY <2>1, <2>2 DEF ExactlyOnce
    <2> QED
      BY <2>4, <2>5 DEF ExactlyOnce
  <1>3. ASSUME ~(\E w \in Workers, c \in Commands : PopCommand(w, c)),
               ~(\E w \in Workers : Finish(w))
        PROVE  ExactlyOnce'
    <2>1. \/ queued' = queued
          \/ \E c \in Commands : c \notin Submitted /\ queued' = queued \cup {c}
      BY <1>3 DEF Next, Worker, PopWait, PopStop, PopSuspend, TestFlag, Park,
         SpuriousPop, SpuriousUnpark, AddCommand, Suspend, Resume, Stop, SetSize,
         BeginStop, Controller, SuspendPush, SuspendReturn, ResumeReturn, StopNotify,
         StopPush, StopPushed, StopReturn, InitThreads, queueVars, vars
    <2> QED
      BY <1>3, <2>1, RunningSame DEF ExactlyOnce, Submitted
  <1> QED
    BY <1>1, <1>2, <1>3

\* What Stop owes stays accounted for.
LEMMA DrainStep == IndInv /\ [Next]_vars => DrainInv'
  <1> SUFFICES ASSUME IndInv, [Next]_vars, Stopping'
               PROVE  DrainInv'
    BY DEF DrainInv
  <1> USE DEF IndInv
  <1>1. ASSUME NEW n, BeginStop(n)
        PROVE  DrainInv'
    <2>1. before' \subseteq Submitted'
      BY <1>1, RunningSame DEF BeginStop, Submitted, Running, At, queueVars
    <2>2. restopped' \/ At("exited")' = {}
      BY <1>1 DEF BeginStop, At
    <2> QED
      BY <2>1, <2>2 DEF DrainInv
  <1>2. ASSUME Stopping, UNCHANGED <<before, restopped>>
        PROVE  DrainInv'
    <2>1. Submitted \subseteq Submitted'
      <3>1. ASSUME NEW w \in Workers, NEW c \in Commands, PopCommand(w, c)
            PROVE  Submitted \subseteq Submitted'
        <4>1. Running' = Running \cup {c}
          BY <3>1, RunningPop
        <4>2. queued' = queued \ {c} /\ done' = done
          BY <3>1 DEF PopCommand
        <4> QED
          BY <4>1, <4>2 DEF Submitted
      <3>2. ASSUME NEW w \in Workers, Finish(w)
            PROVE  Submitted \subseteq Submitted'
        BY <3>2, RunningFinish DEF Finish, Submitted, queueVars
      <3>3. ASSUME ~(\E w \in Workers, c \in Commands : PopCommand(w, c)),
                   ~(\E w \in Workers : Finish(w))
            PROVE  queued \subseteq queued'
        BY <3>3 DEF Next, Worker, PopWait, PopStop, PopSuspend, TestFlag, Park,
           SpuriousPop, SpuriousUnpark, AddCommand, Suspend, Resume, Stop, SetSize,
           BeginStop, Controller, SuspendPush, SuspendReturn, ResumeReturn, StopNotify,
           StopPush, StopPushed, StopReturn, InitThreads, queueVars, vars
      <3> QED
        BY <3>1, <3>2, <3>3, RunningSame DEF Submitted
    <2>2. \A c \in before : c \in queued' => c \in queued
      BY <1>2 DEF DrainInv, Next, Worker, PopWait, PopCommand, Finish, PopStop, PopSuspend,
         TestFlag, Park, SpuriousPop, SpuriousUnpark, AddCommand, Suspend, Resume, Stop,
         SetSize, BeginStop, Controller, SuspendPush, SuspendReturn, ResumeReturn,
         StopNotify, StopPush, StopPushed, StopReturn, InitThreads, queueVars, vars
    <2>3. ASSUME NEW w \in Workers, PopStop(w), NEW c \in before, Priority[c] > Low
          PROVE  c \notin queued'
      <3>1. c \in queued => Priority[c] <= Low
        BY <2>3 DEF PopStop, IsTop
      <3>2. c \in Commands /\ Priority[c] \in Nat
        BY <2>3, PriorityAssumption DEF TypeOK, Low, Med, High, Admin
      <3> QED
        BY <2>2, <2>3, <3>1, <3>2 DEF Low
    <2>4. ASSUME ~(\E w \in Workers : PopStop(w))
          PROVE  At("exited")' \subseteq At("exited")
      <3> USE DEF TypeOK, At, queueVars, controllerVars
      <3>1. ASSUME NEW w \in Workers, Worker(w) \/ SpuriousPop(w) \/ SpuriousUnpark(w)
            PROVE  At("exited")' \subseteq At("exited")
        BY <2>4, <3>1 DEF Worker, PopWait, PopCommand, Finish, PopSuspend, TestFlag, Park,
                          SpuriousPop, SpuriousUnpark
      <3>2. NotifyOne => At("exited")' \subseteq At("exited")
        BY NotifyOneEffect
      <3>3. NotifyAll => At("exited")' \subseteq At("exited")
        BY NotifyAllEffect
      <3>4. CASE InitThreads
        BY <3>4 DEF InitThreads
      <3> QED
        BY <3>1, <3>2, <3>3, <3>4 DEF Next, AddCommand, Suspend, Resume, Stop, SetSize,
           BeginStop, Controller, SuspendPush, SuspendReturn, ResumeReturn, StopNotify,
           StopPush, StopPushed, StopReturn, vars
    <2> QED
      BY <1>2, <2>1, <2>2, <2>3, <2>4 DEF DrainInv
  <1> QED
    BY <1>1, <1>2 DEF Stopping, Next, Worker, PopWait, PopCommand, Finish, PopStop,
       PopSuspend, TestFlag, Park, SpuriousPop, SpuriousUnpark, AddCommand, Suspend,
       Resume, Stop, SetSize, Controller, SuspendPush, SuspendReturn, ResumeReturn,
       StopNotify, StopPush, StopPushed, StopReturn, InitThreads, controllerVars, vars

-----------------------------------------------------------------------------
(* Theorems.                                                               *)

LEMMA InitInv == Init => IndInv
  <1> SUFFICES ASSUME Init
               PROVE  IndInv
    OBVIOUS
  <1> USE DEF Init
  <1>1. TypeOK
    BY DEF TypeOK, WorkerState, CallState
  <1>2. Consistent
    BY DEF Consistent, Stopping, At
  <1>3. TokensCoverWorkers /\ StopTokensMatch
    BY DEF TokensCoverWorkers, StopTokensMatch
  <1>4. At("executing") = {} /\ Running = {}
    BY DEF At, Running
  <1>5. ExactlyOnce
    BY <1>4 DEF ExactlyOnce
  <1> QED
    BY <1>1, <1>2, <1>3, <1>5 DEF IndInv, DrainInv, Stopping

\* Only commands above the suspend tokens are taken from the queue of a suspended pool.
LEMMA SuspendedPop ==
    ASSUME IndInv, Suspended, NEW w \in Workers, NEW c \in Commands, PopCommand(w, c)
    PROVE  Priority[c] >= High
  <1> USE DEF IndInv
  <1>1. w \in Busy
    BY DEF PopCommand, Busy, At
  <1>2. Busy \in SUBSET Workers /\ IsFiniteSet(Busy) /\ Cardinality(Busy) \in Nat
    BY FiniteWorkers DEF Busy, At
  <1>3. Cardinality(Busy) > 0
    BY <1>1, <1>2, FS_EmptySet
  <1>4. suspends > 0
    BY <1>2, <1>3 DEF TokensCoverWorkers, Suspended, TypeOK
  <1>5. Priority[c] \in Nat
    BY PriorityAssumption DEF Low, Med, High, Admin
  <1> QED
    BY <1>4, <1>5 DEF PopCommand, IsTop, High

\* What Stop owes is done when all threads have been joined.
LEMMA DrainedAtReturn == IndInv => StopDrains
  <1> SUFFICES ASSUME IndInv, call = "join", Joined, ~restopped,
                      NEW c \in before, Priority[c] > Low
               PROVE  c \in done
    BY DEF StopDrains
  <1> USE DEF IndInv
  <1>1. At("exited") # {} /\ Running = {}
    BY DEF Joined, Consistent, At, Running, TypeOK
  <1> QED
    BY <1>1 DEF DrainInv, Stopping, Submitted

\* The inductive invariant of the pool.
THEOREM PoolInvariant == Spec => []IndInv
  <1>1. IndInv /\ [Next]_vars => IndInv'
    BY TypeStep, ConsistentStep, SuspendTokensStep, StopTokensStep, OnceStep, DrainStep
       DEF IndInv
  <1> QED
    BY <1>1, InitInv, PTL DEF Spec

\* Every variable keeps its type, so no token count goes below zero.
THEOREM TypeCorrect == Spec => []TypeOK
  BY PoolInvariant, PTL DEF IndInv

\* Stop pushes, and leaves queued, exactly one token per worker to be ended.
THEOREM StopTokensExact == Spec => []StopTokensMatch
  BY PoolInvariant, PTL DEF IndInv

\* The suspend tokens always cover the workers that are not held yet.
THEOREM SuspendTokensSuffice == Spec => []TokensCoverWorkers
  BY PoolInvariant, PTL DEF IndInv

\* No command is executed twice or by two workers.
THEOREM CommandsExecuteOnce == Spec => []ExactlyOnce
  BY PoolInvariant, PTL DEF IndInv

\* Stop returns only when what was in the pool at the call has been executed,
\* the commands of priority Low apart.
THEOREM StopDrainsPool == Spec => []StopDrains
  BY DrainedAtReturn, PoolInvariant, PTL

\* Between the return of Suspend and the next Resume no worker starts a
\* command of a priority below the suspend tokens.
THEOREM SuspensionHolds == Spec => SuspendHolds
  <1>1. ASSUME IndInv, [Next]_vars, NEW c \in Commands,
               Suspended, c \in queued, c \notin queued'
        PROVE  Priority[c] >= High
    <2> USE DEF IndInv
    <2>1. PICK w \in Workers, d \in Commands : PopCommand(w, d) /\ d = c
      BY <1>1 DEF Next, Worker, PopWait, PopCommand, Finish, PopStop, PopSuspend,
         TestFlag, Park, SpuriousPop, SpuriousUnpark, AddCommand, Suspend, Resume, Stop,
         SetSize, BeginStop, Controller, SuspendPush, SuspendReturn, ResumeReturn,
         StopNotify, StopPush, StopPushed, StopReturn, InitThreads, queueVars, vars
    <2> QED
      BY <1>1, <2>1, SuspendedPop
  <1>2. IndInv /\ [Next]_vars =>
          [\A c \in Commands :
             Suspended /\ c \in queued /\ c \notin queued' => Priority[c] >= High]_vars
    BY <1>1
  <1> QED
    BY <1>2, PoolInvariant, PTL DEF Spec, SuspendHolds

\* No worker exits outside a Stop, unless Stop was called on a stopped pool.
THEOREM NoWorkerStrays == Spec => NoStrayExit
  <1>1. ASSUME IndInv, [Next]_vars, NEW w \in Workers,
               ~restopped, pc[w] # "exited", pc'[w] = "exited"
        PROVE  call \in {"stopPush", "join"}
    <2> USE DEF IndInv, TypeOK, queueVars, controllerVars
    <2>1. CASE \E v \in Workers : PopStop(v)
      BY <1>1, <2>1 DEF PopStop, StopTokensMatch
    <2>2. CASE ~(\E v \in Workers : PopStop(v))
      <3>1. NotifyOne => pc'[w] # "exited"
        BY <1>1, NotifyOneEffect
      <3>2. NotifyAll => pc'[w] # "exited"
        BY <1>1, NotifyAllEffect
      <3>3. ASSUME NEW v \in Workers, Worker(v) \/ SpuriousPop(v) \/ SpuriousUnpark(v)
            PROVE  pc'[w] # "exited"
        BY <1>1, <2>2, <3>3 DEF Worker, PopWait, PopCommand, Finish, PopSuspend, TestFlag,
                                Park, SpuriousPop, SpuriousUnpark
      <3>4. CASE InitThreads
        BY <1>1, <3>4 DEF InitThreads
      <3> QED
        BY <1>1, <3>1, <3>2, <3>3, <3>4 DEF Next, AddCommand, Suspend, Resume, Stop,
           SetSize, BeginStop, Controller, SuspendPush, SuspendReturn, ResumeReturn,
           StopNotify, StopPush, StopPushed, StopReturn, vars
    <2> QED
      BY <2>1, <2>2
  <1>2. IndInv /\ [Next]_vars =>
          [\A w \in Workers :
             ~restopped /\ pc[w] # "exited" /\ pc'[w] = "exited"
               => call \in {"stopPush", "join"}]_vars
    BY <1>1
  <1> QED
    BY <1>2, PoolInvariant, PTL DEF Spec, NoStrayExit

-----------------------------------------------------------------------------
(* The refinement of TaskPool.                                             *)

\* A pool that was never stopped twice has stopped as a whole: between two calls
\* of Stop its workers have all exited, or none has.
StoppedInv == ~restopped /\ ~Stopping /\ At("exited") # {} => Live = {}

RefineInv == IndInv /\ StoppedInv

\* Which workers have exited changes when they take a stop token or are replaced.
LEMMA ExitedStep ==
    ASSUME TypeOK, [Next]_vars, ~(\E w \in Workers : PopStop(w)), ~InitThreads
    PROVE  At("exited")' = At("exited")
  <1> USE DEF TypeOK, At, queueVars, controllerVars
  <1>1. ASSUME NEW w \in Workers, Worker(w) \/ SpuriousPop(w) \/ SpuriousUnpark(w)
        PROVE  At("exited")' = At("exited")
    BY <1>1 DEF Worker, PopWait, PopCommand, Finish, PopSuspend, TestFlag, Park,
                SpuriousPop, SpuriousUnpark
  <1>2. NotifyOne => At("exited")' = At("exited")
    BY NotifyOneEffect
  <1>3. NotifyAll => At("exited")' = At("exited")
    BY NotifyAllEffect
  <1> QED
    BY <1>1, <1>2, <1>3 DEF Next, AddCommand, Suspend, Resume, Stop, SetSize,
       BeginStop, Controller, SuspendPush, SuspendReturn, ResumeReturn, StopNotify,
       StopPush, StopPushed, StopReturn, vars

\* How the calls that stop the pool begin and end.
LEMMA StoppingStep ==
    ASSUME [Next]_vars
    PROVE  \/ UNCHANGED restopped /\ (Stopping' <=> Stopping) /\ ~StopReturn /\ ~InitThreads
           \/ Stopping'
           \/ StopReturn
           \/ InitThreads
  BY DEF Stopping, Next, Worker, PopWait, PopCommand, Finish, PopStop,
     PopSuspend, TestFlag, Park, SpuriousPop, SpuriousUnpark, AddCommand, Suspend,
     Resume, Stop, SetSize, BeginStop, Controller, SuspendPush, SuspendReturn, ResumeReturn,
     StopNotify, StopPush, StopPushed, controllerVars, vars

\* The workers that are left when all threads have been joined.
LEMMA JoinedLive ==
    ASSUME TypeOK, Consistent, Joined PROVE Live = {} /\ At("executing") = {} /\ Running = {}
  <1>1. \A w \in Workers : pc[w] \in {"exited", "absent"}
    BY DEF TypeOK, Consistent, Joined
  <1> QED
    BY <1>1 DEF Live, Busy, Held, At, Running

LEMMA StoppedStep == IndInv /\ StoppedInv /\ [Next]_vars => StoppedInv'
  <1> SUFFICES ASSUME IndInv, StoppedInv, [Next]_vars, ~restopped', ~Stopping', At("exited")' # {}
               PROVE  Live' = {}
    BY DEF StoppedInv
  <1> USE DEF IndInv
  <1>1. CASE StopReturn
    <2>1. UNCHANGED pc /\ Joined
      BY <1>1 DEF StopReturn
    <2>2. Live = {}
      BY <2>1, JoinedLive
    <2> QED
      BY <2>1, <2>2 DEF Live, Busy, Held, At
  <1>2. CASE InitThreads
    BY <1>2 DEF InitThreads, At
  <1>3. CASE UNCHANGED restopped /\ (Stopping' <=> Stopping) /\ ~StopReturn /\ ~InitThreads
    <2>1. ASSUME NEW w \in Workers PROVE ~PopStop(w)
      <3>1. stops = 0
        BY <1>3 DEF StopTokensMatch, Stopping
      <3> QED
        BY <3>1 DEF PopStop
    <2> QED
      BY <1>3, <2>1, ExitedStep, LiveStep DEF StoppedInv
  <1> QED
    BY <1>1, <1>2, <1>3, StoppingStep

LEMMA RefineInvariant == Spec => []RefineInv
  <1>1. Init => RefineInv
    <2>1. Init => StoppedInv
      BY DEF Init, StoppedInv, At
    <2> QED
      BY <2>1, InitInv DEF RefineInv
  <1>2. RefineInv /\ [Next]_vars => RefineInv'
    BY StoppedStep, TypeStep, ConsistentStep, SuspendTokensStep, StopTokensStep, OnceStep,
       DrainStep DEF RefineInv, IndInv
  <1> QED
    BY <1>1, <1>2, PTL DEF Spec

Owed == {c \in before : Priority[c] > Low}

\* A worker that may take a command is not executing one.
LEMMA RunningFewer ==
    ASSUME TypeOK, NEW w \in Workers, pc[w] # "executing"
    PROVE  Cardinality(Running) < Cardinality(Workers)
  <1> DEFINE S == At("executing")
             f == [v \in S |-> running[v]]
  <1>1. S \in SUBSET Workers /\ S \subseteq Workers \ {w}
    BY DEF At
  <1>2. f \in Surjection(S, Running)
    BY DEF Surjection, Running
  <1>3. IsFiniteSet(S) /\ Cardinality(S) \in Nat
    BY <1>1, FiniteWorkers
  <1> HIDE DEF f, S
  <1>4. IsFiniteSet(Running) /\ Cardinality(Running) <= Cardinality(S)
    BY <1>2, <1>3, FS_Surjection
  <1>5. Cardinality(Running) \in Nat
    BY <1>4, FS_CardinalityType
  <1>6. /\ IsFiniteSet(Workers \ {w}) /\ Cardinality(Workers \ {w}) = Cardinality(Workers) - 1
        /\ Cardinality(Workers) \in Nat
    BY FiniteWorkers, RemoveWorker
  <1>7. Cardinality(S) <= Cardinality(Workers \ {w})
    BY <1>1, <1>6, FS_Subset
  <1> QED
    BY <1>3, <1>4, <1>5, <1>6, <1>7

\* Mode, case by case.
LEMMA ModeCases ==
    /\ Mode = "stopping" <=> Stopping
    /\ Mode = "stopped" <=> ~Stopping /\ Live = {}
    /\ Mode = "paused" <=> ~Stopping /\ Live # {} /\ Suspended
    /\ Mode = "open" <=> ~Stopping /\ Live # {} /\ ~Suspended
    /\ Mode \in {"stopping", "stopped", "paused", "open"}
  BY DEF Mode, Stopping

LEMMA ModeSame ==
    ASSUME UNCHANGED <<flag, call>>, Live' = Live PROVE Mode' = Mode
  BY DEF Mode, Suspended

LEMMA Stutter ==
    ASSUME UNCHANGED <<queued, done, before, restopped>>, Running' = Running, Mode' = Mode
    PROVE  UNCHANGED Abstract!vars
  BY DEF Abstract!vars

\* TaskPool counts as this module does.
LEMMA SameCardinality == \A S : Abstract!Cardinality(S) = Cardinality(S)
  BY DEF Cardinality, Abstract!Cardinality

\* A worker takes a command: TaskPool starts it.
LEMMA PopRefines ==
    ASSUME IndInv, NEW w \in Workers, NEW c \in Commands, PopCommand(w, c)
    PROVE  Abstract!Start(c)
  <1> USE DEF IndInv
  <1>1. Running' = Running \cup {c}
    BY RunningPop
  <1>2. /\ c \in queued /\ queued' = queued \ {c} /\ pc[w] = "popping"
        /\ \A d \in queued : Priority[d] <= Priority[c]
        /\ UNCHANGED <<flag, done, call, before, restopped>>
    BY DEF PopCommand, IsTop, controllerVars
  <1>3. Live' = Live /\ w \in Live
    BY DEF PopCommand, Live, Busy, Held, At, TypeOK
  <1>4. Mode' = Mode
    BY <1>2, <1>3, ModeSame
  <1>5. Mode # "stopped" /\ (Mode = "paused" => Priority[c] >= High)
    BY <1>3, ModeCases, SuspendedPop
  <1>6. Cardinality(Running) < Cardinality(Workers)
    BY <1>2, RunningFewer
  <1> QED
    BY <1>1, <1>2, <1>4, <1>5, <1>6, SameCardinality DEF Abstract!Start

LEMMA FinishRefines ==
    ASSUME IndInv, NEW w \in Workers, Finish(w)
    PROVE  \E c \in Commands : Abstract!Finish(c)
  <1> USE DEF IndInv
  <1>1. /\ Running' = Running \ {running[w]} /\ running[w] \in Running
    BY RunningFinish
  <1>2. /\ done' = done \cup {running[w]} /\ running[w] \in Commands
        /\ UNCHANGED <<queued, flag, call, before, restopped>>
    BY DEF Finish, TypeOK, Consistent, queueVars, controllerVars
  <1>3. Live' = Live
    BY DEF Finish, Live, Busy, Held, At, TypeOK
  <1>4. Mode' = Mode
    BY <1>2, <1>3, ModeSame
  <1>5. Abstract!Finish(running[w])
    BY <1>1, <1>2, <1>4 DEF Abstract!Finish
  <1> QED
    BY <1>2, <1>5

\* A worker takes a stop token: nothing TaskPool sees, unless it is the last
\* worker and no Stop is under way.
LEMMA PopStopRefines ==
    ASSUME IndInv, NEW w \in Workers, PopStop(w), Running' = Running
    PROVE  Abstract!Collapse \/ UNCHANGED Abstract!vars
  <1> USE DEF IndInv
  <1>1. /\ UNCHANGED <<queued, flag, done, call, before, restopped>>
        /\ stops > 0 /\ pc[w] = "popping"
    BY DEF PopStop, controllerVars
  <1>2. w \in Live /\ Live' = Live \ {w}
    BY DEF PopStop, Live, Busy, Held, At, TypeOK
  <1>3. Stopping' <=> Stopping
    BY <1>1 DEF Stopping
  <1>4. Suspended' <=> Suspended
    BY <1>1 DEF Suspended
  <1>5. CASE Stopping \/ Live' # {}
    <2>1. Mode' = Mode
      BY <1>1, <1>2, <1>5 DEF Mode, Stopping, Suspended
    <2> QED
      BY <1>1, <2>1, Stutter
  <1>6. CASE ~Stopping /\ Live' = {}
    <2>1. restopped
      BY <1>1, <1>6 DEF StopTokensMatch, Stopping
    <2>2. Running = {}
      <3>1. At("executing") \subseteq Live
        BY DEF Live, Busy
      <3>2. At("executing") = {}
        BY <1>1, <1>2, <1>6, <3>1 DEF At
      <3> QED
        BY <3>2 DEF Running
    <2>3. Mode \in {"open", "paused"}
      BY <1>2, <1>6, ModeCases
    <2>4. Mode' = "stopped"
      BY <1>1, <1>6 DEF Mode, Stopping
    <2> QED
      BY <1>1, <2>1, <2>2, <2>3, <2>4 DEF Abstract!Collapse
  <1> QED
    BY <1>5, <1>6

LEMMA AddRefines ==
    ASSUME IndInv, NEW c \in Commands, AddCommand(c), Running' = Running, Live' = Live
    PROVE  Abstract!Submit(c)
  <1>1. /\ c \notin queued \cup Running \cup done /\ queued' = queued \cup {c}
        /\ UNCHANGED <<flag, done, call, before, restopped>>
    BY DEF AddCommand, Submitted, controllerVars
  <1>2. Mode' = Mode
    BY <1>1, ModeSame
  <1> QED
    BY <1>1, <1>2 DEF Abstract!Submit

\* Suspend, until its tokens are pushed, undoes the pause of the Suspend before;
\* its return pauses the pool, and Resume ends the pause.
LEMMA PauseRefines ==
    ASSUME IndInv, Running' = Running, Live' = Live,
           Suspend \/ SuspendReturn \/ Resume \/ ResumeReturn
    PROVE  Abstract!Pause \/ Abstract!Unpause \/ UNCHANGED Abstract!vars
  <1>1. UNCHANGED <<queued, done, before, restopped>>
    BY DEF Suspend, SuspendReturn, Resume, ResumeReturn, queueVars
  <1>2. ~Stopping /\ ~Stopping'
    BY DEF Stopping, Suspend, SuspendReturn, Resume, ResumeReturn
  <1>3. Mode \in {"stopped", "paused", "open"}
    BY <1>2, ModeCases
  <1>4. \/ Mode' = Mode
        \/ Mode = "open" /\ Mode' = "paused"
        \/ Mode = "paused" /\ Mode' = "open"
    BY <1>2 DEF Mode, Stopping
  <1> QED
    BY <1>1, <1>4, Stutter DEF Abstract!Pause, Abstract!Unpause

LEMMA BeginStopRefines ==
    ASSUME RefineInv, NEW n, BeginStop(n), Running' = Running
    PROVE  Abstract!BeginStop
  <1> USE DEF RefineInv, IndInv
  <1>1. /\ call = "idle" /\ call' = "stopResume" /\ before' = queued \cup Running
        /\ UNCHANGED <<queued, done>>
    BY DEF BeginStop, queueVars
  <1>2. restopped' = (restopped \/ At("exited") # {})
    BY DEF BeginStop
  <1>3. ~Stopping /\ Mode # "stopping" /\ Mode' = "stopping"
    BY <1>1 DEF Mode, Stopping
  <1>4. Live = {} => At("exited") # {}
    BY DEF Consistent, Live, Busy, Held, At, TypeOK, WorkerState
  <1>5. Mode = "stopped" <=> Live = {}
    BY <1>3, ModeCases
  <1>6. restopped' = (restopped \/ Mode = "stopped")
    <2>1. (restopped \/ At("exited") # {}) <=> (restopped \/ Mode = "stopped")
      BY <1>3, <1>4, <1>5 DEF StoppedInv
    <2> QED
      BY <1>2, <2>1
  <1>7. Owed' = {c \in queued \cup Running : Priority[c] >= Med}
    <2>1. \A c \in queued \cup Running : Priority[c] > Low <=> Priority[c] >= Med
      <3>1. queued \cup Running \subseteq Commands
        BY DEF TypeOK, Running, Consistent, At
      <3> QED
        BY <3>1, PriorityAssumption DEF Low, Med, High, Admin
    <2> QED
      BY <1>1, <2>1 DEF Owed
  <1> QED
    BY <1>1, <1>3, <1>6, <1>7 DEF Abstract!BeginStop, Owed

LEMMA EndStopRefines ==
    ASSUME IndInv, Running' = Running, StopReturn \/ InitThreads
    PROVE  Abstract!EndStop
  <1> USE DEF IndInv
  <1>1. /\ call = "join" /\ call' = "idle" /\ Joined
        /\ UNCHANGED <<queued, done, flag, before, restopped>>
    BY DEF StopReturn, InitThreads, queueVars
  <1>2. Live = {} /\ Running = {}
    BY <1>1, JoinedLive
  <1>3. Mode = "stopping"
    BY <1>1 DEF Mode
  <1>4. restopped \/ Owed \subseteq done
    BY <1>1, DrainedAtReturn DEF StopDrains, Owed
  <1>5. ~flag
    BY <1>1 DEF Consistent, Stopping
  <1>6. Mode' \in {"stopped", "open"}
    BY <1>1, <1>5 DEF Mode, Suspended
  <1> QED
    BY <1>1, <1>2, <1>3, <1>4, <1>6 DEF Abstract!EndStop, Owed

\* The steps TaskPool does not see.
Silent ==
    \/ \E w \in Workers : \/ PopWait(w) \/ PopSuspend(w) \/ TestFlag(w) \/ Park(w)
                          \/ SpuriousPop(w) \/ SpuriousUnpark(w)
    \/ SuspendPush \/ StopNotify \/ StopPush \/ StopPushed

LEMMA SilentRefines ==
    ASSUME IndInv, Silent, Running' = Running, Live' = Live PROVE UNCHANGED Abstract!vars
  <1>1. UNCHANGED <<queued, done, flag, before, restopped>>
    BY DEF Silent, PopWait, PopSuspend, TestFlag, Park, SpuriousPop, SpuriousUnpark,
       SuspendPush, StopNotify, StopPush, StopPushed, queueVars, controllerVars
  <1>2. Mode' = Mode
    BY DEF Mode, Suspended, Silent, PopWait, PopSuspend, TestFlag, Park, SpuriousPop,
       SpuriousUnpark, SuspendPush, StopNotify, StopPush, StopPushed, controllerVars
  <1> QED
    BY <1>1, <1>2, Stutter

LEMMA NextRefines ==
    ASSUME RefineInv, [Next]_vars PROVE [Abstract!Next]_(Abstract!vars)
  <1>a. IndInv /\ TypeOK /\ Consistent
    BY DEF RefineInv, IndInv
  <1>1. ASSUME NEW w \in Workers, NEW c \in Commands, PopCommand(w, c) PROVE Abstract!Next
    BY <1>a, <1>1, PopRefines DEF Abstract!Next
  <1>2. ASSUME NEW w \in Workers, Finish(w) PROVE Abstract!Next
    BY <1>a, <1>2, FinishRefines DEF Abstract!Next
  <1>3. ASSUME ~(\E w \in Workers, c \in Commands : PopCommand(w, c)),
               ~(\E w \in Workers : Finish(w))
        PROVE  [Abstract!Next]_(Abstract!vars)
    <2>1. Running' = Running
      BY <1>a, <1>3, RunningSame
    <2>2. ASSUME NEW w \in Workers, PopStop(w) PROVE [Abstract!Next]_(Abstract!vars)
      BY <1>a, <2>1, <2>2, PopStopRefines DEF Abstract!Next
    <2>3. CASE StopReturn \/ InitThreads
      BY <1>a, <2>1, <2>3, EndStopRefines DEF Abstract!Next
    <2>4. ASSUME NEW n, BeginStop(n) PROVE Abstract!Next
      BY <2>1, <2>4, BeginStopRefines DEF Abstract!Next
    <2>5. ASSUME ~(\E w \in Workers : PopStop(w)), ~InitThreads
          PROVE  Live' = Live
      BY <1>a, <2>5, LiveStep
    <2>6. ASSUME Live' = Live, NEW c \in Commands, AddCommand(c) PROVE Abstract!Next
      BY <1>a, <2>1, <2>6, AddRefines DEF Abstract!Next
    <2>7. ASSUME Live' = Live, Suspend \/ SuspendReturn \/ Resume \/ ResumeReturn
          PROVE  [Abstract!Next]_(Abstract!vars)
      BY <1>a, <2>1, <2>7, PauseRefines DEF Abstract!Next
    <2>8. ASSUME Live' = Live, Silent PROVE UNCHANGED Abstract!vars
      BY <1>a, <2>1, <2>8, SilentRefines
    <2>9. CASE UNCHANGED vars
      <3>1. UNCHANGED <<queued, done, before, restopped, flag, call>> /\ Live' = Live
        BY <2>9 DEF vars, Live, Busy, Held, At
      <3> QED
        BY <2>1, <3>1, ModeSame, Stutter
    <2>10. \/ \E w \in Workers : PopStop(w)
           \/ StopReturn \/ InitThreads
           \/ \E n \in 0 .. Cardinality(Workers) : BeginStop(n)
           \/ \E c \in Commands : AddCommand(c)
           \/ Suspend \/ SuspendReturn \/ Resume \/ ResumeReturn
           \/ Silent
           \/ UNCHANGED vars
      <3>1. Cardinality(Workers) \in Nat
        BY FiniteWorkers
      <3> QED
        BY <1>3, <3>1 DEF Next, Worker, Controller, Stop, SetSize, Silent
    <2> QED
      BY <2>2, <2>3, <2>4, <2>5, <2>6, <2>7, <2>8, <2>9, <2>10
  <1> QED
    BY <1>1, <1>2, <1>3

LEMMA InitRefines == Init => Abstract!Init
  <1> SUFFICES ASSUME Init PROVE Abstract!Init
    OBVIOUS
  <1>1. queued = {} /\ done = {} /\ Running = {} /\ restopped = FALSE
    BY DEF Init, Running, At
  <1>2. {c \in before : Priority[c] > Low} = {}
    BY DEF Init
  <1>3. Mode = "open"
    <2>1. Live # {}
      BY DEF Init, Live, Busy, At
    <2> QED
      BY <2>1 DEF Init, Mode, Suspended
  <1> QED
    BY <1>1, <1>2, <1>3 DEF Abstract!Init

\* The pool implements TaskPool, for any number of workers and commands: what the
\* workers, the tokens and the calls of Suspend, Resume, Stop and SetSize do, in any
\* interleaving, is a sequence of the steps TaskPool promises.
THEOREM PoolRefinesTaskPool == Spec => ImplementsTaskPool
  <1>1. RefineInv /\ [Next]_vars => [Abstract!Next]_(Abstract!vars)
    BY NextRefines
  <1> QED
    BY <1>1, InitRefines, RefineInvariant, PTL DEF Spec, ImplementsTaskPool, Abstract!Spec
=============================================================================
