---------------------------- MODULE NBDServerProofs -------------------------
(***************************************************************************)
(* Theorems about NBDServer, for any requests, workers, depth of the queue *)
(* and number of writes a READ's data takes.                               *)
(*                                                                         *)
(* Nothing ties the parts of a reply together but the order in which one   *)
(* worker writes them. So the argument follows the stream: what is in it   *)
(* has been written, in the order of each reply, by a worker that has gone *)
(* on or finished; and as long as replies cannot overlap, the stream is    *)
(* what the kernel will expect, part after part, and the one reply under   *)
(* way goes on where the stream ends.                                      *)
(***************************************************************************)
EXTENDS NBDServer, FiniteSetTheorems, TLAPS

-----------------------------------------------------------------------------
(* The inductive invariant.                                                *)

IsHead(u) == u[2] \in {Ok, Eio}

\* A request the server has and whose reply is not yet written.
Active == {"half", "sent", "queued", "executing", "writing"}

\* Types, part by part, and the sets that are counted.
ConfType == workers \in Workers /\ depth \in Depths
WaitType == waiting \subseteq Requests /\ IsFiniteSet(waiting) /\ Cardinality(waiting) <= depth
SeqType  == inbox \in Seq(Requests \X {"head", "payload"}) /\ stream \in Seq(Requests \X Parts)
FlagType == torn \in BOOLEAN /\ watched \in BOOLEAN
EndType  == /\ expect = Header \/ expect \in Requests \X (1 .. Chunks)
            /\ kernel \in {"up", "down"} /\ server \in {"running", "dead"}
ReadType == /\ reading \subseteq {r \in Requests : Kind[r] = "write"}
            /\ reading = {} \/ \E r \in Requests : reading = {r}
PartType == phase \in [Requests -> Phases] /\ part \in [Requests -> Parts]
WorkType == IsFiniteSet(WithWorker) /\ Cardinality(WithWorker) <= workers

\* A socket that is shut down has nothing in it, and only READs have data.
PlaceInv ==
    /\ kernel = "down" => stream = <<>> /\ expect = Header
    /\ \A r \in Requests : phase[r] = "writing" => Kind[r] # "disc"
    /\ \A r \in Requests : phase[r] = "writing" /\ part[r] \notin {Ok, Eio} => Kind[r] = "read"

BaseInv == /\ ConfType /\ WaitType /\ SeqType /\ FlagType /\ EndType /\ ReadType /\ PartType
           /\ WorkType /\ PlaceInv

\* A header is read once, and then its request is not yet with the workers.
InboxInv ==
    /\ \A i \in 1 .. Len(inbox) : inbox[i][2] = "head" =>
         phase[inbox[i][1]] \in {"half", "sent"} /\ inbox[i][1] \notin reading
    /\ \A i, j \in 1 .. Len(inbox) :
         inbox[i][2] = "head" /\ inbox[j][2] = "head" /\ inbox[i][1] = inbox[j][1] => i = j
    /\ \A r \in reading : phase[r] \in {"half", "sent"}

\* The part that follows a part of a reply; Header after the last one.
Succ(u) == IF Kind[u[1]] # "read" \/ u[2] \in {Chunks, Eio} THEN Header
           ELSE <<u[1], IF u[2] = Ok THEN 1 ELSE u[2] + 1>>

\* The worker of r has written the parts before k of its reply.
Past(r, k) == phase[r] = "finished" \/ (phase[r] = "writing" /\ part[r] \in k .. Chunks)

\* A part in the stream has been written, and only READs have data.
Written(u) ==
    /\ Succ(u) = Header => phase[u[1]] = "finished"
    /\ Succ(u) # Header => Past(u[1], Succ(u)[2])
    /\ ~IsHead(u) => Kind[u[1]] = "read"

\* And the header of the data the kernel expects has been written, too.
WrittenInv ==
    /\ \A i \in 1 .. Len(stream) : Written(stream[i])
    /\ expect # Header => Kind[expect[1]] = "read" /\ Past(expect[1], 1)

\* As long as the kernel has been able to parse the stream, it waits for what
\* is unanswered, and each answer is there once.
AllWaited ==
    kernel = "up" => \A r \in Requests : phase[r] \in Active /\ Kind[r] # "disc" => r \in waiting

HeadsWaited ==
    \A i \in 1 .. Len(stream) : IsHead(stream[i]) =>
        stream[i][1] \in waiting /\ (expect # Header => expect[1] # stream[i][1])

HeadsOnce ==
    \A i, j \in 1 .. Len(stream) :
        IsHead(stream[i]) /\ IsHead(stream[j]) /\ stream[i][1] = stream[j][1] => i = j

AnswerInv == ~torn => AllWaited /\ HeadsWaited /\ HeadsOnce

\* What the kernel expects after the first i parts in the stream.
After(i) == IF i = 0 THEN expect ELSE Succ(stream[i])

Accepts(e, u) == IF e = Header THEN IsHead(u) ELSE u = e

\* The worker of r has written the header of its reply, and not all its data.
MidReply(r) == phase[r] = "writing" /\ part[r] \in 1 .. Chunks

\* The kernel gets what it expects, and the one reply under way goes on where
\* the stream ends.
InOrder ==
    /\ \A i \in 1 .. Len(stream) : Accepts(After(i - 1), stream[i])
    /\ \A r \in Requests : MidReply(r) => After(Len(stream)) = <<r, part[r]>>
    /\ After(Len(stream)) # Header =>
         \E r \in Requests : MidReply(r) /\ After(Len(stream)) = <<r, part[r]>>

\* With one worker or one request in flight.
SerialInv == workers = 1 \/ depth = 1 => ~torn /\ (kernel = "up" => InOrder)

\* It takes a READ to confuse the kernel.
TornInv == torn => \E r \in Requests : Kind[r] = "read" /\ phase[r] # "unsent"

NBDInv == BaseInv /\ InboxInv /\ WrittenInv /\ AnswerInv /\ SerialInv /\ TornInv

-----------------------------------------------------------------------------
(* Sequences, and the sizes of sets.                                       *)

LEMMA AppendFacts ==
    ASSUME NEW S, NEW s \in Seq(S), NEW u \in S
    PROVE  /\ Append(s, u) \in Seq(S) /\ Len(s) \in Nat /\ Len(Append(s, u)) = Len(s) + 1
           /\ \A i \in 1 .. Len(s) : Append(s, u)[i] = s[i]
           /\ Append(s, u)[Len(s) + 1] = u
  OBVIOUS

LEMMA TailFacts ==
    ASSUME NEW S, NEW s \in Seq(S), s # <<>>
    PROVE  /\ Head(s) \in S /\ Head(s) = s[1] /\ Len(s) \in Nat \ {0}
           /\ Tail(s) \in Seq(S) /\ Len(Tail(s)) = Len(s) - 1
           /\ \A i \in 1 .. Len(s) - 1 : Tail(s)[i] = s[i + 1]
  OBVIOUS

LEMMA ConfNat == ConfType => workers \in Nat \ {0} /\ depth \in Nat \ {0}
  BY SizesAssumption DEF ConfType

LEMMA ChunksNat == Chunks \in Nat \ {0} /\ Ok \in Parts /\ Eio \in Parts /\ Ok # Eio
  BY SizesAssumption DEF Parts, Ok, Eio

\* Sets that do not grow keep their bounds.
LEMMA FewerWorkers ==
    ASSUME ConfType, WorkType, UNCHANGED workers, WithWorker' \subseteq WithWorker
    PROVE  WorkType'
  <1>1. IsFiniteSet(WithWorker') /\ Cardinality(WithWorker') <= Cardinality(WithWorker)
    BY FS_Subset DEF WorkType
  <1>2. Cardinality(WithWorker') \in Nat /\ Cardinality(WithWorker) \in Nat /\ workers \in Nat
    BY <1>1, FS_CardinalityType, ConfNat DEF WorkType
  <1> QED
    BY <1>1, <1>2 DEF WorkType

LEMMA FewerWaiting ==
    ASSUME ConfType, WaitType, UNCHANGED depth, waiting' \subseteq waiting
    PROVE  WaitType'
  <1>1. IsFiniteSet(waiting') /\ Cardinality(waiting') <= Cardinality(waiting)
    BY FS_Subset DEF WaitType
  <1>2. Cardinality(waiting') \in Nat /\ Cardinality(waiting) \in Nat /\ depth \in Nat
    BY <1>1, FS_CardinalityType, ConfNat DEF WaitType
  <1> QED
    BY <1>1, <1>2 DEF WaitType

\* One more request than less than the limit.
LEMMA OneMore ==
    ASSUME NEW S, IsFiniteSet(S), NEW x, NEW n \in Nat, Cardinality(S) < n
    PROVE  IsFiniteSet(S \cup {x}) /\ Cardinality(S \cup {x}) <= n
  <1>1. Cardinality(S) \in Nat
    BY FS_CardinalityType
  <1>2. /\ IsFiniteSet(S \cup {x})
        /\ Cardinality(S \cup {x}) \in {Cardinality(S), Cardinality(S) + 1}
    BY FS_AddElement
  <1> QED
    BY <1>1, <1>2

\* Two members are more than one.
LEMMA TwoMembers ==
    ASSUME NEW S, IsFiniteSet(S), NEW x \in S, NEW y \in S, x # y
    PROVE  ~(Cardinality(S) <= 1)
  <1>1. Cardinality({x}) = 1 /\ IsFiniteSet({x})
    BY FS_Singleton
  <1>2. Cardinality({x} \cup {y}) = 2 /\ IsFiniteSet({x} \cup {y})
    BY <1>1, FS_AddElement
  <1>3. {x} \cup {y} \subseteq S
    OBVIOUS
  <1>4. Cardinality({x} \cup {y}) <= Cardinality(S)
    BY <1>3, FS_Subset
  <1>5. Cardinality(S) \in Nat
    BY FS_CardinalityType
  <1> QED
    BY <1>2, <1>4, <1>5

\* A request that is not with a worker before or after does not count.
LEMMA SameWorkers ==
    ASSUME PartType, NEW r \in Requests, NEW x,
           phase' = [phase EXCEPT ![r] = x],
           x \in {"executing", "writing"} => phase[r] \in {"executing", "writing"}
    PROVE  WithWorker' \subseteq WithWorker
  BY DEF PartType, WithWorker

-----------------------------------------------------------------------------
(* Types.                                                                  *)

LEMMA BaseType == BaseInv => TypeOK
  <1> SUFFICES ASSUME BaseInv PROVE TypeOK
    OBVIOUS
  <1>1. Cardinality(reading) <= 1
    <2>1. CASE reading = {}
      BY <2>1, FS_EmptySet
    <2>2. CASE \E r \in Requests : reading = {r}
      BY <2>2, FS_Singleton
    <2> QED
      BY <2>1, <2>2 DEF BaseInv, ReadType
  <1>2. /\ \A i \in DOMAIN inbox : inbox[i] \in Requests \X {"head", "payload"}
        /\ \A i \in DOMAIN stream : stream[i] \in Requests \X Parts
    BY DEF BaseInv, SeqType
  <1> QED
    BY <1>1, <1>2 DEF BaseInv, ConfType, WaitType, FlagType, EndType, ReadType, PartType, WorkType,
                      TypeOK

LEMMA InitBase == Init => BaseInv
  <1> SUFFICES ASSUME Init PROVE BaseInv
    OBVIOUS
  <1>1. ConfType
    BY DEF Init, ConfType
  <1>2. WaitType
    <2>1. waiting = {} /\ depth \in Nat
      BY <1>1, ConfNat DEF Init
    <2> QED
      BY <2>1, FS_EmptySet DEF WaitType
  <1>3. WorkType
    <2>1. WithWorker = {} /\ workers \in Nat
      BY <1>1, ConfNat DEF Init, WithWorker
    <2> QED
      BY <2>1, FS_EmptySet DEF WorkType
  <1>4. FlagType
    BY Zenon DEF Init, FlagType
  <1>5. SeqType /\ EndType /\ ReadType
    BY DEF Init, SeqType, EndType, ReadType
  <1>6. PartType
    BY ChunksNat DEF Init, PartType, Phases
  <1>7. PlaceInv
    BY DEF Init, PlaceInv
  <1> QED
    BY <1>1, <1>2, <1>3, <1>4, <1>5, <1>6, <1>7 DEF BaseInv

\* What is in the inbox and the stream.
LEMMA InboxHead ==
    ASSUME SeqType, inbox # <<>>
    PROVE  /\ Head(inbox)[1] \in Requests /\ Head(inbox)[2] \in {"head", "payload"}
           /\ Head(inbox) = <<Head(inbox)[1], Head(inbox)[2]>>
  <1>1. Head(inbox) \in Requests \X {"head", "payload"}
    BY TailFacts DEF SeqType
  <1> QED
    BY <1>1

LEMMA StreamHead ==
    ASSUME SeqType, stream # <<>>
    PROVE  /\ Head(stream)[1] \in Requests /\ Head(stream)[2] \in Parts
           /\ Head(stream) = <<Head(stream)[1], Head(stream)[2]>>
  <1>1. Head(stream) \in Requests \X Parts
    BY TailFacts DEF SeqType
  <1> QED
    BY <1>1

LEMMA ExpectData ==
    ASSUME EndType, expect # Header
    PROVE  /\ expect[1] \in Requests /\ expect[2] \in 1 .. Chunks
           /\ expect = <<expect[1], expect[2]>>
  <1>1. expect \in Requests \X (1 .. Chunks)
    BY DEF EndType
  <1> QED
    BY <1>1

\* The parts a step leaves alone.
LEMMA KeptConf == ASSUME ConfType, UNCHANGED conf PROVE ConfType'
  BY DEF ConfType, conf

LEMMA KeptFlags == ASSUME FlagType, UNCHANGED <<torn, watched>> PROVE FlagType'
  BY DEF FlagType

LEMMA KeptWork == ASSUME WorkType, UNCHANGED <<workers, phase>> PROVE WorkType'
  BY DEF WorkType, WithWorker

LEMMA KeptPlace ==
    ASSUME PlaceInv, PartType, UNCHANGED <<kernel, stream, expect, part>>,
           NEW r \in Requests, NEW x \in Phases \ {"writing"}, phase' = [phase EXCEPT ![r] = x]
    PROVE  PlaceInv'
  BY DEF PlaceInv, PartType

LEMMA SendHeadBase ==
    ASSUME BaseInv, NEW r \in Requests, SendHead(r) PROVE BaseInv'
  <1> USE DEF BaseInv
  <1> DEFINE x == IF Kind[r] = "write" THEN "half" ELSE "sent"
  <1>1. /\ UNCHANGED <<conf, stream, expect, torn, kernel, part, reading, watched, server>>
        /\ phase' = [phase EXCEPT ![r] = x]
        /\ inbox' = Append(inbox, <<r, "head">>)
    BY DEF SendHead
  <1>2. x \in Phases \ {"writing", "executing"}
    BY DEF Phases
  <1> HIDE DEF x
  <1>3. WaitType'
    <2>1. waiting' = waiting \/ waiting' = waiting \cup {r}
      BY DEF SendHead
    <2>2. Cardinality(waiting) < depth /\ depth' = depth /\ depth \in Nat
      BY ConfNat DEF SendHead, conf
    <2>3. IsFiniteSet(waiting \cup {r}) /\ Cardinality(waiting \cup {r}) <= depth
      BY <2>2, OneMore DEF WaitType
    <2> QED
      BY <2>1, <2>2, <2>3 DEF WaitType
  <1>4. SeqType'
    BY <1>1, AppendFacts DEF SeqType
  <1>5. PartType'
    BY <1>1, <1>2 DEF PartType
  <1>6. WorkType'
    BY <1>1, <1>2, SameWorkers, FewerWorkers DEF conf
  <1>7. PlaceInv'
    BY <1>1, <1>2, KeptPlace
  <1>8. FlagType' /\ ConfType'
    BY <1>1, KeptConf, KeptFlags
  <1> QED
    BY <1>1, <1>3, <1>4, <1>5, <1>6, <1>7, <1>8 DEF EndType, ReadType

LEMMA SendPayloadBase ==
    ASSUME BaseInv, NEW r \in Requests, SendPayload(r) PROVE BaseInv'
  <1> USE DEF BaseInv
  <1>1. /\ UNCHANGED <<conf, waiting, expect, torn, kernel>>
        /\ UNCHANGED <<stream, part, reading, watched, server>>
        /\ phase' = [phase EXCEPT ![r] = "sent"] /\ phase[r] = "half"
        /\ inbox' = Append(inbox, <<r, "payload">>)
    BY DEF SendPayload, kernelVars
  <1>2. SeqType'
    BY <1>1, AppendFacts DEF SeqType
  <1>3. PartType'
    BY <1>1 DEF PartType, Phases
  <1>4. WorkType'
    BY <1>1, SameWorkers, FewerWorkers DEF conf
  <1>5. PlaceInv'
    BY <1>1, KeptPlace DEF Phases
  <1>6. FlagType' /\ ConfType'
    BY <1>1, KeptConf, KeptFlags
  <1> QED
    BY <1>1, <1>2, <1>3, <1>4, <1>5, <1>6 DEF EndType, ReadType, WaitType, conf

LEMMA ShutDownBase ==
    ASSUME BaseInv, ShutDown, torn' \in BOOLEAN,
           UNCHANGED <<conf, inbox, phase, part, reading, watched, server>>
    PROVE  BaseInv'
  <1> USE DEF BaseInv
  <1>1. kernel' = "down" /\ waiting' = {} /\ stream' = <<>> /\ expect' = Header
    BY DEF ShutDown
  <1>2. SeqType' /\ EndType' /\ ReadType' /\ PartType' /\ PlaceInv'
    BY <1>1 DEF SeqType, EndType, ReadType, PartType, PlaceInv
  <1>3. WaitType'
    BY <1>1, FewerWaiting DEF conf
  <1>4. FlagType'
    BY Zenon DEF FlagType
  <1>5. ConfType' /\ WorkType'
    BY KeptConf, KeptWork DEF conf
  <1> QED
    BY <1>2, <1>3, <1>4, <1>5

\* The two ways in which the kernel reads a part, by what it expects.
ReadData     == expect # Header /\ Data(expect[1], expect[2])
ReadHeader   == expect = Header /\ Reply(Head(stream)[1], Head(stream)[2])
ReadNonsense == expect = Header /\ Nonsense(Head(stream)[1], Head(stream)[2])

LEMMA ReadCases ==
    ASSUME ReadReply
    PROVE  /\ stream # <<>> /\ kernel = "up" /\ server = "running"
           /\ UNCHANGED <<conf, inbox, phase, part, reading, watched, server>>
           /\ ReadData \/ ReadHeader \/ ReadNonsense
  BY DEF ReadReply, Connected, ReadData, ReadHeader, ReadNonsense

LEMMA ReadBase ==
    ASSUME BaseInv, ReadReply PROVE BaseInv'
  <1> USE DEF BaseInv
  <1>1. /\ stream # <<>> /\ kernel = "up" /\ server = "running"
        /\ UNCHANGED <<conf, inbox, phase, part, reading, watched, server>>
    BY ReadCases
  <1>2. CASE ReadNonsense
    <2>1. ShutDown /\ torn' \in BOOLEAN
      BY <1>2, Zenon DEF ReadNonsense, Nonsense
    <2> QED
      BY <1>1, <2>1, ShutDownBase
  <1>3. CASE ReadData \/ ReadHeader
    <2>1. stream' = Tail(stream) /\ waiting' \subseteq waiting /\ UNCHANGED kernel
      BY <1>3 DEF ReadData, ReadHeader, Data, Reply
    <2>2. torn' \in BOOLEAN
      BY <1>3, Zenon DEF ReadData, ReadHeader, Data, Reply, FlagType
    <2>3. expect' = Header \/ expect' \in Requests \X (1 .. Chunks)
      <3>1. CASE ReadData
        <4>1. /\ expect[1] \in Requests /\ expect[2] \in 1 .. Chunks
              /\ expect' = IF expect[2] = Chunks THEN Header ELSE <<expect[1], expect[2] + 1>>
          BY <3>1, ExpectData DEF ReadData, Data
        <4> QED
          BY <4>1, ChunksNat
      <3>2. CASE ReadHeader
        <4>1. expect' = Header \/ expect' = <<Head(stream)[1], 1>>
          BY <3>2 DEF ReadHeader, Reply
        <4>2. Head(stream)[1] \in Requests
          BY <1>1, StreamHead
        <4> QED
          BY <4>1, <4>2, ChunksNat
      <3> QED
        BY <1>3, <3>1, <3>2
    <2>4. SeqType'
      BY <1>1, <2>1, TailFacts DEF SeqType
    <2>5. WaitType'
      BY <1>1, <2>1, FewerWaiting DEF conf
    <2>6. FlagType'
      BY <1>1, <2>2, Zenon DEF FlagType
    <2>7. ConfType' /\ WorkType'
      BY <1>1, KeptConf, KeptWork DEF conf
    <2> QED
      BY <1>1, <2>1, <2>3, <2>4, <2>5, <2>6, <2>7 DEF EndType, ReadType, PartType, PlaceInv
  <1> QED
    BY <1>2, <1>3, ReadCases

LEMMA ReactorBase ==
    ASSUME BaseInv, Reactor PROVE BaseInv'
  <1> USE DEF BaseInv
  <1>1. ASSUME NEW r \in Requests, ReceiveHead(r) \/ ReceivePayload(r) PROVE BaseInv'
    <2>1. /\ UNCHANGED <<conf, waiting, expect, torn, kernel>>
          /\ UNCHANGED <<stream, part, watched, server>>
          /\ inbox # <<>> /\ inbox' = Tail(inbox)
      BY <1>1 DEF ReceiveHead, ReceivePayload, kernelVars
    <2>2. ReadType'
      BY <1>1 DEF ReceiveHead, ReceivePayload, ReadType
    <2>3. SeqType'
      BY <2>1, TailFacts DEF SeqType
    <2>4. UNCHANGED phase \/ phase' = [phase EXCEPT ![r] = "queued"]
      BY <1>1 DEF ReceiveHead, ReceivePayload
    <2>5. PartType'
      BY <2>1, <2>4 DEF PartType, Phases
    <2>6. WorkType'
      BY <2>1, <2>4, SameWorkers, FewerWorkers DEF WithWorker, conf
    <2>7. PlaceInv'
      <3>1. CASE UNCHANGED phase
        BY <2>1, <3>1 DEF PlaceInv
      <3>2. CASE phase' = [phase EXCEPT ![r] = "queued"]
        BY <2>1, <3>2, KeptPlace DEF Phases
      <3> QED
        BY <2>4, <3>1, <3>2
    <2>8. FlagType' /\ ConfType'
      BY <2>1, KeptConf, KeptFlags
    <2> QED
      BY <2>1, <2>2, <2>3, <2>5, <2>6, <2>7, <2>8 DEF EndType, WaitType, conf
  <1>2. CASE EndOfStream
    <2>1. /\ UNCHANGED <<conf, waiting, expect, torn, kernel>>
          /\ UNCHANGED <<inbox, stream, phase, part, server>> /\ reading' = {}
      BY <1>2 DEF EndOfStream, kernelVars
    <2>2. FlagType'
      BY <1>2, Zenon DEF FlagType, EndOfStream, CleanUp, kernelVars
    <2>3. ConfType' /\ WorkType'
      BY <2>1, KeptConf, KeptWork DEF conf
    <2> QED
      BY <2>1, <2>2, <2>3 DEF EndType, WaitType, conf, SeqType, ReadType, PartType, PlaceInv
  <1>3. CASE BadRequest
    <2> DEFINE r == Head(inbox)[1]
               x == IF Head(inbox)[2] = "head" THEN "refused" ELSE phase[r]
    <2>1. /\ UNCHANGED <<conf, waiting, expect, torn, kernel>>
          /\ UNCHANGED <<stream, part, reading, server>>
          /\ inbox # <<>> /\ inbox' = Tail(inbox)
          /\ phase' = [phase EXCEPT ![r] = x]
      BY <1>3 DEF BadRequest, kernelVars
    <2>2. r \in Requests
      BY <2>1, InboxHead
    <2>3. x \in Phases /\ (x \in {"executing", "writing"} => x = phase[r])
      BY <2>2 DEF PartType, Phases
    <2> HIDE DEF r, x
    <2>4. SeqType'
      BY <2>1, TailFacts DEF SeqType
    <2>5. PartType'
      BY <2>1, <2>2, <2>3 DEF PartType
    <2>6. WorkType'
      BY <2>1, <2>2, <2>3, SameWorkers, FewerWorkers DEF conf
    <2>7. PlaceInv'
      BY <2>1, <2>2, <2>3 DEF PlaceInv, PartType
    <2>8. FlagType'
      BY <1>3, Zenon DEF FlagType, BadRequest, CleanUp, kernelVars
    <2>9. ConfType'
      BY <2>1, KeptConf
    <2> QED
      BY <2>1, <2>4, <2>5, <2>6, <2>7, <2>8, <2>9 DEF EndType, WaitType, conf, ReadType
  <1> QED
    BY <1>1, <1>2, <1>3 DEF Reactor

LEMMA WorkerBase ==
    ASSUME BaseInv, NEW r \in Requests, WorkerStep(r) PROVE BaseInv'
  <1> USE DEF BaseInv
  <1>1. /\ UNCHANGED <<conf, waiting, expect, torn, kernel>> /\ UNCHANGED <<inbox, reading, watched>>
    BY DEF WorkerStep, StartCommand, Handle, WriteAll, WriteKills, kernelVars
  <1>2. FlagType' /\ ConfType'
    BY <1>1, KeptConf, KeptFlags
  <1>3. WaitType' /\ ReadType'
    BY <1>1 DEF WaitType, ReadType, conf
  <1>4. CASE StartCommand(r)
    <2>1. /\ UNCHANGED <<stream, part, server>> /\ phase' = [phase EXCEPT ![r] = "executing"]
          /\ Cardinality(WithWorker) < workers /\ workers' = workers /\ workers \in Nat
      BY <1>1, <1>4, ConfNat DEF StartCommand, conf
    <2>2. WithWorker' = WithWorker \cup {r}
      BY <2>1 DEF WithWorker, PartType
    <2>3. WorkType'
      BY <2>1, <2>2, OneMore DEF WorkType
    <2>4. PartType'
      BY <2>1 DEF PartType, Phases
    <2>5. PlaceInv'
      BY <1>1, <2>1, KeptPlace DEF Phases
    <2> QED
      BY <1>1, <1>2, <1>3, <2>1, <2>3, <2>4, <2>5 DEF EndType, SeqType
  <1>5. CASE Handle(r)
    <2> DEFINE x == IF Kind[r] = "disc" THEN "finished" ELSE "writing"
    <2>1. /\ UNCHANGED <<stream, server>> /\ phase' = [phase EXCEPT ![r] = x]
          /\ phase[r] = "executing"
          /\ \E p \in {Ok, Eio} : part' = [part EXCEPT ![r] = p]
      BY <1>5 DEF Handle
    <2>2. x \in Phases /\ (x = "writing" => Kind[r] # "disc")
      BY DEF Phases
    <2> HIDE DEF x
    <2>3. PICK p \in {Ok, Eio} : part' = [part EXCEPT ![r] = p]
      BY <2>1
    <2>4. PartType'
      BY <2>1, <2>2, <2>3, ChunksNat DEF PartType
    <2>5. WorkType'
      BY <1>1, <2>1, SameWorkers, FewerWorkers DEF conf
    <2>6. PlaceInv'
      BY <1>1, <2>1, <2>2, <2>3 DEF PlaceInv, PartType
    <2> QED
      BY <1>1, <1>2, <1>3, <2>1, <2>4, <2>5, <2>6 DEF EndType, SeqType
  <1>6. CASE WriteAll(r)
    <2>1. /\ UNCHANGED server /\ phase[r] = "writing" /\ kernel = "up"
          /\ stream' = Append(stream, <<r, part[r]>>)
      BY <1>6 DEF WriteAll
    <2>2. SeqType'
      BY <1>1, <2>1, AppendFacts DEF SeqType, PartType
    <2>3. CASE LastPart(r)
      <3>1. phase' = [phase EXCEPT ![r] = "finished"] /\ UNCHANGED part
        BY <1>6, <2>3 DEF WriteAll
      <3>2. PartType'
        BY <3>1 DEF PartType, Phases
      <3>3. WorkType'
        BY <1>1, <3>1, SameWorkers, FewerWorkers DEF conf
      <3>4. PlaceInv'
        BY <1>1, <2>1, <3>1 DEF PlaceInv, PartType
      <3> QED
        BY <1>1, <1>2, <1>3, <2>1, <2>2, <3>2, <3>3, <3>4 DEF EndType
    <2>4. CASE ~LastPart(r)
      <3> DEFINE p == IF part[r] = Ok THEN 1 ELSE part[r] + 1
      <3>1. part' = [part EXCEPT ![r] = p] /\ UNCHANGED phase
        BY <1>6, <2>4 DEF WriteAll
      <3>2. p \in Parts /\ Kind[r] = "read"
        BY <2>4, ChunksNat DEF LastPart, PartType, Parts, Ok, Eio
      <3> HIDE DEF p
      <3>3. PartType'
        BY <3>1, <3>2 DEF PartType
      <3>4. PlaceInv'
        BY <1>1, <2>1, <3>1, <3>2 DEF PlaceInv, PartType
      <3>5. WorkType'
        BY <1>1, <3>1, KeptWork DEF conf
      <3> QED
        BY <1>1, <1>2, <1>3, <2>1, <2>2, <3>3, <3>4, <3>5 DEF EndType
    <2> QED
      BY <2>3, <2>4
  <1>7. CASE WriteKills(r)
    <2>1. UNCHANGED <<stream, phase, part>> /\ server' = "dead"
      BY <1>7 DEF WriteKills
    <2>2. WorkType'
      BY <1>1, <2>1, KeptWork DEF conf
    <2> QED
      BY <1>1, <1>2, <1>3, <2>1, <2>2 DEF EndType, SeqType, PartType, PlaceInv
  <1> QED
    BY <1>4, <1>5, <1>6, <1>7 DEF WorkerStep

\* The steps of the kernel, the reactor thread and the workers.
LEMMA BaseStep ==
    ASSUME BaseInv, [Next]_vars PROVE BaseInv'
  <1>1. CASE UNCHANGED vars
    BY <1>1 DEF vars, BaseInv, ConfType, WaitType, SeqType, FlagType, EndType, ReadType, PartType,
                WorkType, WithWorker, PlaceInv
  <1>2. CASE KernelDisconnects
    <2>1. /\ ShutDown /\ UNCHANGED <<conf, torn, inbox, phase, part, reading, watched, server>>
          /\ torn \in BOOLEAN
      BY <1>2 DEF KernelDisconnects, BaseInv, FlagType
    <2> QED
      BY <2>1, ShutDownBase
  <1> QED
    BY <1>1, <1>2, SendHeadBase, SendPayloadBase, WorkerBase, ReadBase, ReactorBase DEF Next

-----------------------------------------------------------------------------
(* The inbox.                                                              *)

LEMMA InboxKept ==
    ASSUME InboxInv, UNCHANGED <<inbox, phase, reading>> PROVE InboxInv'
  BY DEF InboxInv

LEMMA InboxWorker ==
    ASSUME BaseInv, InboxInv, NEW r \in Requests, WorkerStep(r) PROVE InboxInv'
  <1>1. UNCHANGED <<inbox, reading>>
    BY DEF WorkerStep, StartCommand, Handle, WriteAll, WriteKills
  <1>2. /\ phase[r] \notin {"half", "sent"}
        /\ \A q \in Requests : q # r => phase'[q] = phase[q]
    BY DEF WorkerStep, StartCommand, Handle, WriteAll, WriteKills, BaseInv, PartType
  <1>3. \A i \in 1 .. Len(inbox) : inbox[i][1] \in Requests
    BY DEF BaseInv, SeqType
  <1>4. \A q \in reading : q \in Requests
    BY DEF BaseInv, ReadType
  <1> QED
    BY <1>1, <1>2, <1>3, <1>4 DEF InboxInv

LEMMA InboxSendHead ==
    ASSUME BaseInv, InboxInv, NEW r \in Requests, SendHead(r) PROVE InboxInv'
  <1>1. /\ inbox' = Append(inbox, <<r, "head">>) /\ phase[r] = "unsent"
        /\ phase'[r] \in {"half", "sent"} /\ UNCHANGED reading
        /\ \A q \in Requests : q # r => phase'[q] = phase[q]
    BY DEF SendHead, BaseInv, PartType
  <1>2. /\ Len(inbox) \in Nat /\ Len(inbox') = Len(inbox) + 1
        /\ \A i \in 1 .. Len(inbox) : inbox'[i] = inbox[i] /\ inbox[i][1] \in Requests
        /\ inbox'[Len(inbox) + 1] = <<r, "head">>
    BY <1>1, AppendFacts DEF BaseInv, SeqType
  <1>3. r \notin reading
    BY <1>1 DEF InboxInv
  <1>4. \A i \in 1 .. Len(inbox) : inbox[i][2] = "head" => inbox[i][1] # r
    BY <1>1 DEF InboxInv
  <1>5. ASSUME NEW i \in 1 .. Len(inbox'), inbox'[i][2] = "head"
        PROVE  phase'[inbox'[i][1]] \in {"half", "sent"} /\ inbox'[i][1] \notin reading
    <2>1. i = Len(inbox) + 1 \/ i \in 1 .. Len(inbox)
      BY <1>2
    <2> QED
      BY <1>1, <1>2, <1>3, <1>4, <1>5, <2>1 DEF InboxInv
  <1>6. ASSUME NEW i \in 1 .. Len(inbox'), NEW j \in 1 .. Len(inbox'),
               inbox'[i][2] = "head", inbox'[j][2] = "head", inbox'[i][1] = inbox'[j][1]
        PROVE  i = j
    <2>1. (i = Len(inbox) + 1 \/ i \in 1 .. Len(inbox)) /\ (j = Len(inbox) + 1 \/ j \in 1 .. Len(inbox))
      BY <1>2
    <2>2. CASE i \in 1 .. Len(inbox) /\ j \in 1 .. Len(inbox)
      BY <1>2, <1>6, <2>2 DEF InboxInv
    <2>3. CASE i = Len(inbox) + 1 \/ j = Len(inbox) + 1
      BY <1>2, <1>4, <1>6, <2>1, <2>3
    <2> QED
      BY <2>1, <2>2, <2>3
  <1>7. \A q \in reading : phase'[q] \in {"half", "sent"}
    BY <1>1, <1>3 DEF InboxInv, BaseInv, ReadType
  <1> QED
    BY <1>1, <1>5, <1>6, <1>7 DEF InboxInv

LEMMA InboxSendPayload ==
    ASSUME BaseInv, InboxInv, NEW r \in Requests, SendPayload(r) PROVE InboxInv'
  <1>1. /\ inbox' = Append(inbox, <<r, "payload">>) /\ phase[r] = "half"
        /\ phase'[r] = "sent" /\ UNCHANGED reading
        /\ \A q \in Requests : q # r => phase'[q] = phase[q]
    BY DEF SendPayload, BaseInv, PartType
  <1>2. /\ Len(inbox) \in Nat /\ Len(inbox') = Len(inbox) + 1
        /\ \A i \in 1 .. Len(inbox) : inbox'[i] = inbox[i] /\ inbox[i][1] \in Requests
        /\ inbox'[Len(inbox) + 1] = <<r, "payload">>
    BY <1>1, AppendFacts DEF BaseInv, SeqType
  <1>3. ASSUME NEW i \in 1 .. Len(inbox'), inbox'[i][2] = "head"
        PROVE  i \in 1 .. Len(inbox) /\ inbox'[i] = inbox[i] /\ inbox[i][1] \in Requests
    BY <1>2, <1>3
  <1>4. \A q \in Requests : phase[q] \in {"half", "sent"} => phase'[q] \in {"half", "sent"}
    BY <1>1
  <1>5. \A q \in reading : q \in Requests
    BY DEF BaseInv, ReadType
  <1> QED
    BY <1>1, <1>3, <1>4, <1>5 DEF InboxInv

\* The first of the inbox is read, and its request goes on to phase x.
LEMMA InboxTake ==
    ASSUME BaseInv, InboxInv, inbox # <<>>, inbox' = Tail(inbox),
           NEW r \in Requests, r = Head(inbox)[1] \/ r \in reading,
           \A q \in Requests : q # r => phase'[q] = phase[q],
           Head(inbox)[2] = "head" => r = Head(inbox)[1] /\ r \notin reading,
           \/ reading' = {} /\ (Head(inbox)[2] = "head" \/ r \in reading)
           \/ reading' = {r} /\ phase'[r] = phase[r] /\ Head(inbox)[2] = "head"
           \/ reading' = reading /\ Head(inbox)[2] = "head" /\ r \notin reading
           \/ reading' = reading /\ phase'[r] = phase[r]
    PROVE  InboxInv'
  <1>1. /\ Len(inbox) \in Nat \ {0} /\ Len(inbox') = Len(inbox) - 1 /\ Head(inbox) = inbox[1]
        /\ \A i \in 1 .. Len(inbox') :
             /\ inbox'[i] = inbox[i + 1] /\ i + 1 \in 1 .. Len(inbox) /\ i + 1 # 1
             /\ inbox[i + 1][1] \in Requests
    <2>1. /\ Len(inbox) \in Nat \ {0} /\ Len(inbox') = Len(inbox) - 1 /\ Head(inbox) = inbox[1]
          /\ \A i \in 1 .. Len(inbox) - 1 : inbox'[i] = inbox[i + 1]
      BY TailFacts DEF BaseInv, SeqType
    <2>2. \A i \in 1 .. Len(inbox) : inbox[i][1] \in Requests
      BY DEF BaseInv, SeqType
    <2> QED
      BY <2>1, <2>2
  <1>2. 1 \in 1 .. Len(inbox)
    BY <1>1
  <1>3. Head(inbox)[2] = "head" \/ r \in reading =>
          \A i \in 1 .. Len(inbox') : inbox'[i][2] = "head" => inbox'[i][1] # r
    BY <1>1, <1>2 DEF InboxInv
  <1>4. \A i, j \in 1 .. Len(inbox') :
          inbox'[i][2] = "head" /\ inbox'[j][2] = "head" /\ inbox'[i][1] = inbox'[j][1] => i = j
    <2> SUFFICES ASSUME NEW i \in 1 .. Len(inbox'), NEW j \in 1 .. Len(inbox'),
                        inbox'[i][2] = "head", inbox'[j][2] = "head", inbox'[i][1] = inbox'[j][1]
                 PROVE  i = j
      OBVIOUS
    <2>1. i + 1 = j + 1
      BY <1>1 DEF InboxInv
    <2> QED
      BY <2>1
  <1>5. \A q \in reading : q \in Requests /\ phase[q] \in {"half", "sent"}
    BY DEF BaseInv, ReadType, InboxInv
  <1>6. ASSUME NEW i \in 1 .. Len(inbox'), inbox'[i][2] = "head"
        PROVE  phase'[inbox'[i][1]] \in {"half", "sent"} /\ inbox'[i][1] \notin reading'
    <2>1. /\ phase[inbox'[i][1]] \in {"half", "sent"} /\ inbox'[i][1] \notin reading
          /\ inbox'[i][1] \in Requests
      BY <1>1, <1>6 DEF InboxInv
    <2> QED
      BY <1>3, <1>6, <2>1
  <1>7. \A q \in reading' : phase'[q] \in {"half", "sent"}
    <2>1. Head(inbox)[2] = "head" => phase[r] \in {"half", "sent"}
      BY <1>1, <1>2 DEF InboxInv
    <2> QED
      BY <1>5, <2>1
  <1> QED
    BY <1>4, <1>6, <1>7 DEF InboxInv

LEMMA InboxReactor ==
    ASSUME BaseInv, InboxInv, Reactor PROVE InboxInv'
  <1>a. SeqType /\ PartType
    BY DEF BaseInv
  <1>1. ASSUME NEW r \in Requests, ReceiveHead(r) PROVE InboxInv'
    <2>1. /\ inbox # <<>> /\ inbox' = Tail(inbox) /\ reading = {}
          /\ Head(inbox)[1] = r /\ Head(inbox)[2] = "head"
          /\ \A q \in Requests : q # r => phase'[q] = phase[q]
          /\ (reading' = {r} /\ phase'[r] = phase[r]) \/ reading' = reading
      BY <1>1, <1>a DEF ReceiveHead, Dispatch, PartType
    <2> QED
      BY <2>1, InboxTake
  <1>2. ASSUME NEW r \in Requests, ReceivePayload(r) PROVE InboxInv'
    <2>1. /\ inbox # <<>> /\ inbox' = Tail(inbox) /\ r \in reading /\ reading' = {}
          /\ Head(inbox)[1] = r /\ Head(inbox)[2] = "payload"
          /\ \A q \in Requests : q # r => phase'[q] = phase[q]
      BY <1>2, <1>a DEF ReceivePayload, PartType
    <2> QED
      BY <2>1, InboxTake
  <1>3. CASE EndOfStream
    BY <1>3 DEF EndOfStream, InboxInv
  <1>4. CASE BadRequest
    <2>1. /\ inbox # <<>> /\ inbox' = Tail(inbox) /\ reading = {} /\ UNCHANGED reading
          /\ phase' = [phase EXCEPT ![Head(inbox)[1]] =
                         IF Head(inbox)[2] = "head" THEN "refused" ELSE @]
      BY <1>4 DEF BadRequest, Dispatch
    <2>2. Head(inbox)[1] \in Requests
      BY <1>a, <2>1, InboxHead
    <2>3. /\ \A q \in Requests : q # Head(inbox)[1] => phase'[q] = phase[q]
          /\ Head(inbox)[2] # "head" => phase'[Head(inbox)[1]] = phase[Head(inbox)[1]]
      BY <1>a, <2>1, <2>2 DEF PartType
    <2> QED
      BY <2>1, <2>2, <2>3, InboxTake
  <1> QED
    BY <1>1, <1>2, <1>3, <1>4 DEF Reactor

LEMMA InboxStep ==
    ASSUME BaseInv, InboxInv, [Next]_vars PROVE InboxInv'
  <1>1. CASE UNCHANGED vars \/ KernelDisconnects \/ ReadReply
    <2>1. UNCHANGED <<inbox, phase, reading>>
      BY <1>1, ReadCases DEF vars, KernelDisconnects
    <2> QED
      BY <2>1, InboxKept
  <1> QED
    BY <1>1, InboxSendHead, InboxSendPayload, InboxWorker, InboxReactor DEF Next

-----------------------------------------------------------------------------
(* The life of a request, and what is written.                             *)

\* What one step does to request q.
Moves(q) ==
    \/ phase'[q] = phase[q] /\ part'[q] = part[q]
    \/ SendHead(q)
    \/ phase[q] \in {"half", "sent"} /\ phase'[q] \in {"sent", "queued", "refused"}
    \/ phase[q] = "queued" /\ phase'[q] = "executing"
    \/ phase[q] = "executing" /\ phase'[q] = "finished"
    \/ phase[q] = "executing" /\ phase'[q] = "writing" /\ part'[q] \in {Ok, Eio}
    \/ WriteAll(q)

LEMMA MovesStep ==
    ASSUME BaseInv, InboxInv, Next, NEW q \in Requests PROVE Moves(q)
  <1>a. PartType /\ SeqType
    BY DEF BaseInv
  <1>1. ASSUME NEW r \in Requests, SendHead(r) PROVE Moves(q)
    BY <1>1, <1>a DEF SendHead, Moves, PartType
  <1>2. ASSUME NEW r \in Requests, SendPayload(r) PROVE Moves(q)
    BY <1>2, <1>a DEF SendPayload, Moves, PartType
  <1>3. ASSUME NEW r \in Requests, StartCommand(r) PROVE Moves(q)
    BY <1>3, <1>a DEF StartCommand, Moves, PartType
  <1>4. ASSUME NEW r \in Requests, Handle(r) PROVE Moves(q)
    <2>1. PICK p \in {Ok, Eio} : part' = [part EXCEPT ![r] = p]
      BY <1>4 DEF Handle
    <2> QED
      BY <1>4, <1>a, <2>1 DEF Handle, Moves, PartType
  <1>5. ASSUME NEW r \in Requests, WriteAll(r) PROVE Moves(q)
    BY <1>5, <1>a DEF WriteAll, Moves, PartType
  <1>6. CASE UNCHANGED <<phase, part>>
    BY <1>6 DEF Moves
  <1>7. ASSUME NEW r \in Requests, ReceiveHead(r) \/ ReceivePayload(r) PROVE Moves(q)
    <2>1. phase[r] \in {"half", "sent"}
      <3>1. CASE ReceiveHead(r)
        <4>1. inbox # <<>> /\ Head(inbox) = <<r, "head">>
          BY <3>1 DEF ReceiveHead
        <4>2. inbox[1] = <<r, "head">> /\ 1 \in 1 .. Len(inbox)
          BY <1>a, <4>1, TailFacts DEF SeqType
        <4> QED
          BY <4>2 DEF InboxInv
      <3>2. CASE ReceivePayload(r)
        BY <3>2 DEF ReceivePayload, InboxInv
      <3> QED
        BY <1>7, <3>1, <3>2
    <2>2. /\ UNCHANGED part
          /\ UNCHANGED phase \/ phase' = [phase EXCEPT ![r] = "queued"]
      BY <1>7 DEF ReceiveHead, ReceivePayload
    <2> QED
      BY <1>a, <2>1, <2>2 DEF Moves, PartType
  <1>8. CASE BadRequest
    <2> DEFINE r == Head(inbox)[1]
    <2>1. /\ inbox # <<>> /\ UNCHANGED part
          /\ phase' = [phase EXCEPT ![r] = IF Head(inbox)[2] = "head" THEN "refused" ELSE @]
      BY <1>8 DEF BadRequest
    <2>2. r \in Requests
      BY <1>a, <2>1, InboxHead
    <2>3. Head(inbox)[2] = "head" => phase[r] \in {"half", "sent"}
      <3>1. Head(inbox) = inbox[1] /\ 1 \in 1 .. Len(inbox)
        BY <1>a, <2>1, TailFacts DEF SeqType
      <3> QED
        BY <3>1 DEF InboxInv
    <2> HIDE DEF r
    <2> QED
      BY <1>a, <2>1, <2>2, <2>3 DEF Moves, PartType
  <1> QED
    BY <1>1, <1>2, <1>3, <1>4, <1>5, <1>6, <1>7, <1>8, ReadCases
    DEF Next, WorkerStep, WriteKills, KernelDisconnects, Reactor, EndOfStream

\* The part after a part that is not the last one of a reply.
LEMMA SuccType ==
    ASSUME NEW u \in Requests \X Parts, Succ(u) # Header
    PROVE  /\ Succ(u) = <<u[1], Succ(u)[2]>> /\ Succ(u)[2] \in 1 .. Chunks /\ Kind[u[1]] = "read"
           /\ Succ(u)[2] = IF u[2] = Ok THEN 1 ELSE u[2] + 1
           /\ u[2] \notin {Chunks, Eio} /\ Succ(u)[1] = u[1]
  BY ChunksNat DEF Succ, Parts, Ok, Eio

\* One write of SendReply.
LEMMA WriteFacts ==
    ASSUME BaseInv, NEW r \in Requests, WriteAll(r)
    PROVE  /\ phase[r] = "writing" /\ part[r] \in Parts /\ <<r, part[r]>> \in Requests \X Parts
           /\ Kind[r] # "disc" /\ kernel = "up"
           /\ Succ(<<r, part[r]>>) = Header => phase'[r] = "finished"
           /\ Succ(<<r, part[r]>>) # Header =>
                /\ phase'[r] = "writing" /\ part'[r] \in 1 .. Chunks /\ Kind[r] = "read"
                /\ Succ(<<r, part[r]>>) = <<r, part'[r]>>
                /\ part[r] \in 1 .. Chunks => part'[r] = part[r] + 1
           /\ \A q \in Requests : q # r => phase'[q] = phase[q] /\ part'[q] = part[q]
  <1>1. /\ phase[r] = "writing" /\ part[r] \in Parts /\ Kind[r] # "disc" /\ kernel = "up"
        /\ \A q \in Requests : q # r => phase'[q] = phase[q] /\ part'[q] = part[q]
    BY DEF BaseInv, PartType, PlaceInv, WriteAll
  <1>2. <<r, part[r]>> \in Requests \X Parts
    BY <1>1
  <1>3. Succ(<<r, part[r]>>) = Header <=> LastPart(r)
    BY DEF Succ, LastPart, Header
  <1>4. LastPart(r) => phase'[r] = "finished"
    BY DEF WriteAll, BaseInv, PartType
  <1>5. ASSUME ~LastPart(r)
        PROVE  /\ phase'[r] = "writing" /\ part'[r] = IF part[r] = Ok THEN 1 ELSE part[r] + 1
               /\ Kind[r] = "read"
    BY <1>5, <1>1 DEF WriteAll, BaseInv, PartType, LastPart
  <1>6. ASSUME ~LastPart(r)
        PROVE  /\ part'[r] \in 1 .. Chunks /\ Succ(<<r, part[r]>>) = <<r, part'[r]>>
               /\ part[r] \in 1 .. Chunks => part'[r] = part[r] + 1
    <2>1. /\ Succ(<<r, part[r]>>) = <<r, Succ(<<r, part[r]>>)[2]>>
          /\ Succ(<<r, part[r]>>)[2] \in 1 .. Chunks
          /\ Succ(<<r, part[r]>>)[2] = IF part[r] = Ok THEN 1 ELSE part[r] + 1
      BY <1>2, <1>3, <1>6, SuccType
    <2>2. part[r] \in 1 .. Chunks => part[r] # Ok
      BY ChunksNat DEF Ok
    <2> QED
      BY <1>5, <1>6, <2>1, <2>2
  <1> QED
    BY <1>1, <1>2, <1>3, <1>4, <1>5, <1>6

\* What is done stays done.
LEMMA PastStep ==
    ASSUME BaseInv, InboxInv, Next, NEW q \in Requests
    PROVE  /\ phase[q] = "finished" => phase'[q] = "finished"
           /\ \A k \in 1 .. Chunks : Past(q, k) => Past(q, k)'
           /\ phase[q] # "unsent" => phase'[q] # "unsent"
           /\ phase'[q] \in Active => phase[q] \in Active \/ SendHead(q)
  <1>1. Moves(q)
    BY MovesStep
  <1>2. CASE WriteAll(q)
    <2>1. /\ phase[q] = "writing"
          /\ phase'[q] = "finished" \/ (/\ phase'[q] = "writing" /\ part'[q] \in 1 .. Chunks
                                        /\ part[q] \in 1 .. Chunks => part'[q] = part[q] + 1)
      BY <1>2, WriteFacts
    <2>2. ASSUME NEW k \in 1 .. Chunks, Past(q, k) PROVE Past(q, k)'
      BY <2>1, <2>2, ChunksNat DEF Past
    <2> QED
      BY <2>1, <2>2 DEF Active
  <1>3. CASE SendHead(q)
    BY <1>3 DEF SendHead, Past, BaseInv, PartType
  <1>4. CASE ~WriteAll(q) /\ ~SendHead(q)
    BY <1>1, <1>4 DEF Moves, Past, Active
  <1> QED
    BY <1>2, <1>3, <1>4

LEMMA WrittenKept ==
    ASSUME BaseInv, InboxInv, Next, NEW u \in Requests \X Parts, Written(u)
    PROVE  Written(u)'
  <1>1. u[1] \in Requests
    OBVIOUS
  <1>2. Succ(u) # Header => Succ(u)[2] \in 1 .. Chunks
    BY SuccType
  <1>3. Succ(u) # Header => Past(u[1], Succ(u)[2])'
    BY <1>1, <1>2, PastStep DEF Written
  <1> QED
    BY <1>1, <1>3, PastStep DEF Written

\* What a step does to the stream.
LEMMA StreamCases ==
    ASSUME Next
    PROVE  \/ UNCHANGED <<stream, expect, torn, kernel>>
              /\ ~\E r \in Requests : WriteAll(r)
           \/ \E r \in Requests : WriteAll(r)
           \/ KernelDisconnects
           \/ ReadReply
  <1>1. ASSUME NEW r \in Requests, SendHead(r) \/ SendPayload(r) PROVE UNCHANGED <<stream, expect, torn, kernel>>
    BY <1>1 DEF SendHead, SendPayload, kernelVars
  <1>2. ASSUME NEW r \in Requests, WorkerStep(r), ~WriteAll(r)
        PROVE  UNCHANGED <<stream, expect, torn, kernel>>
    BY <1>2 DEF WorkerStep, StartCommand, Handle, WriteKills, kernelVars
  <1>3. CASE Reactor
    <2>1. UNCHANGED <<stream, expect, torn, kernel>>
      BY <1>3 DEF Reactor, ReceiveHead, ReceivePayload, EndOfStream, BadRequest, kernelVars
    <2> QED
      BY <2>1
  <1> QED
    BY <1>1, <1>2, <1>3 DEF Next, WorkerStep

\* The stream after a write, and after a read.
LEMMA WriteStream ==
    ASSUME BaseInv, NEW r \in Requests, WriteAll(r)
    PROVE  /\ UNCHANGED <<expect, torn, kernel, waiting, conf>> /\ Len(stream) \in Nat
           /\ Len(stream') = Len(stream) + 1 /\ stream'[Len(stream) + 1] = <<r, part[r]>>
           /\ \A i \in 1 .. Len(stream) : stream'[i] = stream[i]
           /\ \A i \in 1 .. Len(stream) : stream[i] \in Requests \X Parts
  <1>1. /\ UNCHANGED <<expect, torn, kernel, waiting, conf>>
        /\ stream' = Append(stream, <<r, part[r]>>)
    BY DEF WriteAll, kernelVars
  <1>2. stream \in Seq(Requests \X Parts) /\ <<r, part[r]>> \in Requests \X Parts
    BY DEF BaseInv, SeqType, PartType
  <1> QED
    BY <1>1, <1>2, AppendFacts

LEMMA ReadStream ==
    ASSUME BaseInv, stream # <<>>, stream' = Tail(stream)
    PROVE  /\ Len(stream) \in Nat \ {0} /\ Len(stream') = Len(stream) - 1
           /\ Head(stream) = stream[1] /\ 1 \in 1 .. Len(stream)
           /\ stream[1] \in Requests \X Parts
           /\ \A i \in 1 .. Len(stream') :
                /\ stream'[i] = stream[i + 1] /\ i + 1 \in 1 .. Len(stream) /\ i + 1 # 1
                /\ stream[i + 1] \in Requests \X Parts
  <1>1. stream \in Seq(Requests \X Parts)
    BY DEF BaseInv, SeqType
  <1>2. /\ Len(stream) \in Nat \ {0} /\ Len(stream') = Len(stream) - 1 /\ Head(stream) = stream[1]
        /\ \A i \in 1 .. Len(stream) - 1 : stream'[i] = stream[i + 1]
    BY <1>1, TailFacts
  <1>3. \A i \in 1 .. Len(stream) : stream[i] \in Requests \X Parts
    BY <1>1
  <1> QED
    BY <1>2, <1>3

\* What a kernel that reads a part goes on to expect.
LEMMA HeaderRead ==
    ASSUME BaseInv, ReadReply, ReadHeader
    PROVE  LET u == Head(stream)
           IN  /\ stream' = Tail(stream) /\ UNCHANGED <<torn, kernel>> /\ kernel = "up"
               /\ IsHead(u) /\ u[1] \in waiting /\ u \in Requests \X Parts
               /\ expect' = Succ(u)
               /\ waiting' = IF Succ(u) = Header THEN waiting \ {u[1]} ELSE waiting
  <1> DEFINE u == Head(stream)
  <1>1. /\ stream' = Tail(stream) /\ UNCHANGED <<torn, kernel>> /\ kernel = "up"
        /\ u[2] \in {Ok, Eio} /\ u[1] \in waiting
        /\ expect' = IF Kind[u[1]] = "read" /\ u[2] = Ok THEN <<u[1], 1>> ELSE Header
        /\ waiting' = IF Kind[u[1]] = "read" /\ u[2] = Ok THEN waiting ELSE waiting \ {u[1]}
    BY ReadCases DEF ReadHeader, Reply
  <1>2. u \in Requests \X Parts
    BY ReadCases, TailFacts DEF BaseInv, SeqType
  <1>3. Ok # Chunks /\ Ok # Eio
    BY ChunksNat DEF Ok
  <1>4. Succ(u) = IF Kind[u[1]] = "read" /\ u[2] = Ok THEN <<u[1], 1>> ELSE Header
    BY <1>1, <1>3 DEF Succ
  <1>5. <<u[1], 1>> # Header
    BY DEF Header
  <1> HIDE DEF u
  <1>6. /\ stream' = Tail(stream) /\ UNCHANGED <<torn, kernel>> /\ kernel = "up"
        /\ IsHead(u) /\ u[1] \in waiting /\ u \in Requests \X Parts
        /\ expect' = Succ(u)
        /\ waiting' = IF Succ(u) = Header THEN waiting \ {u[1]} ELSE waiting
    BY <1>1, <1>2, <1>4, <1>5 DEF IsHead
  <1> QED
    BY <1>6 DEF u

LEMMA DataRead ==
    ASSUME BaseInv, WrittenInv, ReadReply, ReadData
    PROVE  /\ stream' = Tail(stream) /\ UNCHANGED kernel /\ kernel = "up"
           /\ expect \in Requests \X Parts /\ ~IsHead(expect) /\ Kind[expect[1]] = "read"
           /\ expect' = Succ(expect)
           /\ waiting' = IF Succ(expect) = Header THEN waiting \ {expect[1]} ELSE waiting
           /\ ~torn' => ~torn /\ Head(stream) = expect
           /\ torn => torn'
  <1>1. /\ expect # Header /\ expect[1] \in Requests /\ expect[2] \in 1 .. Chunks
        /\ expect = <<expect[1], expect[2]>> /\ Kind[expect[1]] = "read"
    BY ExpectData DEF ReadData, BaseInv, WrittenInv
  <1>2. /\ stream' = Tail(stream) /\ UNCHANGED kernel /\ kernel = "up"
        /\ expect' = IF expect[2] = Chunks THEN Header ELSE <<expect[1], expect[2] + 1>>
        /\ waiting' = IF expect[2] = Chunks THEN waiting \ {expect[1]} ELSE waiting
    BY ReadCases DEF ReadData, Data
  <1>3. torn' = (torn \/ Head(stream) # <<expect[1], expect[2]>>)
    BY DEF ReadData, Data
  <1>4. expect[2] \in Parts /\ expect[2] \notin {Ok, Eio}
    BY <1>1, ChunksNat DEF Parts, Ok, Eio
  <1>5. Succ(expect) = IF expect[2] = Chunks THEN Header ELSE <<expect[1], expect[2] + 1>>
    BY <1>1, <1>4 DEF Succ
  <1>6. <<expect[1], expect[2] + 1>> # Header
    BY DEF Header
  <1>7. /\ ~torn' => ~torn /\ Head(stream) = expect
        /\ torn => torn'
    BY <1>1, <1>3
  <1>8. expect \in Requests \X Parts /\ ~IsHead(expect)
    BY <1>1, <1>4 DEF IsHead
  <1>9. waiting' = IF Succ(expect) = Header THEN waiting \ {expect[1]} ELSE waiting
    BY <1>2, <1>5, <1>6
  <1> QED
    BY <1>1, <1>2, <1>5, <1>7, <1>8, <1>9

LEMMA WrittenAll ==
    ASSUME \A i \in 1 .. Len(stream') : \E u \in Requests \X Parts : stream'[i] = u /\ Written(u)',
           expect' # Header => /\ Kind[expect'[1]] = "read"
                               /\ \E q \in Requests : expect'[1] = q /\ Past(q, 1)'
    PROVE  WrittenInv'
  BY DEF WrittenInv, Written, Past

\* A socket that is shut down.
LEMMA ShutDownFacts ==
    ASSUME KernelDisconnects \/ ReadNonsense
    PROVE  /\ kernel' = "down" /\ stream' = <<>> /\ expect' = Header /\ Len(stream') = 0
           /\ \A i \in 1 .. Len(stream') : FALSE
  <1>1. kernel' = "down" /\ stream' = <<>> /\ expect' = Header
    BY DEF KernelDisconnects, ReadNonsense, Nonsense, ShutDown
  <1>2. Len(stream') = 0
    BY <1>1
  <1> QED
    BY <1>1, <1>2

LEMMA WrittenStep ==
    ASSUME BaseInv, InboxInv, WrittenInv, [Next]_vars PROVE WrittenInv'
  <1>a. \A i \in 1 .. Len(stream) : stream[i] \in Requests \X Parts /\ Written(stream[i])
    BY DEF BaseInv, SeqType, WrittenInv
  <1>b. expect # Header => expect[1] \in Requests /\ Kind[expect[1]] = "read" /\ Past(expect[1], 1)
    BY ExpectData DEF BaseInv, WrittenInv
  <1>c. 1 \in 1 .. Chunks
    BY ChunksNat
  <1>1. CASE UNCHANGED vars
    BY <1>1 DEF vars, WrittenInv, Written, Past
  <1>2. CASE Next
    <2>1. \A u \in Requests \X Parts : Written(u) => Written(u)'
      BY <1>2, WrittenKept
    <2>2. \A q \in Requests : Past(q, 1) => Past(q, 1)'
      BY <1>2, <1>c, PastStep
    <2>3. CASE UNCHANGED <<stream, expect>>
      <3>1. \A i \in 1 .. Len(stream') : \E u \in Requests \X Parts : stream'[i] = u /\ Written(u)'
        BY <1>a, <2>1, <2>3
      <3> QED
        BY <1>b, <2>2, <2>3, <3>1, WrittenAll
    <2>4. ASSUME NEW r \in Requests, WriteAll(r) PROVE WrittenInv'
      <3>0. PICK w \in Requests \X Parts : w = <<r, part[r]>>
        BY <2>4, WriteFacts
      <3>1. w[1] = r /\ w[2] = part[r]
        BY <3>0
      <3>2. Written(w)'
        <4>1. Succ(w) = Header => phase'[r] = "finished"
          BY <2>4, <3>0, WriteFacts
        <4>2. Succ(w) # Header => /\ phase'[r] = "writing" /\ part'[r] \in 1 .. Chunks
                                  /\ Succ(w)[2] = part'[r]
          BY <2>4, <3>0, WriteFacts
        <4>3. ~IsHead(w) => Kind[r] = "read"
          BY <2>4, <3>1, WriteFacts DEF IsHead, BaseInv, PlaceInv
        <4>4. Succ(w) # Header => part'[r] \in part'[r] .. Chunks
          BY <4>2, ChunksNat
        <4> QED
          BY <3>1, <4>1, <4>2, <4>3, <4>4 DEF Written, Past
      <3>3. \A i \in 1 .. Len(stream') : \E u \in Requests \X Parts : stream'[i] = u /\ Written(u)'
        <4> SUFFICES ASSUME NEW i \in 1 .. Len(stream')
                     PROVE  \E u \in Requests \X Parts : stream'[i] = u /\ Written(u)'
          OBVIOUS
        <4>1. /\ Len(stream) \in Nat /\ Len(stream') = Len(stream) + 1
              /\ stream'[Len(stream) + 1] = w
              /\ \A j \in 1 .. Len(stream) : stream'[j] = stream[j]
          BY <2>4, <3>0, WriteStream
        <4>2. i = Len(stream) + 1 \/ i \in 1 .. Len(stream)
          BY <4>1
        <4>3. CASE i = Len(stream) + 1
          BY <3>1, <3>2, <4>1, <4>3
        <4>4. CASE i \in 1 .. Len(stream)
          BY <1>a, <2>1, <4>1, <4>4
        <4> QED
          BY <4>2, <4>3, <4>4
      <3>4. expect' = expect
        BY <2>4, WriteStream
      <3> QED
        BY <1>b, <2>2, <3>3, <3>4, WrittenAll
    <2>5. CASE KernelDisconnects \/ ReadNonsense
      BY <2>5, ShutDownFacts, WrittenAll
    <2>6. ASSUME ReadReply, ReadHeader \/ ReadData PROVE WrittenInv'
      <3>1. stream # <<>> /\ stream' = Tail(stream)
        BY <2>6, ReadCases, HeaderRead, DataRead
      <3>2. \A i \in 1 .. Len(stream') : \E u \in Requests \X Parts : stream'[i] = u /\ Written(u)'
        BY <1>a, <2>1, <3>1, ReadStream
      <3>3. ASSUME expect' # Header
            PROVE  /\ Kind[expect'[1]] = "read"
                   /\ \E q \in Requests : expect'[1] = q /\ Past(q, 1)'
        <4>1. CASE ReadHeader
          <5>1. /\ Head(stream) = stream[1] /\ 1 \in 1 .. Len(stream) /\ stream[1] \in Requests \X Parts
                /\ expect' = Succ(stream[1]) /\ IsHead(stream[1])
            BY <2>6, <3>1, <4>1, ReadStream, HeaderRead
          <5>2. /\ expect'[1] = stream[1][1] /\ Kind[expect'[1]] = "read" /\ expect'[1] \in Requests
                /\ Succ(stream[1])[2] = 1
            BY <3>3, <5>1, SuccType DEF IsHead
          <5>3. Past(stream[1][1], 1)
            BY <1>a, <3>3, <5>1, <5>2 DEF Written
          <5> QED
            BY <2>2, <5>2, <5>3
        <4>2. CASE ReadData
          <5>1. expect \in Requests \X Parts /\ expect' = Succ(expect) /\ expect # Header
            BY <2>6, <4>2, DataRead DEF ReadData
          <5>2. expect'[1] = expect[1]
            BY <3>3, <5>1, SuccType
          <5> QED
            BY <1>b, <2>2, <5>1, <5>2
        <4> QED
          BY <2>6, <4>1, <4>2
      <3> QED
        BY <3>2, <3>3, WrittenAll
    <2> QED
      BY <1>2, <2>3, <2>4, <2>5, <2>6, StreamCases, ReadCases
  <1> QED
    BY <1>1, <1>2

-----------------------------------------------------------------------------
(* Answers.                                                                *)

\* What a step does to torn and to the end of the socket.
LEMMA TornKept ==
    ASSUME BaseInv, WrittenInv, Next
    PROVE  (~torn' => ~torn) /\ (kernel' = "up" => kernel = "up")
  <1>1. CASE UNCHANGED <<torn, kernel>>
    BY <1>1
  <1>2. ASSUME NEW r \in Requests, WriteAll(r) PROVE UNCHANGED <<torn, kernel>>
    BY <1>2 DEF WriteAll, kernelVars
  <1>3. CASE KernelDisconnects
    BY <1>3 DEF KernelDisconnects, ShutDown
  <1>4. CASE ReadReply
    <2>1. CASE ReadData
      BY <1>4, <2>1, DataRead
    <2>2. CASE ReadHeader
      BY <2>2 DEF ReadHeader, Reply
    <2>3. CASE ReadNonsense
      BY <2>3 DEF ReadNonsense, Nonsense, ShutDown
    <2> QED
      BY <1>4, <2>1, <2>2, <2>3, ReadCases
  <1> QED
    BY <1>1, <1>2, <1>3, <1>4, StreamCases

\* Nothing of a reply has been written whose worker is about to write the header.
LEMMA NotBegun ==
    ASSUME NEW r \in Requests, phase[r] = "writing", part[r] \in {Ok, Eio}
    PROVE  /\ \A k \in 1 .. Chunks : ~Past(r, k)
           /\ \A u \in Requests \X Parts : Written(u) => u[1] # r
  <1>1. ASSUME NEW k \in 1 .. Chunks PROVE ~Past(r, k)
    BY <1>1, ChunksNat DEF Past, Ok, Eio
  <1>2. ASSUME NEW u \in Requests \X Parts, Written(u), u[1] = r PROVE FALSE
    <2>1. CASE Succ(u) = Header
      BY <1>2, <2>1 DEF Written
    <2>2. CASE Succ(u) # Header
      BY <1>1, <1>2, <2>2, SuccType DEF Written
    <2> QED
      BY <2>1, <2>2
  <1> QED
    BY <1>1, <1>2

\* The kernel stops waiting when it has read the last part of a reply.
LEMMA ReadWaiting ==
    ASSUME BaseInv, WrittenInv, ReadReply, ReadHeader \/ ReadData, ~torn'
    PROVE  LET u == stream[1]
           IN  /\ stream # <<>> /\ stream' = Tail(stream) /\ u \in Requests \X Parts /\ Written(u)
               /\ 1 \in 1 .. Len(stream)
               /\ expect' = Succ(u) /\ kernel' = kernel
               /\ waiting' = IF Succ(u) = Header THEN waiting \ {u[1]} ELSE waiting
               /\ (IsHead(u) /\ expect = Header) \/ (expect = u /\ ~IsHead(u) /\ expect # Header)
  <1>1. stream # <<>> /\ stream' = Tail(stream) /\ kernel' = kernel
    BY ReadCases, HeaderRead, DataRead
  <1>2. /\ Head(stream) = stream[1] /\ 1 \in 1 .. Len(stream) /\ stream[1] \in Requests \X Parts
    BY <1>1, ReadStream
  <1>3. Written(stream[1])
    BY <1>2 DEF WrittenInv
  <1>4. CASE ReadHeader
    <2>1. /\ expect' = Succ(stream[1]) /\ IsHead(stream[1]) /\ expect = Header
          /\ waiting' = IF Succ(stream[1]) = Header THEN waiting \ {stream[1][1]} ELSE waiting
      BY <1>2, <1>4, HeaderRead DEF ReadHeader
    <2> QED
      BY <1>1, <1>2, <1>3, <2>1
  <1>5. CASE ReadData
    <2>1. /\ expect' = Succ(expect) /\ ~IsHead(expect) /\ expect # Header /\ expect = stream[1]
          /\ waiting' = IF Succ(expect) = Header THEN waiting \ {expect[1]} ELSE waiting
      BY <1>2, <1>5, DataRead DEF ReadData
    <2> QED
      BY <1>1, <1>2, <1>3, <2>1
  <1> QED
    BY <1>4, <1>5

\* The steps of the workers and of the reactor thread leave the kernel alone.
LEMMA WaitingCases ==
    ASSUME Next
    PROVE  \/ \E r \in Requests : SendHead(r)
           \/ UNCHANGED waiting
           \/ KernelDisconnects
           \/ ReadReply
  <1>1. ASSUME NEW r \in Requests, SendPayload(r) \/ WorkerStep(r) PROVE UNCHANGED waiting
    BY <1>1 DEF SendPayload, WorkerStep, StartCommand, Handle, WriteAll, WriteKills, kernelVars
  <1>2. CASE Reactor
    BY <1>2 DEF Reactor, ReceiveHead, ReceivePayload, EndOfStream, BadRequest, kernelVars
  <1> QED
    BY <1>1, <1>2 DEF Next

LEMMA WaitingGrows ==
    ASSUME NEW r \in Requests, SendHead(r)
    PROVE  /\ waiting \subseteq waiting' /\ (Kind[r] # "disc" => r \in waiting')
           /\ UNCHANGED <<stream, expect, torn, kernel, part, conf>>
  BY DEF SendHead

LEMMA AllWaitedStep ==
    ASSUME BaseInv, InboxInv, WrittenInv, AnswerInv, Next, ~torn' PROVE AllWaited'
  <1> SUFFICES ASSUME kernel' = "up", NEW r \in Requests, phase'[r] \in Active, Kind[r] # "disc"
               PROVE  r \in waiting'
    BY DEF AllWaited
  <1>1. ~torn /\ kernel = "up" /\ (phase[r] \in Active \/ SendHead(r))
    BY TornKept, PastStep
  <1>2. CASE SendHead(r)
    BY <1>2, WaitingGrows
  <1>3. CASE phase[r] \in Active
    <2>1. r \in waiting
      BY <1>1, <1>3 DEF AnswerInv, AllWaited
    <2>2. ASSUME NEW q \in Requests, SendHead(q) PROVE r \in waiting'
      BY <2>1, <2>2, WaitingGrows
    <2>3. CASE ReadReply
      <3>1. ~ReadNonsense
        BY ShutDownFacts
      <3>2. UNCHANGED phase
        BY <2>3, ReadCases
      <3>3. CASE ReadHeader \/ ReadData
        <4>1. /\ waiting' = IF Succ(stream[1]) = Header THEN waiting \ {stream[1][1]} ELSE waiting
              /\ Written(stream[1])
          BY <2>3, <3>3, ReadWaiting
        <4>2. Succ(stream[1]) = Header => phase[stream[1][1]] = "finished"
          BY <4>1 DEF Written
        <4> QED
          BY <1>3, <2>1, <4>1, <4>2 DEF Active
      <3> QED
        BY <2>3, <3>1, <3>3, ReadCases
    <2>4. ~KernelDisconnects
      BY ShutDownFacts
    <2> QED
      BY <2>1, <2>2, <2>3, <2>4, WaitingCases
  <1> QED
    BY <1>1, <1>2, <1>3

LEMMA HeadsStep ==
    ASSUME BaseInv, InboxInv, WrittenInv, AnswerInv, Next, ~torn' PROVE (HeadsWaited /\ HeadsOnce)'
  <1>a. ~torn /\ AllWaited /\ HeadsWaited /\ HeadsOnce
    BY TornKept DEF AnswerInv
  <1>b. \A i \in 1 .. Len(stream) : stream[i] \in Requests \X Parts /\ Written(stream[i])
    BY DEF BaseInv, SeqType, WrittenInv
  <1>1. CASE UNCHANGED <<stream, expect>> /\ waiting \subseteq waiting'
    BY <1>1, <1>a DEF HeadsWaited, HeadsOnce
  <1>2. CASE KernelDisconnects \/ ReadNonsense
    BY <1>2, ShutDownFacts DEF HeadsWaited, HeadsOnce
  <1>3. ASSUME ReadReply, ReadHeader \/ ReadData PROVE (HeadsWaited /\ HeadsOnce)'
    <2> DEFINE u == stream[1]
    <2>1. /\ stream # <<>> /\ stream' = Tail(stream) /\ u \in Requests \X Parts
          /\ 1 \in 1 .. Len(stream)
          /\ expect' = Succ(u) /\ waiting \ {u[1]} \subseteq waiting'
          /\ (IsHead(u) /\ expect = Header) \/ (expect = u /\ ~IsHead(u) /\ expect # Header)
      BY <1>3, ReadWaiting
    <2>2. expect' # Header => expect'[1] = u[1]
      BY <2>1, SuccType
    <2>3. \A i \in 1 .. Len(stream') : /\ stream'[i] = stream[i + 1]
                                       /\ i + 1 \in 1 .. Len(stream) /\ i + 1 # 1
      BY <2>1, ReadStream
    <2>4. \A i \in 1 .. Len(stream') : IsHead(stream[i + 1]) =>
             stream[i + 1][1] \in waiting /\ stream[i + 1][1] # u[1]
      BY <1>a, <2>1, <2>3 DEF HeadsWaited, HeadsOnce
    <2>5. HeadsWaited'
      <3> SUFFICES ASSUME NEW i \in 1 .. Len(stream'), IsHead(stream'[i])
                   PROVE  /\ stream'[i][1] \in waiting'
                          /\ expect' # Header => expect'[1] # stream'[i][1]
        BY DEF HeadsWaited, IsHead
      <3> QED
        BY <2>1, <2>2, <2>3, <2>4
    <2>6. HeadsOnce'
      <3> SUFFICES ASSUME NEW i \in 1 .. Len(stream'), NEW j \in 1 .. Len(stream'),
                          IsHead(stream'[i]), IsHead(stream'[j]), stream'[i][1] = stream'[j][1]
                   PROVE  i = j
        BY DEF HeadsOnce, IsHead
      <3>1. i + 1 = j + 1
        BY <1>a, <2>3 DEF HeadsOnce
      <3> QED
        BY <3>1
    <2> QED
      BY <2>5, <2>6
  <1>4. ASSUME NEW r \in Requests, WriteAll(r) PROVE (HeadsWaited /\ HeadsOnce)'
    <2>1. PICK w \in Requests \X Parts : w = <<r, part[r]>>
      BY <1>4, WriteFacts
    <2>2. /\ UNCHANGED <<expect, waiting>> /\ Len(stream) \in Nat /\ Len(stream') = Len(stream) + 1
          /\ stream'[Len(stream) + 1] = w
          /\ \A i \in 1 .. Len(stream) : stream'[i] = stream[i]
      BY <1>4, <2>1, WriteStream
    <2>3. phase[r] = "writing" /\ Kind[r] # "disc" /\ kernel = "up" /\ w[1] = r /\ w[2] = part[r]
      BY <1>4, <2>1, WriteFacts
    <2>4. r \in waiting
      BY <1>a, <2>3 DEF AllWaited, Active
    <2>5. ASSUME IsHead(w)
          PROVE  /\ expect # Header => expect[1] # r
                 /\ \A i \in 1 .. Len(stream) : stream[i][1] # r
      <3>1. part[r] \in {Ok, Eio}
        BY <2>3, <2>5 DEF IsHead
      <3>2. 1 \in 1 .. Chunks
        BY ChunksNat
      <3>3. ~Past(r, 1) /\ \A u \in Requests \X Parts : Written(u) => u[1] # r
        BY <2>3, <3>1, <3>2, NotBegun
      <3> QED
        BY <1>b, <3>3 DEF WrittenInv
    <2>6. \A i \in 1 .. Len(stream') : i = Len(stream) + 1 \/ i \in 1 .. Len(stream)
      BY <2>2
    <2>7. HeadsWaited'
      <3> SUFFICES ASSUME NEW i \in 1 .. Len(stream'), IsHead(stream'[i])
                   PROVE  /\ stream'[i][1] \in waiting
                          /\ expect # Header => expect[1] # stream'[i][1]
        BY <2>2 DEF HeadsWaited, IsHead
      <3>1. CASE i = Len(stream) + 1
        BY <2>2, <2>3, <2>4, <2>5, <3>1
      <3>2. CASE i \in 1 .. Len(stream)
        BY <1>a, <2>2, <3>2 DEF HeadsWaited
      <3> QED
        BY <2>6, <3>1, <3>2
    <2>8. HeadsOnce'
      <3> SUFFICES ASSUME NEW i \in 1 .. Len(stream'), NEW j \in 1 .. Len(stream'),
                          IsHead(stream'[i]), IsHead(stream'[j]), stream'[i][1] = stream'[j][1]
                   PROVE  i = j
        BY DEF HeadsOnce, IsHead
      <3>1. CASE i \in 1 .. Len(stream) /\ j \in 1 .. Len(stream)
        BY <1>a, <2>2, <3>1 DEF HeadsOnce
      <3>2. CASE i = Len(stream) + 1 /\ j \in 1 .. Len(stream)
        BY <2>2, <2>3, <2>5, <3>2
      <3>3. CASE i \in 1 .. Len(stream) /\ j = Len(stream) + 1
        BY <2>2, <2>3, <2>5, <3>3
      <3>4. CASE i = Len(stream) + 1 /\ j = Len(stream) + 1
        BY <3>4
      <3> QED
        BY <2>6, <3>1, <3>2, <3>3, <3>4
    <2> QED
      BY <2>7, <2>8
  <1> QED
    <2>1. ASSUME NEW r \in Requests, SendHead(r) PROVE UNCHANGED <<stream, expect>> /\ waiting \subseteq waiting'
      BY <2>1, WaitingGrows
    <2>2. CASE ReadReply
      BY <1>2, <1>3, <2>2, ReadCases
    <2>3. CASE UNCHANGED waiting /\ UNCHANGED <<stream, expect>>
      BY <1>1, <2>3
    <2> QED
      BY <1>1, <1>2, <1>4, <2>1, <2>2, <2>3, StreamCases, WaitingCases

LEMMA AnswerStep ==
    ASSUME BaseInv, InboxInv, WrittenInv, AnswerInv, [Next]_vars PROVE AnswerInv'
  <1>1. CASE Next
    BY <1>1, AllWaitedStep, HeadsStep DEF AnswerInv
  <1>2. CASE UNCHANGED vars
    BY <1>2 DEF vars, AnswerInv, AllWaited, HeadsWaited, HeadsOnce, IsHead
  <1> QED
    BY <1>1, <1>2

-----------------------------------------------------------------------------
(* One worker, or one request at a time.                                   *)

LEMMA ConfKept == ASSUME Next PROVE UNCHANGED conf
  <1>1. ASSUME NEW r \in Requests, SendHead(r) \/ SendPayload(r) \/ WorkerStep(r) PROVE UNCHANGED conf
    BY <1>1 DEF SendHead, SendPayload, WorkerStep, StartCommand, Handle, WriteAll, WriteKills, kernelVars
  <1>2. CASE Reactor
    BY <1>2 DEF Reactor, ReceiveHead, ReceivePayload, EndOfStream, BadRequest, kernelVars
  <1>3. CASE ReadReply \/ KernelDisconnects
    BY <1>3 DEF ReadReply, KernelDisconnects
  <1> QED
    BY <1>1, <1>2, <1>3 DEF Next

Serial == workers = 1 \/ depth = 1

\* Only one reply is written at a time.
LEMMA OneReply ==
    ASSUME BaseInv, AnswerInv, Serial, ~torn, kernel = "up",
           NEW r \in Requests, NEW q \in Requests, phase[r] = "writing", phase[q] = "writing"
    PROVE  q = r
  <1>1. r \in WithWorker /\ q \in WithWorker
    BY DEF WithWorker
  <1>2. r \in waiting /\ q \in waiting
    BY DEF AnswerInv, AllWaited, Active, BaseInv, PlaceInv
  <1>3. CASE workers = 1
    <2>1. IsFiniteSet(WithWorker) /\ Cardinality(WithWorker) <= 1
      BY <1>3 DEF BaseInv, WorkType
    <2> QED
      BY <1>1, <2>1, TwoMembers
  <1>4. CASE depth = 1
    <2>1. IsFiniteSet(waiting) /\ Cardinality(waiting) <= 1
      BY <1>4 DEF BaseInv, WaitType
    <2> QED
      BY <1>2, <2>1, TwoMembers
  <1> QED
    BY <1>3, <1>4 DEF Serial

\* In which case the kernel never reads what it does not expect.
LEMMA NeverTorn ==
    ASSUME BaseInv, WrittenInv, AnswerInv, ~torn, kernel = "up" => InOrder, Next PROVE ~torn'
  <1>1. CASE UNCHANGED torn
    BY <1>1
  <1>2. ASSUME NEW r \in Requests, WriteAll(r) PROVE UNCHANGED torn
    BY <1>2, WriteStream
  <1>3. CASE KernelDisconnects
    BY <1>3 DEF KernelDisconnects
  <1>4. CASE ReadReply
    <2>1. stream # <<>> /\ kernel = "up" /\ (ReadData \/ ReadHeader \/ ReadNonsense)
      BY <1>4, ReadCases
    <2>2. Head(stream) = stream[1] /\ 1 \in 1 .. Len(stream)
      BY <2>1, TailFacts DEF BaseInv, SeqType
    <2>3. Accepts(expect, stream[1])
      BY <2>1, <2>2 DEF InOrder, After
    <2>4. CASE ReadHeader
      BY <2>4 DEF ReadHeader, Reply
    <2>5. CASE ReadData
      <3>1. Head(stream) = <<expect[1], expect[2]>>
        BY <2>2, <2>3, <2>5, ExpectData DEF Accepts, ReadData, BaseInv
      <3> QED
        BY <2>5, <3>1 DEF ReadData, Data
    <2>6. CASE ReadNonsense
      <3>1. IsHead(stream[1])
        BY <2>3, <2>6 DEF Accepts, ReadNonsense
      <3>2. stream[1][1] \in waiting
        BY <2>2, <3>1 DEF AnswerInv, HeadsWaited
      <3> QED
        BY <2>2, <2>6, <3>1, <3>2 DEF ReadNonsense, Nonsense, IsHead
    <2> QED
      BY <2>1, <2>4, <2>5, <2>6
  <1> QED
    BY <1>1, <1>2, <1>3, <1>4, StreamCases

\* A step that writes nothing moves no reply.
LEMMA MidReplyKept ==
    ASSUME BaseInv, InboxInv, Next, ~\E r \in Requests : WriteAll(r), NEW q \in Requests
    PROVE  /\ MidReply(q)' <=> MidReply(q)
           /\ MidReply(q) => part'[q] = part[q]
  <1>1. Moves(q) /\ ~WriteAll(q)
    BY MovesStep
  <1>2. Ok \notin 1 .. Chunks /\ Eio \notin 1 .. Chunks
    BY ChunksNat DEF Ok, Eio
  <1>3. CASE SendHead(q)
    BY <1>3 DEF SendHead, MidReply, BaseInv, PartType
  <1>4. CASE ~SendHead(q)
    BY <1>1, <1>2, <1>4 DEF Moves, MidReply
  <1> QED
    BY <1>3, <1>4

\* The write that comes next.
LEMMA WriteAccepted ==
    ASSUME BaseInv, AnswerInv, Serial, ~torn, InOrder, NEW r \in Requests, WriteAll(r)
    PROVE  Accepts(After(Len(stream)), <<r, part[r]>>)
  <1>1. phase[r] = "writing" /\ kernel = "up" /\ part[r] \in Parts
    BY WriteFacts
  <1>2. CASE part[r] \in 1 .. Chunks
    <2>1. After(Len(stream)) = <<r, part[r]>>
      BY <1>1, <1>2 DEF InOrder, MidReply
    <2> QED
      BY <2>1 DEF Accepts, Header
  <1>3. CASE part[r] \notin 1 .. Chunks
    <2>1. part[r] \in {Ok, Eio}
      BY <1>1, <1>3, ChunksNat DEF Parts, Ok, Eio
    <2>2. After(Len(stream)) = Header
      <3>1. SUFFICES ASSUME After(Len(stream)) # Header PROVE FALSE
        OBVIOUS
      <3>2. PICK q \in Requests : MidReply(q)
        BY <3>1 DEF InOrder
      <3>3. q = r
        BY <1>1, <3>2, OneReply DEF MidReply
      <3> QED
        BY <1>3, <3>2, <3>3 DEF MidReply
    <2> QED
      BY <2>1, <2>2 DEF Accepts, IsHead
  <1> QED
    BY <1>2, <1>3

\* To show InOrder after a step.
LEMMA InOrderIf ==
    ASSUME \A i \in 1 .. Len(stream') :
              Accepts(IF i - 1 = 0 THEN expect' ELSE Succ(stream'[i - 1]), stream'[i]),
           NEW e, e = IF Len(stream') = 0 THEN expect' ELSE Succ(stream'[Len(stream')]),
           \A q \in Requests : MidReply(q)' => e = <<q, part'[q]>>,
           e # Header => \E q \in Requests : MidReply(q)' /\ e = <<q, part'[q]>>
    PROVE  InOrder'
  <1>1. After(Len(stream))' = e
    BY DEF After, Succ
  <1>2. \A i \in 1 .. Len(stream') : Accepts(After(i - 1), stream[i])'
    BY DEF After, Succ, Accepts, IsHead
  <1>3. \A q \in Requests : MidReply(q)' => After(Len(stream))' = <<q, part'[q]>>
    BY <1>1
  <1> QED
    BY <1>1, <1>2, <1>3 DEF InOrder

LEMMA InOrderQuiet ==
    ASSUME BaseInv, InboxInv, InOrder, Next, ~\E r \in Requests : WriteAll(r),
           UNCHANGED <<stream, expect>>
    PROVE  InOrder'
  <1>1. \A q \in Requests : (MidReply(q)' <=> MidReply(q)) /\ (MidReply(q) => part'[q] = part[q])
    BY MidReplyKept
  <1>2. \A i \in 1 .. Len(stream') :
           Accepts(IF i - 1 = 0 THEN expect' ELSE Succ(stream'[i - 1]), stream'[i])
    BY DEF InOrder, After
  <1>3. After(Len(stream)) = IF Len(stream') = 0 THEN expect' ELSE Succ(stream'[Len(stream')])
    BY DEF After
  <1>4. \A q \in Requests : MidReply(q)' => After(Len(stream)) = <<q, part'[q]>>
    BY <1>1 DEF InOrder
  <1>5. After(Len(stream)) # Header =>
           \E q \in Requests : MidReply(q)' /\ After(Len(stream)) = <<q, part'[q]>>
    BY <1>1 DEF InOrder
  <1> QED
    BY <1>2, <1>3, <1>4, <1>5, InOrderIf

LEMMA InOrderRead ==
    ASSUME BaseInv, InboxInv, WrittenInv, InOrder, ReadReply, ReadHeader \/ ReadData, ~torn'
    PROVE  InOrder'
  <1>1. stream # <<>> /\ stream' = Tail(stream) /\ expect' = Succ(stream[1])
    BY ReadWaiting
  <1>2. /\ Len(stream) \in Nat \ {0} /\ Len(stream') = Len(stream) - 1
        /\ \A i \in 1 .. Len(stream') : stream'[i] = stream[i + 1] /\ i + 1 \in 1 .. Len(stream)
    BY <1>1, ReadStream
  <1>3. UNCHANGED <<phase, part>>
    BY ReadCases
  <1>4. \A q \in Requests : (MidReply(q)' <=> MidReply(q)) /\ part'[q] = part[q]
    BY <1>3 DEF MidReply
  <1>5. \A i \in 0 .. Len(stream') :
           (IF i = 0 THEN expect' ELSE Succ(stream'[i])) = After(i + 1)
    BY <1>1, <1>2 DEF After
  <1>6. ASSUME NEW i \in 1 .. Len(stream')
        PROVE  Accepts(IF i - 1 = 0 THEN expect' ELSE Succ(stream'[i - 1]), stream'[i])
    <2>1. i - 1 \in 0 .. Len(stream') /\ (i - 1) + 1 = i /\ (i + 1) - 1 = i
      BY <1>2
    <2>2. (IF i - 1 = 0 THEN expect' ELSE Succ(stream'[i - 1])) = After(i)
      BY <1>5, <2>1
    <2>3. Accepts(After(i), stream[i + 1])
      BY <1>2, <2>1 DEF InOrder
    <2> QED
      BY <1>2, <2>2, <2>3
  <1>7. After(Len(stream)) = IF Len(stream') = 0 THEN expect' ELSE Succ(stream'[Len(stream')])
    <2>1. Len(stream') \in 0 .. Len(stream') /\ Len(stream') + 1 = Len(stream)
      BY <1>2
    <2> QED
      BY <1>5, <2>1
  <1>8. \A q \in Requests : MidReply(q)' => After(Len(stream)) = <<q, part'[q]>>
    BY <1>4 DEF InOrder
  <1>9. After(Len(stream)) # Header =>
           \E q \in Requests : MidReply(q)' /\ After(Len(stream)) = <<q, part'[q]>>
    BY <1>4 DEF InOrder
  <1> QED
    BY <1>6, <1>7, <1>8, <1>9, InOrderIf

LEMMA InOrderWrite ==
    ASSUME BaseInv, InboxInv, WrittenInv, AnswerInv, Serial, ~torn, InOrder, Next,
           NEW r \in Requests, WriteAll(r)
    PROVE  InOrder'
  <1>1. /\ UNCHANGED expect /\ Len(stream) \in Nat /\ Len(stream') = Len(stream) + 1
        /\ stream'[Len(stream) + 1] = <<r, part[r]>>
        /\ \A i \in 1 .. Len(stream) : stream'[i] = stream[i]
    BY WriteStream
  <1>2. PICK e : e = Succ(<<r, part[r]>>)
    OBVIOUS
  <1>3. /\ phase[r] = "writing" /\ kernel = "up"
        /\ e = Header => phase'[r] = "finished"
        /\ e # Header => phase'[r] = "writing" /\ part'[r] \in 1 .. Chunks /\ e = <<r, part'[r]>>
        /\ \A q \in Requests : q # r => phase'[q] = phase[q]
    BY <1>2, WriteFacts
  <1>4. \A i \in 0 .. Len(stream) :
           (IF i = 0 THEN expect' ELSE Succ(stream'[i])) = After(i)
    BY <1>1 DEF After
  <1>5. ASSUME NEW i \in 1 .. Len(stream')
        PROVE  Accepts(IF i - 1 = 0 THEN expect' ELSE Succ(stream'[i - 1]), stream'[i])
    <2>1. i - 1 \in 0 .. Len(stream)
      BY <1>1
    <2>2. (IF i - 1 = 0 THEN expect' ELSE Succ(stream'[i - 1])) = After(i - 1)
      BY <1>4, <2>1
    <2>3. CASE i \in 1 .. Len(stream)
      BY <1>1, <2>2, <2>3 DEF InOrder
    <2>4. CASE i = Len(stream) + 1
      <3>1. i - 1 = Len(stream)
        BY <1>1, <2>4
      <3>2. Accepts(After(Len(stream)), <<r, part[r]>>)
        BY WriteAccepted
      <3> QED
        BY <1>1, <2>2, <2>4, <3>1, <3>2
    <2> QED
      BY <1>1, <2>3, <2>4
  <1>6. e = IF Len(stream') = 0 THEN expect' ELSE Succ(stream'[Len(stream')])
    BY <1>1, <1>2
  <1>7. ASSUME NEW q \in Requests, MidReply(q)' PROVE q = r
    BY <1>3, <1>7, OneReply DEF MidReply
  <1>8. MidReply(r)' => e = <<r, part'[r]>>
    BY <1>3 DEF MidReply
  <1>9. e # Header => MidReply(r)' /\ e = <<r, part'[r]>>
    BY <1>3 DEF MidReply
  <1> QED
    BY <1>5, <1>6, <1>7, <1>8, <1>9, InOrderIf

LEMMA SerialStep ==
    ASSUME BaseInv, InboxInv, WrittenInv, AnswerInv, SerialInv, [Next]_vars PROVE SerialInv'
  <1>1. CASE Next
    <2> SUFFICES ASSUME Serial' PROVE ~torn' /\ (kernel' = "up" => InOrder')
      BY DEF SerialInv, Serial
    <2>1. Serial
      BY <1>1, ConfKept DEF Serial, conf
    <2>2. ~torn /\ (kernel = "up" => InOrder)
      BY <2>1 DEF SerialInv, Serial
    <2>3. ~torn'
      BY <1>1, <2>2, NeverTorn
    <2>4. ASSUME kernel' = "up" PROVE InOrder'
      <3>1. kernel = "up" /\ InOrder
        BY <1>1, <2>2, <2>4, TornKept
      <3>2. CASE UNCHANGED <<stream, expect>> /\ ~\E r \in Requests : WriteAll(r)
        BY <1>1, <3>1, <3>2, InOrderQuiet
      <3>3. ASSUME NEW r \in Requests, WriteAll(r) PROVE InOrder'
        BY <1>1, <2>1, <2>2, <3>1, <3>3, InOrderWrite
      <3>4. ~KernelDisconnects /\ ~ReadNonsense
        BY <2>4, ShutDownFacts
      <3>5. CASE ReadReply
        BY <2>3, <3>1, <3>4, <3>5, ReadCases, InOrderRead
      <3> QED
        BY <1>1, <3>2, <3>3, <3>4, <3>5, StreamCases
    <2> QED
      BY <2>3, <2>4
  <1>2. CASE UNCHANGED vars
    BY <1>2 DEF vars, SerialInv, InOrder, After, Succ, Accepts, IsHead, MidReply
  <1> QED
    BY <1>1, <1>2

LEMMA TornStep ==
    ASSUME BaseInv, InboxInv, WrittenInv, AnswerInv, TornInv, [Next]_vars PROVE TornInv'
  <1>1. CASE Next
    <2>1. ASSUME NEW r \in Requests, Kind[r] = "read", phase[r] # "unsent" PROVE TornInv'
      BY <1>1, <2>1, PastStep DEF TornInv
    <2>2. CASE torn
      BY <2>1, <2>2 DEF TornInv
    <2>3. CASE ~torn'
      BY <2>3 DEF TornInv
    <2>4. ASSUME ~torn, torn' PROVE TornInv'
      <3>1. ~UNCHANGED torn
        BY <2>4
      <3>2. \A r \in Requests : WriteAll(r) => UNCHANGED torn
        BY WriteStream
      <3>3. KernelDisconnects => UNCHANGED torn
        BY DEF KernelDisconnects
      <3>4. ReadReply
        BY <1>1, <3>1, <3>2, <3>3, StreamCases
      <3>5. /\ stream # <<>> /\ (ReadData \/ ReadHeader \/ ReadNonsense)
        BY <3>4, ReadCases
      <3>6. /\ Head(stream) = stream[1] /\ 1 \in 1 .. Len(stream) /\ stream[1][1] \in Requests
        BY <3>5, TailFacts, StreamHead DEF BaseInv, SeqType
      <3>7. CASE ReadHeader
        BY <3>1, <3>7 DEF ReadHeader, Reply
      <3>8. CASE ReadData
        <4>1. Kind[expect[1]] = "read" /\ Past(expect[1], 1) /\ expect[1] \in Requests
          BY <3>8, ExpectData DEF ReadData, WrittenInv, BaseInv
        <4> QED
          BY <2>1, <4>1 DEF Past
      <3>9. CASE ReadNonsense
        <4>1. ~IsHead(stream[1]) \/ stream[1][1] \notin waiting
          BY <3>6, <3>9 DEF ReadNonsense, Nonsense, IsHead
        <4>2. ~IsHead(stream[1])
          BY <2>4, <3>6, <4>1 DEF AnswerInv, HeadsWaited
        <4>3. Written(stream[1])
          BY <3>6 DEF WrittenInv
        <4>4. Kind[stream[1][1]] = "read" /\ phase[stream[1][1]] # "unsent"
          BY <4>2, <4>3 DEF Written, Past
        <4> QED
          BY <2>1, <3>6, <4>4
      <3> QED
        BY <3>5, <3>7, <3>8, <3>9
    <2> QED
      BY <2>2, <2>3, <2>4
  <1>2. CASE UNCHANGED vars
    BY <1>2 DEF vars, TornInv
  <1> QED
    BY <1>1, <1>2

-----------------------------------------------------------------------------
(* Theorems.                                                               *)

LEMMA InitInv == Init => NBDInv
  <1> SUFFICES ASSUME Init PROVE NBDInv
    OBVIOUS
  <1>1. BaseInv
    BY InitBase
  <1>2. /\ Len(inbox) = 0 /\ Len(stream) = 0 /\ expect = Header /\ reading = {}
        /\ \A r \in Requests : phase[r] = "unsent"
    BY DEF Init
  <1>3. ~torn
    BY DEF Init
  <1>4. InboxInv
    BY <1>2 DEF InboxInv
  <1>5. WrittenInv
    BY <1>2 DEF WrittenInv
  <1>6. AnswerInv
    BY <1>2 DEF AnswerInv, AllWaited, HeadsWaited, HeadsOnce, Active
  <1>7. SerialInv
    BY <1>2, <1>3 DEF SerialInv, InOrder, After, MidReply
  <1> QED
    BY <1>1, <1>3, <1>4, <1>5, <1>6, <1>7 DEF NBDInv, TornInv

\* The invariant: what the workers have written is in the stream once and in the
\* order of each reply (SendReply and WriteAll write one part after the other), and
\* as long as the kernel parses it, it waits for every request that is not answered.
THEOREM NBDInvariant == Spec => []NBDInv
  <1>1. Init => NBDInv
    BY InitInv
  <1>2. NBDInv /\ [Next]_vars => NBDInv'
    BY BaseStep, InboxStep, WrittenStep, AnswerStep, SerialStep, TornStep DEF NBDInv
  <1> QED
    BY <1>1, <1>2, PTL DEF Spec

\* Every variable keeps its type, no more requests than the kernel allows are in
\* flight, and no more commands are executed than the pool has threads.
THEOREM NBDTypeCorrect == Spec => []TypeOK
  <1>1. NBDInv => TypeOK
    BY BaseType DEF NBDInv
  <1> QED
    BY <1>1, NBDInvariant, PTL

\* The kernel loses track of the replies only if the pool has two workers, two
\* requests may be in flight and one of them is a READ: WriteAll is called without
\* a lock, and nothing else can come between the parts of a reply.
THEOREM RepliesParse == Spec => []StreamIntact
  <1>1. ASSUME NBDInv PROVE StreamIntact
    <2>1. workers \in Nat \ {0} /\ depth \in Nat \ {0}
      BY <1>1, ConfNat DEF NBDInv, BaseInv
    <2>2. torn => ~(workers = 1) /\ ~(depth = 1)
      BY <1>1 DEF NBDInv, SerialInv
    <2>3. torn => workers > 1 /\ depth > 1
      BY <2>1, <2>2
    <2> QED
      BY <1>1, <2>3 DEF NBDInv, TornInv, StreamIntact
  <1> QED
    BY <1>1, NBDInvariant, PTL

\* As long as the kernel parses the replies, each reply in the socket is to a
\* request it waits for, and SendReply has put no second one there for a request.
THEOREM RepliesOnce == Spec => []AnsweredOnce
  <1>1. ASSUME NBDInv PROVE AnsweredOnce
    <2>1. DOMAIN stream = 1 .. Len(stream)
      BY <1>1 DEF NBDInv, BaseInv, SeqType
    <2> QED
      BY <1>1, <2>1 DEF NBDInv, AnswerInv, HeadsWaited, HeadsOnce, IsHead, AnsweredOnce
  <1> QED
    BY <1>1, NBDInvariant, PTL
=============================================================================
