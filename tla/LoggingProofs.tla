---------------------------- MODULE LoggingProofs ---------------------------
(***************************************************************************)
(* Theorems about Logging, for any threads, messages and files: type       *)
(* correctness, that there is one Logger, and that lines are whole.        *)
(*                                                                         *)
(* Two locks carry the argument.  Under s_mutex the second look at         *)
(* s_instance tells the truth, since a Logger that is owned and not yet    *)
(* published belongs to the thread that holds the mutex.  Under m_mutex    *)
(* the open file does not change between a text and its end of line.       *)
(***************************************************************************)
EXTENDS Logging, TLAPS

Units == Threads \X (1 .. MaxWrites) \X {"text", "endl"}

\* A thread inside a call has a message, and each file is a sequence of units.
BaseInv ==
    /\ TypeOK
    /\ text \in [Files -> Seq(Units)]
    /\ \A t \in Threads : pc[t] # "idle" => msg[t][1] >= 1

\* One Logger at most has been made.  One that is not published is being made
\* by the thread at "publish".
SingleInv ==
    /\ made = sOwner /\ sOwner \in {0, 1} /\ sInstance \in {0, sOwner}
    /\ \A t \in Threads : pc[t] = "construct" => sOwner = 0
    /\ sOwner # 0 /\ sInstance = 0 => \E t \in Threads : pc[t] = "publish"
    /\ \A t \in Threads : pc[t] = "publish" => sOwner = 1
    /\ \A t \in Threads :
         pc[t] \in {"level", "lockLog", "text", "endl"} => tmp[t] # 0 /\ tmp[t] = sOwner

\* Texts and ends of line alternate, each end of line its text's.
Alternates(q) ==
    \A i \in 1 .. Len(q) :
        \/ i % 2 = 0 /\ q[i] = <<q[i - 1][1], q[i - 1][2], "endl">>
        \/ i % 2 = 1 /\ q[i][3] = "text"

\* A file that ends with a text is the open one, and the thread that wrote it
\* holds m_mutex.
TextInv ==
    /\ \A f \in Files : Alternates(text[f])
    /\ \A f \in Files : Len(text[f]) % 2 = 1 =>
         /\ f = open /\ mMutex \in Threads /\ pc[mMutex] = "endl"
         /\ text[f][Len(text[f])] = <<mMutex, msg[mMutex][1], "text">>
    /\ \A t \in Threads : pc[t] = "endl" /\ open # "none" => Len(text[open]) % 2 = 1

-----------------------------------------------------------------------------

LEMMA Parity ==
    ASSUME NEW n \in Nat
    PROVE  /\ n % 2 \in {0, 1}
           /\ n % 2 = 0 => (n + 1) % 2 = 1
           /\ n % 2 = 1 => (n + 1) % 2 = 0
  OBVIOUS

\* A file once another unit has been put at its end.
LEMMA AppendUnit ==
    ASSUME NEW S, NEW q \in Seq(S), NEW e \in S
    PROVE  /\ Append(q, e) \in Seq(S) /\ Len(Append(q, e)) = Len(q) + 1
           /\ \A i \in 1 .. Len(q) : Append(q, e)[i] = q[i]
           /\ Append(q, e)[Len(q) + 1] = e
  OBVIOUS

LEMMA EvenPred ==
    ASSUME NEW n \in Nat, NEW i \in 1 .. n, i % 2 = 0
    PROVE  i - 1 \in 1 .. n
  OBVIOUS

\* What was alternating still is, whatever is put after it.
LEMMA AlternatesPrefix ==
    ASSUME NEW q \in Seq(Units), NEW e \in Units, Alternates(q), NEW i \in 1 .. Len(q)
    PROVE  LET r == Append(q, e)
           IN  \/ i % 2 = 0 /\ r[i] = <<r[i - 1][1], r[i - 1][2], "endl">>
               \/ i % 2 = 1 /\ r[i][3] = "text"
  <1>1. \A j \in 1 .. Len(q) : Append(q, e)[j] = q[j]
    BY AppendUnit
  <1>2. CASE i % 2 = 0
    <2>1. i - 1 \in 1 .. Len(q)
      BY <1>2, EvenPred
    <2>2. q[i] = <<q[i - 1][1], q[i - 1][2], "endl">>
      BY <1>2 DEF Alternates
    <2> QED
      BY <1>1, <1>2, <2>1, <2>2
  <1>3. CASE i % 2 # 0
    BY <1>1, <1>3 DEF Alternates
  <1> QED
    BY <1>2, <1>3

\* A text put after a whole line.
LEMMA AppendText ==
    ASSUME NEW q \in Seq(Units), NEW e \in Units,
           Alternates(q), Len(q) % 2 = 0, e[3] = "text"
    PROVE  /\ Alternates(Append(q, e)) /\ Len(Append(q, e)) % 2 = 1
           /\ Append(q, e)[Len(Append(q, e))] = e
  <1> DEFINE r == Append(q, e)
  <1>1. Len(r) = Len(q) + 1 /\ r[Len(q) + 1] = e /\ Len(q) \in Nat
    BY AppendUnit
  <1>2. Len(r) % 2 = 1
    BY <1>1, Parity
  <1>3. ASSUME NEW i \in 1 .. Len(r)
        PROVE  \/ i % 2 = 0 /\ r[i] = <<r[i - 1][1], r[i - 1][2], "endl">>
               \/ i % 2 = 1 /\ r[i][3] = "text"
    <2>1. CASE i \in 1 .. Len(q)
      BY <2>1, AlternatesPrefix
    <2>2. CASE i = Len(q) + 1
      BY <1>1, <1>2, <2>2
    <2> QED
      BY <1>1, <2>1, <2>2
  <1> QED
    BY <1>1, <1>2, <1>3 DEF Alternates

\* An end of line put after its text.
LEMMA AppendEndl ==
    ASSUME NEW q \in Seq(Units), NEW e \in Units, Alternates(q), Len(q) % 2 = 1,
           e = <<q[Len(q)][1], q[Len(q)][2], "endl">>
    PROVE  Alternates(Append(q, e)) /\ Len(Append(q, e)) % 2 # 1
  <1> DEFINE r == Append(q, e)
  <1>1. /\ Len(r) = Len(q) + 1 /\ r[Len(q) + 1] = e /\ Len(q) \in Nat
        /\ \A j \in 1 .. Len(q) : r[j] = q[j]
    BY AppendUnit
  <1>2. Len(r) % 2 = 0
    BY <1>1, Parity
  <1>3. ASSUME NEW i \in 1 .. Len(r)
        PROVE  \/ i % 2 = 0 /\ r[i] = <<r[i - 1][1], r[i - 1][2], "endl">>
               \/ i % 2 = 1 /\ r[i][3] = "text"
    <2>1. CASE i \in 1 .. Len(q)
      BY <2>1, AlternatesPrefix
    <2>2. CASE i = Len(q) + 1
      <3>1. i - 1 = Len(q) /\ Len(q) # 0
        BY <1>1, <2>2
      <3>2. r[i - 1] = q[Len(q)]
        BY <1>1, <3>1
      <3> QED
        BY <1>1, <1>2, <2>2, <3>2
    <2> QED
      BY <1>1, <2>1, <2>2
  <1> QED
    BY <1>1, <1>2, <1>3 DEF Alternates

LEMMA InitInv == Init => BaseInv /\ SingleInv /\ TextInv
  <1> SUFFICES ASSUME Init PROVE BaseInv /\ SingleInv /\ TextInv
    OBVIOUS
  <1> USE FilesAssumption, BoundsAssumption, ThreadsAssumption
  <1>1. BaseInv
    BY DEF Init, BaseInv, TypeOK, Levels, ERROR, INFO, DEBUG, Units
  <1>2. SingleInv
    BY DEF Init, SingleInv
  <1>3. TextInv
    BY DEF Init, TextInv, Alternates
  <1> QED
    BY <1>1, <1>2, <1>3

-----------------------------------------------------------------------------

\* What a step puts into a file.
LEMMA PutType ==
    ASSUME BaseInv, NEW u \in Units, Put(u)
    PROVE  /\ text' \in [Files -> Seq(Units)]
           /\ open \in Files =>
                /\ text[open] \in Seq(Units) /\ text'[open] = Append(text[open], u)
                /\ \A f \in Files : f # open => text'[f] = text[f]
           /\ open = "none" => text' = text
  <1>1. CASE open \in Files
    <2>1. text[open] \in Seq(Units) /\ text' = [text EXCEPT ![open] = Append(@, u)]
      BY <1>1, FilesAssumption DEF BaseInv, Put
    <2>2. Append(text[open], u) \in Seq(Units)
      BY <2>1, AppendUnit
    <2> QED
      BY <1>1, <2>1, <2>2, FilesAssumption DEF BaseInv
  <1>2. CASE open = "none"
    BY <1>2, FilesAssumption DEF Put, BaseInv
  <1> QED
    BY <1>1, <1>2 DEF BaseInv, TypeOK

\* The values of the variables, and who holds the mutexes.
LEMMA BaseStep == BaseInv /\ [Next]_vars => BaseInv'
  <1> SUFFICES ASSUME BaseInv, [Next]_vars PROVE BaseInv'
    OBVIOUS
  <1> USE FilesAssumption, BoundsAssumption, ThreadsAssumption
  <1> USE DEF BaseInv, TypeOK, Levels, ERROR, INFO, DEBUG
  <1>1. ASSUME NEW t \in Threads, NEW l \in Levels, Load(t, l) PROVE BaseInv'
    <2>1. msg[t][1] \in 0 .. MaxWrites /\ msg[t][1] < MaxWrites
      BY <1>1 DEF Load
    <2>2. /\ <<msg[t][1] + 1, l>> \in (0 .. MaxWrites) \X Levels
          /\ <<msg[t][1] + 1, l>>[1] >= 1
      BY <2>1
    <2>3. msg' = [msg EXCEPT ![t] = <<msg[t][1] + 1, l>>]
      BY <1>1 DEF Load
    <2>4. /\ msg' \in [Threads -> (0 .. MaxWrites) \X Levels]
          /\ \A u \in Threads : pc'[u] # "idle" => msg'[u][1] >= 1
      BY <1>1, <2>2, <2>3 DEF Load, Goto
    <2> QED
      BY <1>1, <2>4 DEF Load, single, logger, Goto
  <1>2. ASSUME NEW t \in Threads, LockInstance(t) PROVE BaseInv'
    BY <1>2 DEF LockInstance, single, logger, Goto
  <1>3. ASSUME NEW t \in Threads, Recheck(t) PROVE BaseInv'
    BY <1>3 DEF Recheck, single, logger, Goto
  <1>4. ASSUME NEW t \in Threads, Construct(t) PROVE BaseInv'
    BY <1>4 DEF Construct, single, logger, Goto
  <1>5. ASSUME NEW t \in Threads, ConstructThrows(t) PROVE BaseInv'
    BY <1>5 DEF ConstructThrows, single, logger, Goto
  <1>6. ASSUME NEW t \in Threads, Publish(t) PROVE BaseInv'
    BY <1>6 DEF Publish, single, logger, Goto
  <1>7. ASSUME NEW t \in Threads, TestLevel(t) PROVE BaseInv'
    BY <1>7 DEF TestLevel, single, logger, Goto
  <1>8. ASSUME NEW t \in Threads, LockLog(t) PROVE BaseInv'
    BY <1>8 DEF LockLog, single, logger, Goto
  <1>9. ASSUME NEW t \in Threads, PutText(t) PROVE BaseInv'
    <2>1. <<t, msg[t][1], "text">> \in Units
      BY <1>9 DEF PutText, Units
    <2>2. text' \in [Files -> Seq(Units)]
      BY <1>9, <2>1, PutType DEF PutText
    <2>3. lost' \subseteq Threads \X (1 .. MaxWrites)
      BY <1>9 DEF PutText
    <2>4. pc' \in [Threads -> {"idle", "lock", "recheck", "construct", "publish",
                               "level", "lockLog", "text", "endl"}]
      BY <1>9 DEF PutText, Goto
    <2>5. \A u \in Threads : /\ pc'[u] # "idle" => msg'[u][1] >= 1
                             /\ pc'[u] \in {"recheck", "construct", "publish"} => sMutex' = u
                             /\ pc'[u] \in {"text", "endl"} => mMutex' = u
      BY <1>9 DEF PutText, single, Goto
    <2> QED
      BY <1>9, <2>2, <2>3, <2>4, <2>5 DEF PutText, single, Units
  <1>10. ASSUME NEW t \in Threads, PutEndl(t) PROVE BaseInv'
    <2>1. <<t, msg[t][1], "endl">> \in Units
      BY <1>10 DEF PutEndl, Units
    <2>2. text' \in [Files -> Seq(Units)]
      BY <1>10, <2>1, PutType DEF PutEndl
    <2> QED
      BY <1>10, <2>2 DEF PutEndl, single, Goto, Units
  <1>11. ASSUME NEW l \in Levels, SetLoggerLevel(l) PROVE BaseInv'
    BY <1>11 DEF SetLoggerLevel, single, logger, Goto
  <1>12. ASSUME NEW f \in Files, SetFileName(f) PROVE BaseInv'
    BY <1>12 DEF SetFileName, single, logger, Goto
  <1>13. CASE UNCHANGED vars
    BY <1>13 DEF vars, single, logger
  <1> QED
    BY <1>1, <1>2, <1>3, <1>4, <1>5, <1>6, <1>7, <1>8, <1>9, <1>10, <1>11, <1>12, <1>13
    DEF Next, GetInstance, Write

\* There is one Logger.
LEMMA SingleStep == BaseInv /\ SingleInv /\ [Next]_vars => SingleInv'
  <1> SUFFICES ASSUME BaseInv, SingleInv, [Next]_vars PROVE SingleInv'
    OBVIOUS
  <1> USE ThreadsAssumption
  <1> USE DEF BaseInv, TypeOK, SingleInv
  <1>1. ASSUME NEW t \in Threads, NEW l \in Levels, Load(t, l) PROVE SingleInv'
    BY <1>1 DEF Load, single, logger, Goto
  <1>2. ASSUME NEW t \in Threads, LockInstance(t) PROVE SingleInv'
    BY <1>2 DEF LockInstance, single, logger, Goto
  <1>3. ASSUME NEW t \in Threads, Recheck(t) PROVE SingleInv'
    BY <1>3 DEF Recheck, single, logger, Goto
  <1>4. ASSUME NEW t \in Threads, Construct(t) PROVE SingleInv'
    BY <1>4 DEF Construct, single, logger, Goto
  <1>5. ASSUME NEW t \in Threads, ConstructThrows(t) PROVE SingleInv'
    BY <1>5 DEF ConstructThrows, single, logger, Goto
  <1>6. ASSUME NEW t \in Threads, Publish(t) PROVE SingleInv'
    BY <1>6 DEF Publish, single, logger, Goto
  <1>7. ASSUME NEW t \in Threads, TestLevel(t) PROVE SingleInv'
    BY <1>7 DEF TestLevel, single, logger, Goto
  <1>8. ASSUME NEW t \in Threads, LockLog(t) PROVE SingleInv'
    BY <1>8 DEF LockLog, single, logger, Goto
  <1>9. ASSUME NEW t \in Threads, PutText(t) PROVE SingleInv'
    BY <1>9 DEF PutText, single, logger, Goto
  <1>10. ASSUME NEW t \in Threads, PutEndl(t) PROVE SingleInv'
    BY <1>10 DEF PutEndl, single, logger, Goto
  <1>11. ASSUME NEW l \in Levels, SetLoggerLevel(l) PROVE SingleInv'
    BY <1>11 DEF SetLoggerLevel, single, logger, Goto
  <1>12. ASSUME NEW f \in Files, SetFileName(f) PROVE SingleInv'
    BY <1>12 DEF SetFileName, single, logger, Goto
  <1>13. CASE UNCHANGED vars
    BY <1>13 DEF vars, single, logger
  <1> QED
    BY <1>1, <1>2, <1>3, <1>4, <1>5, <1>6, <1>7, <1>8, <1>9, <1>10, <1>11, <1>12, <1>13
    DEF Next, GetInstance, Write

\* A step that leaves the files alone, and the thread at "endl" if there is one.
LEMMA TextFrame ==
    ASSUME BaseInv, TextInv, UNCHANGED <<text, open>>,
           mMutex \in Threads => mMutex' = mMutex,
           \A t \in Threads : pc[t] = "endl" => pc'[t] = "endl" /\ msg'[t] = msg[t],
           \A t \in Threads : pc'[t] = "endl" => pc[t] = "endl"
    PROVE  TextInv'
  BY DEF BaseInv, TypeOK, TextInv

\* Lines are whole.
LEMMA TextStep == BaseInv /\ SingleInv /\ TextInv /\ [Next]_vars => TextInv'
  <1> SUFFICES ASSUME BaseInv, SingleInv, TextInv, [Next]_vars PROVE TextInv'
    OBVIOUS
  <1> USE ThreadsAssumption, FilesAssumption
  <1>1. ASSUME NEW t \in Threads, NEW l \in Levels, Load(t, l) PROVE TextInv'
    BY <1>1, TextFrame DEF BaseInv, TypeOK, Load, single, logger, Goto
  <1>2. ASSUME NEW t \in Threads, LockInstance(t) \/ Recheck(t) \/ Publish(t) \/ ConstructThrows(t)
        PROVE  TextInv'
    BY <1>2, TextFrame
    DEF BaseInv, TypeOK, LockInstance, Recheck, Publish, ConstructThrows, single, logger, Goto
  <1>3. ASSUME NEW t \in Threads, Construct(t) PROVE TextInv'
    <2>1. \A u \in Threads : pc[u] # "endl"
      BY <1>3 DEF SingleInv, Construct
    <2>2. \A f \in Files : Len(text[f]) % 2 # 1
      BY <2>1 DEF TextInv
    <2>3. text' = text /\ \A u \in Threads : pc'[u] # "endl"
      BY <1>3, <2>1 DEF Construct, Goto, BaseInv, TypeOK
    <2> QED
      BY <2>2, <2>3 DEF TextInv
  <1>4. ASSUME NEW t \in Threads, TestLevel(t) \/ LockLog(t) PROVE TextInv'
    BY <1>4, TextFrame DEF BaseInv, TypeOK, TestLevel, LockLog, single, logger, Goto
  <1>5. ASSUME NEW t \in Threads, PutText(t) PROVE TextInv'
    <2> DEFINE u == <<t, msg[t][1], "text">>
    <2>1. /\ u \in Units /\ Put(u) /\ mMutex = t /\ pc[t] = "text"
          /\ open' = open /\ mMutex' = t /\ msg' = msg /\ pc'[t] = "endl"
          /\ \A v \in Threads \ {t} : pc'[v] # "endl"
      <3>1. u \in Units
        BY <1>5, BoundsAssumption DEF PutText, Units, BaseInv, TypeOK
      <3> QED
        BY <1>5, <3>1 DEF PutText, Goto, BaseInv, TypeOK
    <2>2. \A f \in Files : Len(text[f]) % 2 = 0 /\ Len(text[f]) % 2 # 1
      <3>1. \A f \in Files : Len(text[f]) % 2 # 1
        BY <2>1 DEF TextInv
      <3>2. \A f \in Files : Len(text[f]) \in Nat
        BY DEF BaseInv
      <3> QED
        BY <3>1, <3>2, Parity
    <2>3. CASE open = "none"
      <3>1. text' = text
        BY <2>1, <2>3, PutType
      <3> QED
        BY <2>1, <2>2, <2>3, <3>1 DEF TextInv
    <2>4. CASE open \in Files
      <3>1. /\ text[open] \in Seq(Units) /\ text'[open] = Append(text[open], u)
            /\ \A f \in Files : f # open => text'[f] = text[f]
        BY <2>1, <2>4, PutType
      <3>2. /\ Alternates(text'[open]) /\ Len(text'[open]) % 2 = 1
            /\ text'[open][Len(text'[open])] = u
        <4>1. Alternates(text[open]) /\ Len(text[open]) % 2 = 0
          BY <2>2, <2>4 DEF TextInv
        <4> DEFINE q == text[open]
        <4>2. u[3] = "text"
          OBVIOUS
        <4> HIDE DEF u, q
        <4>3. /\ Alternates(Append(q, u)) /\ Len(Append(q, u)) % 2 = 1
              /\ Append(q, u)[Len(Append(q, u))] = u
          <5>1. q \in Seq(Units) /\ u \in Units /\ Alternates(q) /\ Len(q) % 2 = 0
            BY <2>1, <3>1, <4>1 DEF q
          <5> QED
            BY <5>1, <4>2, AppendText
        <4>4. text'[open] = Append(q, u)
          BY <3>1 DEF q
        <4> QED
          BY <4>3, <4>4, Zenon
      <3>3. \A f \in Files : Alternates(text'[f])
        BY <3>1, <3>2 DEF TextInv
      <3>4. \A f \in Files : Len(text'[f]) % 2 = 1 => f = open
        BY <2>2, <3>1, Zenon
      <3> HIDE DEF u
      <3>5. \A f \in Files : Len(text'[f]) % 2 = 1 =>
              /\ f = open' /\ mMutex' \in Threads /\ pc'[mMutex'] = "endl"
              /\ text'[f][Len(text'[f])] = <<mMutex', msg'[mMutex'][1], "text">>
        BY <2>1, <3>2, <3>4 DEF u
      <3> QED
        BY <2>1, <2>4, <3>2, <3>3, <3>5 DEF TextInv
    <2> QED
      BY <2>3, <2>4 DEF BaseInv, TypeOK
  <1>6. ASSUME NEW t \in Threads, PutEndl(t) PROVE TextInv'
    <2> DEFINE u == <<t, msg[t][1], "endl">>
    <2>1. /\ u \in Units /\ Put(u) /\ mMutex = t /\ pc[t] = "endl"
          /\ open' = open /\ \A v \in Threads : pc'[v] # "endl"
      <3>1. u \in Units
        BY <1>6, BoundsAssumption DEF PutEndl, Units, BaseInv, TypeOK
      <3> QED
        BY <1>6, <3>1 DEF PutEndl, Goto, BaseInv, TypeOK
    <2>2. \A f \in Files : f # open => Len(text[f]) % 2 # 1
      BY DEF TextInv
    <2>3. CASE open = "none"
      <3>1. text' = text
        BY <2>1, <2>3, PutType
      <3> QED
        BY <2>1, <2>2, <2>3, <3>1, FilesAssumption DEF TextInv
    <2>4. CASE open \in Files
      <3>1. /\ text[open] \in Seq(Units) /\ text'[open] = Append(text[open], u)
            /\ \A f \in Files : f # open => text'[f] = text[f]
        BY <2>1, <2>4, PutType
      <3>2. Alternates(text'[open]) /\ Len(text'[open]) % 2 # 1
        <4>1. /\ Alternates(text[open]) /\ Len(text[open]) % 2 = 1
              /\ text[open][Len(text[open])] = <<t, msg[t][1], "text">>
          BY <2>1, <2>4, FilesAssumption DEF TextInv
        <4>2. u = <<text[open][Len(text[open])][1], text[open][Len(text[open])][2], "endl">>
          BY <4>1
        <4> DEFINE q == text[open]
        <4> HIDE DEF u, q
        <4>3. Alternates(Append(q, u)) /\ Len(Append(q, u)) % 2 # 1
          <5>1. /\ q \in Seq(Units) /\ u \in Units /\ Alternates(q) /\ Len(q) % 2 = 1
                /\ u = <<q[Len(q)][1], q[Len(q)][2], "endl">>
            BY <2>1, <3>1, <4>1, <4>2 DEF q
          <5> QED
            BY <5>1, AppendEndl
        <4>4. text'[open] = Append(q, u)
          BY <3>1 DEF q
        <4> QED
          BY <4>3, <4>4, Zenon
      <3>3. \A f \in Files : Alternates(text'[f]) /\ Len(text'[f]) % 2 # 1
        <4>1. \A f \in Files : Alternates(text[f])
          BY DEF TextInv
        <4>2. ASSUME NEW f \in Files, f # open
              PROVE  Alternates(text'[f]) /\ Len(text'[f]) % 2 # 1
          <5>1. text'[f] = text[f]
            BY <3>1, <4>2
          <5> QED
            BY <2>2, <4>1, <4>2, <5>1, Zenon
        <4> QED
          BY <3>2, <4>2, Zenon
      <3> QED
        BY <2>1, <3>3 DEF TextInv
    <2> QED
      BY <2>3, <2>4 DEF BaseInv, TypeOK
  <1>7. ASSUME NEW l \in Levels, SetLoggerLevel(l) PROVE TextInv'
    BY <1>7, TextFrame DEF BaseInv, TypeOK, SetLoggerLevel, single, Goto
  <1>8. ASSUME NEW f \in Files, SetFileName(f) PROVE TextInv'
    <2>1. \A v \in Threads : pc[v] # "endl"
      BY <1>8 DEF SetFileName, BaseInv, TypeOK
    <2>2. \A g \in Files : Len(text[g]) % 2 # 1
      BY <2>1 DEF TextInv
    <2> QED
      BY <1>8, <2>1, <2>2 DEF SetFileName, TextInv
  <1>9. CASE UNCHANGED vars
    BY <1>9, TextFrame DEF vars
  <1> QED
    BY <1>1, <1>2, <1>3, <1>4, <1>5, <1>6, <1>7, <1>8, <1>9 DEF Next, GetInstance, Write

-----------------------------------------------------------------------------

\* The inductive invariant holds in every state.
THEOREM LoggingInvariant == Spec => [](BaseInv /\ SingleInv /\ TextInv)
  <1>1. BaseInv /\ SingleInv /\ TextInv /\ [Next]_vars => (BaseInv /\ SingleInv /\ TextInv)'
    BY BaseStep, SingleStep, TextStep
  <1> QED
    BY <1>1, InitInv, PTL DEF Spec

\* Type correctness of Logger and Singleton; whoever is past a lock holds its
\* mutex.
THEOREM LoggingTypeCorrect == Spec => []TypeOK
  <1>1. BaseInv => TypeOK
    BY DEF BaseInv
  <1> QED
    BY <1>1, LoggingInvariant, PTL

\* Singleton<Logger>::GetInstance gives all threads one Logger, which is never
\* replaced, however many construct it at once and however often that throws.
THEOREM OneLoggerForAll == Spec => []OneLogger
  <1>1. SingleInv => OneLogger
    BY DEF SingleInv, OneLogger
  <1> QED
    BY <1>1, LoggingInvariant, PTL

\* Logger::Write leaves whole lines in every file, whatever SetFileName does
\* between them.
THEOREM WholeLines == Spec => []LinesWhole
  <1>1. BaseInv /\ TextInv => LinesWhole
    <2> SUFFICES ASSUME BaseInv, TextInv, NEW f \in Files, NEW i \in DOMAIN text[f]
                 PROVE  \/ i % 2 = 0 /\ text[f][i] = <<text[f][i - 1][1], text[f][i - 1][2], "endl">>
                        \/ /\ i % 2 = 1 /\ text[f][i][3] = "text"
                           /\ i = Len(text[f]) => pc[text[f][i][1]] = "endl"
      BY DEF LinesWhole
    <2>1. i \in 1 .. Len(text[f])
      BY DEF BaseInv
    <2>2. \/ i % 2 = 0 /\ text[f][i] = <<text[f][i - 1][1], text[f][i - 1][2], "endl">>
          \/ i % 2 = 1 /\ text[f][i][3] = "text"
      BY <2>1 DEF TextInv, Alternates
    <2>3. ASSUME i % 2 = 1, i = Len(text[f]) PROVE pc[text[f][i][1]] = "endl"
      <3>1. text[f][i] = <<mMutex, msg[mMutex][1], "text">> /\ pc[mMutex] = "endl"
        BY <2>3 DEF TextInv
      <3> QED
        BY <3>1
    <2> QED
      BY <2>2, <2>3
  <1> QED
    BY <1>1, LoggingInvariant, PTL
=============================================================================
