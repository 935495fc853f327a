---------------------------- MODULE PluginsProofs ---------------------------
(***************************************************************************)
(* Theorems about Plugins, for any files in the directory and any sizes of *)
(* the kernel's queue and of a read.                                       *)
(*                                                                         *)
(* Every handle dlopen has given out is in m_libs or is the one the        *)
(* listener thread is about to push there; the rest is the order in which  *)
(* SoLoader is built and destroyed.  The lemmas are stated action by       *)
(* action, so that LifecycleProofs can use them of the composition.        *)
(***************************************************************************)
EXTENDS Plugins, TLAPS

-----------------------------------------------------------------------------
(* The inductive invariant.                                                *)

Events == Files \X {"IN_CREATE", "IN_CLOSE_WRITE"} \cup {Overflow}

\* The queue exceeds its bound by the overflow event only, which comes last.
QueueInv ==
    /\ queue \in Seq(Events)
    /\ Len(queue) <= QueueMax + 1
    /\ Len(queue) = QueueMax + 1 => queue[Len(queue)] = Overflow

\* The callback is in m_subs from its construction to its deletion, and nothing
\* is opened before it is there.
LoaderInv ==
    /\ subscribed <=> loader \in {"half", "alive", "closed"}
    /\ loader \in {"none", "half"} =>
         /\ listener \notin {"onload", "opened"}
         /\ \A f \in Files : libs[f] = 0 /\ refs[f] = 0 /\ ctors[f] = 0

\* The handle that OnLoad has got from dlopen and not yet added to m_libs.
Pending(f) == IF listener = "opened" /\ event = f THEN 1 ELSE 0

\* Handles are accounted for, and a plugin that is not mapped has not run.
HandleInv ==
    loader = "alive" =>
        \A f \in Files :
            /\ refs[f] = libs[f] + Pending(f)
            /\ ctors[f] <= 1 /\ (refs[f] = 0 => ctors[f] = 0)

PluginsInv == TypeOK /\ QueueInv /\ LoaderInv /\ HandleInv

-----------------------------------------------------------------------------
(* The kernel's queue.                                                     *)

LEMMA QueueElement ==
    ASSUME NEW q \in Seq(Events), NEW i \in 1 .. Len(q) PROVE q[i] \in Events
  OBVIOUS

LEMMA PostQueue ==
    ASSUME QueueInv, NEW f \in Files, NEW mask \in {"IN_CREATE", "IN_CLOSE_WRITE"}, Post(f, mask)
    PROVE  QueueInv'
  <1> DEFINE e == IF Len(queue) < QueueMax THEN <<f, mask>> ELSE Overflow
  <1>1. e \in Events
    BY DEF Events
  <1>2. CASE queue' = queue
    BY <1>2 DEF QueueInv
  <1>3. CASE queue' = Append(queue, e) /\ Len(queue) <= QueueMax
    <2> HIDE DEF e
    <2>1. queue \in Seq(Events) /\ Len(queue) \in Nat /\ QueueMax \in Nat \ {0}
      BY EventsAssumption DEF QueueInv
    <2>2. /\ queue' \in Seq(Events) /\ Len(queue') = Len(queue) + 1
          /\ queue'[Len(queue) + 1] = e
      BY <1>1, <1>3, <2>1
    <2>3. Len(queue) = QueueMax => e = Overflow
      BY <2>1 DEF e
    <2> QED
      BY <1>3, <2>1, <2>2, <2>3 DEF QueueInv
  <1>4. queue' = queue \/ (queue' = Append(queue, e) /\ Len(queue) <= QueueMax)
    <2>1. queue \in Seq(Events) /\ Len(queue) \in Nat /\ QueueMax \in Nat \ {0}
      BY EventsAssumption DEF QueueInv
    <2>2. queue' = queue \/ queue' = Append(queue, e)
      BY DEF Post
    <2>3. CASE Len(queue) = QueueMax + 1
      <3>1. Queued(Overflow) /\ e = Overflow
        BY <2>1, <2>3 DEF QueueInv, Queued
      <3> QED
        BY <3>1 DEF Post
    <2> QED
      BY <2>1, <2>2, <2>3 DEF QueueInv
  <1> HIDE DEF e
  <1> QED
    BY <1>2, <1>3, <1>4

LEMMA ReadQueue ==
    ASSUME QueueInv, queue # <<>>, NEW n \in 1 .. Len(queue),
           queue' = SubSeq(queue, n + 1, Len(queue))
    PROVE  QueueInv'
  <1>1. queue \in Seq(Events) /\ Len(queue) \in Nat /\ QueueMax \in Nat \ {0}
    BY EventsAssumption DEF QueueInv
  <1>2. queue' \in Seq(Events) /\ Len(queue') = Len(queue) - n
    BY <1>1
  <1>3. Len(queue') \in Nat /\ Len(queue') <= QueueMax
    BY <1>1, <1>2 DEF QueueInv
  <1>4. Len(queue') <= QueueMax + 1 /\ Len(queue') # QueueMax + 1
    BY <1>1, <1>3
  <1> QED
    BY <1>2, <1>4 DEF QueueInv

-----------------------------------------------------------------------------
(* The steps, one by one.                                                  *)

TypeParts ==
    /\ dir \in [Files -> {"absent", "partial", "whole"}] /\ rewrites \in 0 .. MaxRewrites
    /\ listener \in {"none", "reading", "notify", "onload", "opened", "crashed"}
    /\ event \in Files \cup {NoFile}
    /\ listener \in {"notify", "onload", "opened"} => event \in Named
    /\ subscribed \in BOOLEAN
    /\ loader \in {"none", "half", "alive", "closed", "freed"}
    /\ libs \in [Files -> Nat] /\ refs \in [Files -> Nat] /\ ctors \in [Files -> Nat]

LEMMA TypeSplit == QueueInv => (TypeOK <=> TypeParts)
  BY QueueElement DEF QueueInv, TypeOK, TypeParts, Events

LEMMA TypeSplitPrime == QueueInv' => (TypeOK' <=> TypeParts')
  <1>1. queue' \in Seq(Events) => \A i \in 1 .. Len(queue') : queue'[i] \in Events
    BY QueueElement
  <1> QED
    BY <1>1 DEF QueueInv, TypeOK, TypeParts, Events

\* Everything the loader's side is about.
Loaded == TypeParts /\ LoaderInv /\ HandleInv

LEMMA InvSplit == PluginsInv <=> Loaded /\ QueueInv
  BY TypeSplit DEF PluginsInv, Loaded

LEMMA InvSplitPrime == Loaded' /\ QueueInv' => PluginsInv'
  BY TypeSplitPrime DEF PluginsInv, Loaded

LEMMA DirectoryStep ==
    ASSUME PluginsInv, Directory PROVE PluginsInv'
  <1>1. Loaded /\ QueueInv
    BY InvSplit
  <1>2. PICK f \in Files : Create(f) \/ Finish(f) \/ Rewrite(f) \/ MoveIn(f)
    BY DEF Directory
  <1>3. /\ UNCHANGED <<listener, event, subscribed, loader, libs, refs, ctors>>
        /\ dir' \in [Files -> {"absent", "partial", "whole"}] /\ rewrites' \in 0 .. MaxRewrites
    BY <1>1, <1>2, EventsAssumption DEF Create, Finish, Rewrite, MoveIn, Loaded, TypeParts
  <1>4. Loaded'
    BY <1>1, <1>3 DEF Loaded, TypeParts, LoaderInv, HandleInv, Pending
  <1>5. QueueInv'
    <2>1. CASE UNCHANGED queue
      BY <1>1, <2>1 DEF QueueInv
    <2>2. CASE Post(f, "IN_CREATE") \/ Post(f, "IN_CLOSE_WRITE")
      BY <1>1, <2>2, PostQueue
    <2> QED
      BY <1>2, <2>1, <2>2 DEF Create, Finish, Rewrite, MoveIn
  <1> QED
    BY <1>4, <1>5, InvSplitPrime

LEMMA LoaderStep ==
    ASSUME PluginsInv, StartDirMonitor \/ Register \/ CallBackBuilt \/ CloseLibs \/ UnRegister
    PROVE  PluginsInv'
  <1>1. Loaded /\ QueueInv
    BY InvSplit
  <1>2. QueueInv'
    <2>1. UNCHANGED queue
      BY DEF StartDirMonitor, Register, CallBackBuilt, CloseLibs, UnRegister
    <2> QED
      BY <1>1, <2>1 DEF QueueInv
  <1>3. ASSUME StartDirMonitor PROVE Loaded'
    BY <1>1, <1>3 DEF StartDirMonitor, Loaded, TypeParts, LoaderInv, HandleInv, Pending
  <1>4. ASSUME Register PROVE Loaded'
    BY <1>1, <1>4 DEF Register, Subscribe, Loaded, TypeParts, LoaderInv, HandleInv
  <1>5. ASSUME CallBackBuilt PROVE Loaded'
    BY <1>1, <1>5 DEF CallBackBuilt, Loaded, TypeParts, LoaderInv, HandleInv, Pending
  <1>6. ASSUME CloseLibs PROVE Loaded'
    <2>1. \A f \in Files : refs[f] - libs[f] \in Nat
      BY <1>1, <1>6 DEF CloseLibs, Loaded, TypeParts, HandleInv, Pending
    <2> QED
      BY <1>1, <1>6, <2>1 DEF CloseLibs, Loaded, TypeParts, LoaderInv, HandleInv
  <1>7. ASSUME UnRegister PROVE Loaded'
    BY <1>1, <1>7 DEF UnRegister, Unsubscribe, Loaded, TypeParts, LoaderInv, HandleInv
  <1> QED
    BY <1>2, <1>3, <1>4, <1>5, <1>6, <1>7, InvSplitPrime

LEMMA ReadLoopStep ==
    ASSUME PluginsInv, ReadLoop PROVE PluginsInv'
  <1>1. Loaded /\ QueueInv
    BY InvSplit
  <1> DEFINE n == IF Len(queue) < ReadMax THEN Len(queue) ELSE ReadMax
             e == Head(queue)
  <1>2. queue \in Seq(Events) /\ queue # <<>> /\ Len(queue) \in Nat \ {0}
    BY <1>1 DEF QueueInv, ReadLoop
  <1>3. n \in 1 .. Len(queue) /\ e \in Events
    BY <1>2, EventsAssumption
  <1>4. /\ queue' = SubSeq(queue, n + 1, Len(queue)) /\ listener = "reading"
        /\ \/ e = Overflow /\ Goto("crashed")
           \/ e # Overflow /\ ~Filter(e[1]) /\ Goto("reading")
           \/ e # Overflow /\ Filter(e[1]) /\ listener' = "notify" /\ event' = e[1]
        /\ UNCHANGED <<dir, rewrites, subscribed, loader, libs, refs, ctors>>
    BY DEF ReadLoop
  <1> HIDE DEF n, e
  <1>5. QueueInv'
    BY <1>1, <1>2, <1>3, <1>4, ReadQueue
  <1>6. /\ listener' \in {"reading", "crashed", "notify"}
        /\ listener' = "notify" => event' \in Named
        /\ event' \in Files \cup {NoFile}
    BY <1>4, FilesAssumption DEF Goto, Filter
  <1>7. Loaded'
    BY <1>1, <1>4, <1>6 DEF Loaded, TypeParts, LoaderInv, HandleInv, Pending
  <1> QED
    BY <1>5, <1>7, InvSplitPrime

LEMMA ListenerStep ==
    ASSUME PluginsInv, Listener PROVE PluginsInv'
  <1>1. Loaded /\ QueueInv
    BY InvSplit
  <1>2. CASE ReadLoop
    BY <1>2, ReadLoopStep
  <1>3. ASSUME NotifyAll \/ NotifyHalf \/ DlOpen \/ DlOpenFails \/ PushBack PROVE QueueInv'
    <2>1. UNCHANGED queue
      BY <1>3 DEF NotifyAll, NotifyHalf, DlOpen, DlOpenFails, PushBack
    <2> QED
      BY <1>1, <2>1 DEF QueueInv
  <1>4. ASSUME NotifyAll \/ NotifyHalf \/ DlOpenFails PROVE Loaded'
    BY <1>1, <1>4 DEF NotifyAll, NotifyHalf, DlOpenFails, Goto, Loaded, TypeParts, LoaderInv,
                      HandleInv, Pending
  <1>5. ASSUME DlOpen PROVE Loaded'
    <2>1. event \in Files /\ event \in Named
      BY <1>1, <1>5, FilesAssumption DEF DlOpen, Loaded, TypeParts
    <2>2. /\ listener = "onload" /\ listener' = "opened" /\ event' = event
          /\ refs' = [refs EXCEPT ![event] = @ + 1]
          /\ ctors' = [ctors EXCEPT ![event] = IF refs[event] = 0 THEN @ + 1 ELSE @]
          /\ UNCHANGED <<dir, rewrites, subscribed, loader, libs>>
      BY <1>5 DEF DlOpen, Goto, InitPlugin
    <2>3. TypeParts'
      BY <1>1, <2>1, <2>2 DEF Loaded, TypeParts
    <2>4. LoaderInv'
      BY <1>1, <2>2 DEF Loaded, LoaderInv
    <2>5. HandleInv'
      <3> SUFFICES ASSUME loader = "alive", NEW f \in Files
                   PROVE  /\ refs'[f] = libs[f] + Pending(f)'
                          /\ ctors'[f] <= 1 /\ (refs'[f] = 0 => ctors'[f] = 0)
        BY <2>2 DEF HandleInv
      <3>1. /\ refs[f] = libs[f] /\ ctors[f] <= 1 /\ (refs[f] = 0 => ctors[f] = 0)
            /\ refs[f] \in Nat /\ libs[f] \in Nat /\ ctors[f] \in Nat
        BY <1>1, <2>2 DEF Loaded, TypeParts, HandleInv, Pending
      <3>2. CASE f = event
        <4>1. /\ refs'[f] = refs[f] + 1 /\ Pending(f)' = 1
              /\ ctors'[f] = IF refs[f] = 0 THEN ctors[f] + 1 ELSE ctors[f]
          BY <1>1, <2>1, <2>2, <3>2 DEF Loaded, TypeParts, Pending
        <4> QED
          BY <3>1, <4>1
      <3>3. CASE f # event
        <4>1. refs'[f] = refs[f] /\ Pending(f)' = 0 /\ ctors'[f] = ctors[f]
          BY <1>1, <2>1, <2>2, <3>3 DEF Loaded, TypeParts, Pending
        <4> QED
          BY <3>1, <4>1
      <3> QED
        BY <3>2, <3>3
    <2> QED
      BY <2>3, <2>4, <2>5 DEF Loaded
  <1>6. ASSUME PushBack PROVE Loaded'
    <2>1. event \in Files
      BY <1>1, <1>6, FilesAssumption DEF PushBack, Loaded, TypeParts
    <2>2. /\ listener = "opened" /\ listener' = "reading" /\ event' = NoFile
          /\ libs' = [libs EXCEPT ![event] = IF loader = "freed" THEN @ ELSE @ + 1]
          /\ UNCHANGED <<dir, rewrites, subscribed, loader, refs, ctors>>
      BY <1>6 DEF PushBack, Goto
    <2>3. TypeParts'
      BY <1>1, <2>1, <2>2 DEF Loaded, TypeParts
    <2>4. LoaderInv'
      BY <1>1, <2>2 DEF Loaded, LoaderInv
    <2>5. HandleInv'
      BY <1>1, <2>1, <2>2 DEF Loaded, TypeParts, HandleInv, Pending
    <2> QED
      BY <2>3, <2>4, <2>5 DEF Loaded
  <1> QED
    BY <1>2, <1>3, <1>4, <1>5, <1>6, InvSplitPrime DEF Listener

LEMMA PluginsInit == Init => PluginsInv
  <1> SUFFICES ASSUME Init PROVE PluginsInv
    OBVIOUS
  <1>1. QueueInv
    BY EventsAssumption DEF Init, QueueInv
  <1>2. Loaded
    <2>1. TypeParts
      <3>1. rewrites \in 0 .. MaxRewrites
        BY EventsAssumption DEF Init
      <3>2. /\ dir \in [Files -> {"absent", "partial", "whole"}]
            /\ libs \in [Files -> Nat] /\ refs \in [Files -> Nat] /\ ctors \in [Files -> Nat]
        BY DEF Init
      <3> QED
        BY <3>1, <3>2 DEF Init, TypeParts
    <2>2. LoaderInv /\ HandleInv
      BY DEF Init, LoaderInv, HandleInv
    <2> QED
      BY <2>1, <2>2 DEF Loaded
  <1> QED
    BY <1>1, <1>2, InvSplit

-----------------------------------------------------------------------------
(* The theorems.                                                           *)

\* The invariant is inductive, for every directory, queue and order of the two
\* threads.
THEOREM PluginsInvariant == Spec => []PluginsInv
  <1>1. PluginsInv /\ [Next]_vars => PluginsInv'
    <2> SUFFICES ASSUME PluginsInv, [Next]_vars PROVE PluginsInv'
      OBVIOUS
    <2>1. CASE UNCHANGED vars
      BY <2>1 DEF vars, PluginsInv, TypeOK, QueueInv, LoaderInv, HandleInv, Pending
    <2>2. CASE Next
      BY <2>2, DirectoryStep, LoaderStep, ListenerStep DEF Next
    <2> QED
      BY <2>1, <2>2
  <1> QED
    BY PluginsInit, <1>1, PTL DEF Spec

\* Types, and in particular: the queue exceeds its limit by one overflow event
\* at most, and ~SoLoader never closes a handle that is not open.
THEOREM PluginsTypeCorrect == Spec => []TypeOK
  <1>1. PluginsInv => TypeOK
    BY DEF PluginsInv
  <1> QED
    BY PluginsInvariant, <1>1, PTL

\* Every dlopen handle is in m_libs once, or about to be, and no plugin's
\* constructor functions run twice while SoLoader lives.
THEOREM HandlesAreBalanced == Spec => []HandlesBalanced
  <1>1. PluginsInv => HandlesBalanced
    BY DEF PluginsInv, HandleInv, HandlesBalanced, Pending
  <1> QED
    BY PluginsInvariant, <1>1, PTL

\* Only a notification under way when SoLoader's callback is deleted reaches
\* the destroyed SoLoader.
THEOREM NoNotifyAfterUnregister == Spec => NoLateNotify
  <1>1. PluginsInv /\ [Next]_vars =>
          [loader = "freed" /\ listener' = "onload" => listener = "onload"]_vars
    <2> SUFFICES ASSUME PluginsInv, Next, loader = "freed", listener' = "onload"
                 PROVE  listener = "onload"
      OBVIOUS
    <2>1. ~subscribed
      BY DEF PluginsInv, LoaderInv
    <2>2. CASE Listener
      BY <2>1, <2>2 DEF Listener, ReadLoop, NotifyAll, NotifyHalf, DlOpen, DlOpenFails, PushBack, Goto
    <2>3. CASE ~Listener
      BY <2>3 DEF Next, Directory, Create, Finish, Rewrite, MoveIn, StartDirMonitor, Register,
                  CallBackBuilt, CloseLibs, UnRegister
    <2> QED
      BY <2>2, <2>3
  <1> QED
    BY PluginsInvariant, <1>1, PTL DEF Spec, NoLateNotify
=============================================================================
