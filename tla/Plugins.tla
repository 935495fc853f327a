------------------------------- MODULE Plugins ------------------------------
(***************************************************************************)
(* The plugin loader: PNP, with DirMonitor's listener thread (the loop of  *)
(* the inotify wrapper), the Dispatcher it notifies, and SoLoader, which   *)
(* is subscribed to the Dispatcher and destroyed by another thread.        *)
(*                                                                         *)
(* The kernel posts an event when a file is created in the directory and   *)
(* one when a writer closes it; a file that is moved in posts none.  A     *)
(* plugin stays mapped as long as one of its dlopen handles is not closed. *)
(***************************************************************************)
EXTENDS Naturals, Sequences

CONSTANTS
    Files,       \* files that may appear in the directory
    Named,       \* those whose name contains ".so"
    Valid,       \* those that are shared objects once they are written
    ReadMax,     \* events that fit into the buffer of one read
    QueueMax,    \* bound of the kernel's event queue
    MaxRewrites  \* bound: files overwritten in a behaviour

ASSUME FilesAssumption  == Named \subseteq Files /\ Valid \subseteq Files
ASSUME EventsAssumption == ReadMax \in Nat \ {0} /\ QueueMax \in Nat \ {0} /\ MaxRewrites \in Nat

VARIABLES
    dir,         \* the directory
    rewrites,    \* files overwritten so far
    queue,       \* events the kernel holds for the inotify descriptor
    listener,    \* where the listener thread is; "crashed": std::terminate
    event,       \* the file whose event it handles
    subscribed,  \* SoLoader's callback is in m_subs
    loader,      \* SoLoader's life
    libs,        \* m_libs: handles of each file
    refs,        \* dlopen handles of each file not yet closed
    ctors        \* times each plugin's constructor functions have run

vars == <<dir, rewrites, queue, listener, event, subscribed, loader, libs, refs, ctors>>

NoFile   == "none"
Overflow == <<"none", "overflow">>

Init ==
    /\ dir = [f \in Files |-> "absent"] /\ rewrites = 0
    /\ queue = <<>>
    /\ listener = "none" /\ event = NoFile
    /\ subscribed = FALSE /\ loader = "none"
    /\ libs = [f \in Files |-> 0]
    /\ refs = [f \in Files |-> 0] /\ ctors = [f \in Files |-> 0]

-----------------------------------------------------------------------------
(* The directory and the kernel.                                           *)

\* An event that a full queue has no room for is replaced by one overflow event;
\* one like the last in the queue is merged with it.
Queued(e) == \E i \in DOMAIN queue : queue[i] = e
Merged(e) == queue # <<>> /\ queue[Len(queue)] = e

\* Nothing is posted before the watch exists.
Post(f, mask) ==
    LET e    == IF Len(queue) < QueueMax THEN <<f, mask>> ELSE Overflow
        skip == IF e = Overflow THEN Queued(e) ELSE Merged(e)
    IN  queue' = IF listener = "none" \/ skip THEN queue ELSE Append(queue, e)

Create(f) ==
    /\ dir[f] = "absent"
    /\ dir' = [dir EXCEPT ![f] = "partial"]
    /\ Post(f, "IN_CREATE")
    /\ UNCHANGED <<rewrites, listener, event, subscribed, loader, libs, refs, ctors>>

Finish(f) ==
    /\ dir[f] = "partial"
    /\ dir' = [dir EXCEPT ![f] = "whole"]
    /\ Post(f, "IN_CLOSE_WRITE")
    /\ UNCHANGED <<rewrites, listener, event, subscribed, loader, libs, refs, ctors>>

\* The file is opened for writing again, and truncated.
Rewrite(f) ==
    /\ dir[f] = "whole" /\ rewrites < MaxRewrites
    /\ dir' = [dir EXCEPT ![f] = "partial"] /\ rewrites' = rewrites + 1
    /\ UNCHANGED <<queue, listener, event, subscribed, loader, libs, refs, ctors>>

MoveIn(f) ==
    /\ dir[f] = "absent"
    /\ dir' = [dir EXCEPT ![f] = "whole"]
    /\ UNCHANGED <<rewrites, queue, listener, event, subscribed, loader, libs, refs, ctors>>

Directory == \E f \in Files : Create(f) \/ Finish(f) \/ Rewrite(f) \/ MoveIn(f)

-----------------------------------------------------------------------------
(* The thread that constructs and destroys PNP: m_dirMonitor, whose        *)
(* listener runs from then on, before m_soLoader; SoLoader goes first.     *)

StartDirMonitor ==
    /\ listener = "none"
    /\ listener' = "reading"
    /\ UNCHANGED <<dir, rewrites, queue, event, subscribed, loader, libs, refs, ctors>>

\* Dispatcher::Register and UnRegister of SoLoader's callback.
Subscribe == subscribed' = TRUE

\* Mutant of Unsubscribe: the callback stays in m_subs.
UnsubscribeNot == UNCHANGED subscribed

Unsubscribe == subscribed' = FALSE

\* The base class of SoLoader's callback registers it before the rest of it is
\* constructed.
Register ==
    /\ listener # "none" /\ loader = "none"
    /\ loader' = "half" /\ Subscribe
    /\ UNCHANGED <<dir, rewrites, queue, listener, event, libs, refs, ctors>>

CallBackBuilt ==
    /\ loader = "half"
    /\ loader' = "alive"
    /\ UNCHANGED <<dir, rewrites, queue, listener, event, subscribed, libs, refs, ctors>>

\* ~SoLoader: dlclose of every handle in m_libs.
CloseLibs ==
    /\ loader = "alive"
    /\ loader' = "closed"
    /\ refs' = [f \in Files |-> refs[f] - libs[f]]
    /\ UNCHANGED <<dir, rewrites, queue, listener, event, subscribed, libs, ctors>>

\* The callback is deleted, which takes it out of m_subs (twice: the base class
\* does the same), and m_libs is freed.  ~DirMonitor then joins the listener,
\* whose loop nothing ends.
UnRegister ==
    /\ loader = "closed"
    /\ loader' = "freed" /\ Unsubscribe
    /\ libs' = [f \in Files |-> 0]
    /\ UNCHANGED <<dir, rewrites, queue, listener, event, refs, ctors>>

-----------------------------------------------------------------------------
(* The listener thread.                                                    *)

\* The listener has thrown, out of its thread.
Crashed == listener = "crashed"

\* The listener goes on to p.
Goto(p) == listener' = p /\ event' = IF p \in {"reading", "crashed"} THEN NoFile ELSE event

\* The handler passes on the names that contain ".so", whatever happened to the
\* file.
Filter(f) == f \in Named

\* Mutant of ReadLoop: read returns the oldest of several events last.
ReadLoopLast ==
    /\ listener = "reading" /\ queue # <<>>
    /\ LET n == IF Len(queue) < ReadMax THEN Len(queue) ELSE ReadMax
           e == queue[n]
       IN  /\ queue' = SubSeq(queue, n + 1, Len(queue))
           /\ \/ e = Overflow /\ Goto("crashed")
              \/ e # Overflow /\ ~Filter(e[1]) /\ Goto("reading")
              \/ e # Overflow /\ Filter(e[1]) /\ listener' = "notify" /\ event' = e[1]
    /\ UNCHANGED <<dir, rewrites, subscribed, loader, libs, refs, ctors>>

\* One read takes every event that fits into the buffer, and the loop looks at
\* the first.  The overflow event belongs to no watch, and throws.
ReadLoop ==
    /\ listener = "reading" /\ queue # <<>>
    /\ LET n == IF Len(queue) < ReadMax THEN Len(queue) ELSE ReadMax
           e == Head(queue)
       IN  /\ queue' = SubSeq(queue, n + 1, Len(queue))
           /\ \/ e = Overflow /\ Goto("crashed")
              \/ e # Overflow /\ ~Filter(e[1]) /\ Goto("reading")
              \/ e # Overflow /\ Filter(e[1]) /\ listener' = "notify" /\ event' = e[1]
    /\ UNCHANGED <<dir, rewrites, subscribed, loader, libs, refs, ctors>>

\* The loop over m_subs, which another thread may be changing.
NotifyAll ==
    /\ listener = "notify" /\ loader # "half"
    /\ Goto(IF subscribed THEN "onload" ELSE "reading")
    /\ UNCHANGED <<dir, rewrites, queue, subscribed, loader, libs, refs, ctors>>

\* Notify of a callback that is not yet constructed is a pure virtual call.
NotifyHalf ==
    /\ listener = "notify" /\ loader = "half"
    /\ Goto("crashed")
    /\ UNCHANGED <<dir, rewrites, queue, subscribed, loader, libs, refs, ctors>>

\* A plugin that is mapped is found by its path; another is read from its file.
Loadable(f) == refs[f] > 0 \/ (dir[f] = "whole" /\ f \in Valid)

\* dlopen runs the constructor functions of a plugin it maps.
InitPlugin(f) == ctors' = [ctors EXCEPT ![f] = IF refs[f] = 0 THEN @ + 1 ELSE @]

DlOpen ==
    /\ listener = "onload" /\ Loadable(event)
    /\ refs' = [refs EXCEPT ![event] = @ + 1]
    /\ InitPlugin(event)
    /\ Goto("opened")
    /\ UNCHANGED <<dir, rewrites, queue, subscribed, loader, libs>>

\* Its failure is thrown through Notify and out of the thread; so may be
\* anything that comes of an OnLoad on a SoLoader that was destroyed meanwhile.
DlOpenFails ==
    /\ listener = "onload"
    /\ ~Loadable(event) \/ loader = "freed"
    /\ Goto("crashed")
    /\ UNCHANGED <<dir, rewrites, queue, subscribed, loader, libs, refs, ctors>>

\* Mutant of PushBack: the handle is closed again at once.
PushBackCloses ==
    /\ listener = "opened"
    /\ refs' = [refs EXCEPT ![event] = @ - 1]
    /\ Goto("reading")
    /\ UNCHANGED <<dir, rewrites, queue, subscribed, loader, libs, ctors>>

\* The handle is added to m_libs; to freed memory, it is lost.
PushBack ==
    /\ listener = "opened"
    /\ libs' = [libs EXCEPT ![event] = IF loader = "freed" THEN @ ELSE @ + 1]
    /\ Goto("reading")
    /\ UNCHANGED <<dir, rewrites, queue, subscribed, loader, refs, ctors>>

Listener == ReadLoop \/ NotifyAll \/ NotifyHalf \/ DlOpen \/ DlOpenFails \/ PushBack

-----------------------------------------------------------------------------

\* std::terminate ends every thread.
Next ==
    /\ ~Crashed
    /\ \/ Directory
       \/ StartDirMonitor \/ Register \/ CallBackBuilt \/ CloseLibs \/ UnRegister
       \/ Listener

Spec     == Init /\ [][Next]_vars
FairSpec == Spec /\ WF_vars(~Crashed /\ Listener)

-----------------------------------------------------------------------------
(* Properties.                                                             *)

\* The values every variable ranges over.
TypeOK ==
    /\ dir \in [Files -> {"absent", "partial", "whole"}] /\ rewrites \in 0 .. MaxRewrites
    /\ Len(queue) <= QueueMax + 1
    /\ \A i \in 1 .. Len(queue) :
         queue[i] \in Files \X {"IN_CREATE", "IN_CLOSE_WRITE"} \cup {Overflow}
    /\ listener \in {"none", "reading", "notify", "onload", "opened", "crashed"}
    /\ event \in Files \cup {NoFile}
    /\ listener \in {"notify", "onload", "opened"} => event \in Named
    /\ subscribed \in BOOLEAN
    /\ loader \in {"none", "half", "alive", "closed", "freed"}
    /\ libs \in [Files -> Nat] /\ refs \in [Files -> Nat] /\ ctors \in [Files -> Nat]

\* A plugin is opened once for each of its events (created, closed, closed
\* again).  Every handle is in m_libs, once, or about to be added, so that the
\* destructor closes as many as were opened; until then they keep the plugin
\* mapped, and its constructor functions run once.
HandlesBalanced ==
    loader = "alive" =>
        \A f \in Files :
            /\ refs[f] = libs[f] + IF listener = "opened" /\ event = f THEN 1 ELSE 0
            /\ ctors[f] <= 1

\* Nothing takes the destructor and the listener apart but m_subs: only a
\* notification that was under way when the callback was deleted can reach the
\* destroyed SoLoader.  An event read later never does.
NoLateNotify ==
    [][loader = "freed" /\ listener' = "onload" => listener = "onload"]_vars

\* The first event of a batch is not lost: if it is about a finished plugin,
\* that plugin is loaded, unless the listener or the loader ends first.
HeadLoaded ==
    \A f \in Named \cap Valid :
        /\ dir[f] = "whole" /\ queue # <<>> /\ loader = "alive"
        /\ Head(queue)[1] = f
        ~> libs[f] > 0 \/ Crashed \/ loader # "alive"
=============================================================================
