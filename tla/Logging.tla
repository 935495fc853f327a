------------------------------- MODULE Logging ------------------------------
(***************************************************************************)
(* Logger and the Singleton that makes it: threads that call               *)
(* Singleton<Logger>::GetInstance()->Write(...), at any time and for the   *)
(* first time at once, while another one sets the level and the file.      *)
(*                                                                         *)
(* The pointer is read before s_mutex is taken and again under it; the     *)
(* level is read before m_mutex is taken, and not again.  The constructor  *)
(* throws when it cannot open its file, out of GetInstance.                *)
(*                                                                         *)
(* A write to a file that is open succeeds: the disk is not full.          *)
(***************************************************************************)
EXTENDS Naturals, Sequences

CONSTANTS
    Threads,     \* threads that write messages
    MaxWrites,   \* bound: messages of one thread
    Files,       \* file names SetFileName may be given
    LogTxt,      \* the file the constructor opens
    MaxSets      \* bound: calls of SetLoggerLevel and SetFileName

ASSUME FilesAssumption  == LogTxt \in Files /\ "none" \notin Files
ASSUME BoundsAssumption == MaxWrites \in Nat /\ MaxSets \in Nat
ASSUME ThreadsAssumption == "none" \notin Threads

VARIABLES
    sInstance,   \* s_instance: the number of a Logger, 0 for nullptr
    sOwner,      \* s_owner, likewise
    sMutex,      \* who holds s_mutex
    made,        \* Loggers constructed
    pc,          \* where each thread is
    tmp,         \* the Logger a thread has been given
    msg,         \* the number and level of each thread's message
    level,       \* m_log_level
    mMutex,      \* who holds m_mutex
    open,        \* the file m_logfile has open
    text,        \* what each file holds
    lost,        \* messages written while no file was open
    sets         \* calls of SetLoggerLevel and SetFileName

vars == <<sInstance, sOwner, sMutex, made, pc, tmp, msg, level, mMutex, open, text, lost, sets>>
single == <<sInstance, sOwner, sMutex, made>>
logger == <<level, mMutex, open, text, lost, sets>>

ERROR == 0
INFO  == 1
DEBUG == 2
Levels == {ERROR, INFO, DEBUG}

Init ==
    /\ sInstance = 0 /\ sOwner = 0 /\ sMutex = "none" /\ made = 0
    /\ pc = [t \in Threads |-> "idle"] /\ tmp = [t \in Threads |-> 0]
    /\ msg = [t \in Threads |-> <<0, ERROR>>]
    /\ level = ERROR /\ mMutex = "none" /\ open = "none"
    /\ text = [f \in Files |-> <<>>] /\ lost = {} /\ sets = 0

Goto(t, p) == pc' = [pc EXCEPT ![t] = p]

-----------------------------------------------------------------------------
(* Singleton<Logger>::GetInstance                                          *)

\* A thread has something to log and loads s_instance.
Load(t, l) ==
    /\ pc[t] = "idle" /\ msg[t][1] < MaxWrites
    /\ msg' = [msg EXCEPT ![t] = <<@[1] + 1, l>>]
    /\ tmp' = [tmp EXCEPT ![t] = sInstance]
    /\ Goto(t, IF sInstance = 0 THEN "lock" ELSE "level")
    /\ UNCHANGED <<single, logger>>

LockInstance(t) ==
    /\ pc[t] = "lock" /\ sMutex = "none"
    /\ sMutex' = t
    /\ Goto(t, "recheck")
    /\ UNCHANGED <<sInstance, sOwner, made, tmp, msg, logger>>

\* Mutant of Recheck: the pointer is not loaded again under the lock.
RecheckNot(t) ==
    /\ pc[t] = "recheck"
    /\ Goto(t, "construct")
    /\ UNCHANGED <<single, tmp, msg, logger>>

\* Another thread may have been first.
Recheck(t) ==
    /\ pc[t] = "recheck"
    /\ tmp' = [tmp EXCEPT ![t] = sInstance]
    /\ IF sInstance = 0
       THEN Goto(t, "construct") /\ UNCHANGED sMutex
       ELSE Goto(t, "level") /\ sMutex' = "none"
    /\ UNCHANGED <<sInstance, sOwner, made, msg, logger>>

\* The file is open and the new Logger s_owner's, which deletes what it had.
Construct(t) ==
    /\ pc[t] = "construct"
    /\ made' = made + 1 /\ sOwner' = made + 1
    /\ open' = LogTxt /\ level' = ERROR
    /\ Goto(t, "publish")
    /\ UNCHANGED <<sInstance, sMutex, tmp, msg, mMutex, text, lost, sets>>

\* Mutant of ConstructThrows: the mutex stays locked.
ConstructThrowsLocked(t) ==
    /\ pc[t] = "construct"
    /\ Goto(t, "idle")
    /\ UNCHANGED <<single, tmp, msg, logger>>

\* The file cannot be opened.
ConstructThrows(t) ==
    /\ pc[t] = "construct"
    /\ sMutex' = "none"
    /\ Goto(t, "idle")
    /\ UNCHANGED <<sInstance, sOwner, made, tmp, msg, logger>>

Publish(t) ==
    /\ pc[t] = "publish"
    /\ sInstance' = sOwner /\ sMutex' = "none"
    /\ tmp' = [tmp EXCEPT ![t] = sOwner]
    /\ Goto(t, "level")
    /\ UNCHANGED <<sOwner, made, msg, logger>>

GetInstance(t) ==
    \/ LockInstance(t) \/ Recheck(t) \/ Construct(t) \/ ConstructThrows(t) \/ Publish(t)

-----------------------------------------------------------------------------
(* Logger::Write                                                           *)

\* The level is read without the lock.
TestLevel(t) ==
    /\ pc[t] = "level"
    /\ Goto(t, IF msg[t][2] > level THEN "idle" ELSE "lockLog")
    /\ UNCHANGED <<single, tmp, msg, logger>>

\* Mutant of LockLog: the lock is not taken.
LockLogNot(t) ==
    /\ pc[t] = "lockLog"
    /\ Goto(t, "text")
    /\ UNCHANGED <<single, tmp, msg, logger>>

LockLog(t) ==
    /\ pc[t] = "lockLog" /\ mMutex = "none"
    /\ mMutex' = t
    /\ Goto(t, "text")
    /\ UNCHANGED <<single, tmp, msg, level, open, text, lost, sets>>

\* Puts u into the open file; without one, the stream has its failbit set and
\* takes nothing.
Put(u) == text' = IF open = "none" THEN text ELSE [text EXCEPT ![open] = Append(@, u)]

PutText(t) ==
    /\ pc[t] = "text"
    /\ Put(<<t, msg[t][1], "text">>)
    /\ lost' = IF open = "none" THEN lost \cup {<<t, msg[t][1]>>} ELSE lost
    /\ Goto(t, "endl")
    /\ UNCHANGED <<single, tmp, msg, level, mMutex, open, sets>>

\* std::endl, and the flush; then the screen, and the end of lock's scope.
PutEndl(t) ==
    /\ pc[t] = "endl"
    /\ Put(<<t, msg[t][1], "endl">>)
    /\ mMutex' = "none"
    /\ Goto(t, "idle")
    /\ UNCHANGED <<single, tmp, msg, level, open, lost, sets>>

Write(t) == TestLevel(t) \/ LockLog(t) \/ PutText(t) \/ PutEndl(t)

-----------------------------------------------------------------------------
(* Logger::SetLoggerLevel and Logger::SetFileName, by a thread of their    *)
(* own, which has got the instance.                                        *)

SetLoggerLevel(l) ==
    /\ sInstance # 0 /\ mMutex = "none" /\ sets < MaxSets
    /\ level' = l /\ sets' = sets + 1
    /\ UNCHANGED <<single, pc, tmp, msg, mMutex, open, text, lost>>

\* Mutant of SetFileName: m_mutex is not taken.
SetFileNameUnlocked(f) ==
    /\ sInstance # 0 /\ sets < MaxSets
    /\ open' \in {f, "none"} /\ sets' = sets + 1
    /\ UNCHANGED <<single, pc, tmp, msg, level, mMutex, text, lost>>

\* The open file is closed; if the new one cannot be opened, none is open.
SetFileName(f) ==
    /\ sInstance # 0 /\ mMutex = "none" /\ sets < MaxSets
    /\ open' \in {f, "none"} /\ sets' = sets + 1
    /\ UNCHANGED <<single, pc, tmp, msg, level, mMutex, text, lost>>

-----------------------------------------------------------------------------

Next ==
    \/ \E t \in Threads : (\E l \in Levels : Load(t, l)) \/ GetInstance(t) \/ Write(t)
    \/ \E l \in Levels : SetLoggerLevel(l)
    \/ \E f \in Files : SetFileName(f)

Spec == Init /\ [][Next]_vars

\* A thread inside GetInstance or Write runs.
FairSpec == Spec /\ \A t \in Threads : WF_vars(GetInstance(t) \/ Write(t))

-----------------------------------------------------------------------------
(* Properties.                                                             *)

\* The values every variable ranges over; who is past a lock holds the mutex.
TypeOK ==
    /\ sInstance \in Nat /\ sOwner \in Nat /\ made \in Nat
    /\ sMutex \in Threads \cup {"none"} /\ mMutex \in Threads \cup {"none"}
    /\ pc \in [Threads -> {"idle", "lock", "recheck", "construct", "publish",
                           "level", "lockLog", "text", "endl"}]
    /\ tmp \in [Threads -> Nat] /\ msg \in [Threads -> (0 .. MaxWrites) \X Levels]
    /\ level \in Levels /\ open \in Files \cup {"none"} /\ sets \in 0 .. MaxSets
    /\ \A f \in Files : text[f] \in Seq(Threads \X (1 .. MaxWrites) \X {"text", "endl"})
    /\ \A t \in Threads :
         /\ pc[t] \in {"recheck", "construct", "publish"} => sMutex = t
         /\ pc[t] \in {"text", "endl"} => mMutex = t
    /\ lost \subseteq Threads \X (1 .. MaxWrites)

\* Whoever has been given a Logger has been given the one s_owner holds, which
\* is never replaced and so never deleted, however many threads came first and
\* however often the constructor threw before.
OneLogger ==
    /\ made <= 1
    /\ \A t \in Threads : pc[t] \in {"level", "lockLog", "text", "endl"} =>
         tmp[t] # 0 /\ tmp[t] = sOwner

\* The lines of a file are whole, whatever the threads and the change of files:
\* each text is followed by its own end of line, but for one being written.
LinesWhole ==
    \A f \in Files : \A i \in DOMAIN text[f] :
        LET u == text[f][i]
        IN  \/ i % 2 = 0 /\ u = <<text[f][i - 1][1], text[f][i - 1][2], "endl">>
            \/ i % 2 = 1 /\ u[3] = "text" /\ (i = Len(text[f]) => pc[u[1]] = "endl")

\* GetInstance and Write return, also after another thread's constructor threw;
\* a message that has passed the level test is then in one file, or was written
\* while no file was open, in which case SetFileName has failed.
Logged ==
    \A t \in Threads, n \in 1 .. MaxWrites :
        /\ pc[t] # "idle" ~> pc[t] = "idle"
        /\ pc[t] = "lockLog" /\ msg[t][1] = n ~>
             \/ \E f \in Files : \E i \in DOMAIN text[f] : text[f][i] = <<t, n, "endl">>
             \/ <<t, n>> \in lost
=============================================================================
