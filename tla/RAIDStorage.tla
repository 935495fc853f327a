---------------------------- MODULE RAIDStorage -----------------------------
(***************************************************************************)
(* RAIDStorage over minions and a metadata store in files or in memory,    *)
(* called by the worker threads of the pool, with minions that fail and a  *)
(* process that is killed and restarted.                                   *)
(*                                                                         *)
(* Atomicity: a minion's Read or Write is one step (its own lock), and so  *)
(* is each statement under m_offsets_lock that touches the file.  No lock  *)
(* spans the primary and the mirror write of a chunk, or two chunks.       *)
(*                                                                         *)
(* Data: the payload of a write is its number, on every byte it covers.    *)
(***************************************************************************)
EXTENDS StripeMap, FiniteSets

CONSTANTS
    Threads,     \* worker threads executing READ and WRITE commands
    Backends,    \* values of the argument backend: "memory", "file"
    Flaky,       \* minions on whose file Read and Write may fail
    MaxWrites,   \* bound: writes in a behaviour
    MaxLen,      \* bound: bytes in a request
    MetaFaults,  \* whether opening, reading and writing the metadata file may fail
    Crashes      \* whether the process may be killed and restarted

ASSUME FlakyAssumption  == Flaky \subseteq Minions /\ Backends \subseteq {"memory", "file"}
ASSUME BoundsAssumption == MaxWrites \in Nat /\ MaxLen \in Nat
ASSUME FaultsAssumption == MetaFaults \in BOOLEAN /\ Crashes \in BOOLEAN

VARIABLES
    backend,     \* MinionBackend
    disk,        \* bytes of each minion: the number of the write they come from
    sizes,       \* m_offset_sizes
    file,        \* the metadata store: raid_metadata.dat, with its whole entries and
                 \* whether half of one follows, or m_metadata
    pc,          \* where each thread is in Read or Write
    off, len,    \* the request: m_offset and its length
    pos,         \* buf_pos
    id,          \* number of the thread's write
    status,      \* m_status of the thread's last request
    writes,      \* writes begun
    cand,        \* history: writes whose data a byte may hold, see NoStaleCopy
    rivals,      \* history: writes that overlapped in time with the thread's
    acked,       \* history: offsets of writes that returned SUCCESS
    metaLost,    \* history: a save failed, was cut short by a crash, or wrote a map
                 \* that had not been read back whole
    unread       \* history: the last start did not read the whole file

vars == <<backend, disk, sizes, file, pc, off, len, pos, id, status, writes, cand, rivals,
          acked, metaLost, unread>>

request == <<off, len, id, rivals>>
locals  == <<off, len, pos, id, rivals>>
history == <<cand, acked, metaLost, unread>>

Offsets  == 0 .. Capacity            \* the first byte past the end included
Bytes    == 0 .. Capacity - 1
WriteIds == 0 .. MaxWrites           \* 0: never written
NoSizes  == [o \in {} |-> 0]

Primary(b) == disk[PrimaryIndex(b)][LocalOffset(b)]
Mirror(b)  == disk[MirrorIndex(PrimaryIndex(b))][LocalOffset(b)]

Writing(t) == pc[t] \in {"wPrimary", "wMirror", "wMeta", "wOpen", "wSave"}

-----------------------------------------------------------------------------

\* A minion is filled with zeros, by its vector or by ftruncate; a file that is
\* not empty is left as it is.
NewMinion == [i \in 0 .. MinionSize - 1 |-> 0]

CreateMinions == [m \in Minions |-> NewMinion]

CreateMetadataStore == [entries |-> NoSizes, torn |-> FALSE]

Init ==
    /\ backend \in Backends
    /\ disk = CreateMinions
    /\ sizes = NoSizes
    /\ file = CreateMetadataStore
    /\ pc = [t \in Threads |-> "idle"]
    /\ off = [t \in Threads |-> 0] /\ len = [t \in Threads |-> 0]
    /\ pos = [t \in Threads |-> 0]
    /\ id = [t \in Threads |-> 0]
    /\ status = [t \in Threads |-> "none"]
    /\ writes = 0
    /\ cand = [b \in Bytes |-> {0}]
    /\ rivals = [t \in Threads |-> {}]
    /\ acked = {} /\ metaLost = FALSE /\ unread = FALSE

-----------------------------------------------------------------------------
(* The chunk a thread is at, and the minion calls on it.                   *)

At(t)    == off[t] + pos[t]
Chunk(t) == ChunkLen(At(t), len[t] - pos[t])
Prim(t)  == PrimaryIndex(At(t))
Mirr(t)  == MirrorIndex(Prim(t))
Fits(t)  == InBounds(LocalOffset(At(t)), Chunk(t))

\* A minion in memory fails at its bounds only.
Faulty == IF backend = "file" THEN Flaky ELSE {}

\* The first n bytes of the chunk reach minion m.
Put(t, m, n) ==
    disk' = [disk EXCEPT ![m] = [i \in DOMAIN @ |->
               IF i \in LocalOffset(At(t)) .. LocalOffset(At(t)) + n - 1
               THEN id[t] ELSE @[i]]]

\* A failed Write: out of bounds before anything happens, or an I/O error,
\* after which a prefix of the chunk may have reached the file.
PutFails(t, m) ==
    \/ ~Fits(t) /\ UNCHANGED disk
    \/ Fits(t) /\ m \in Faulty /\ \E n \in 0 .. Chunk(t) - 1 : Put(t, m, n)

\* The locals of a thread that is in no request.
Clear(t) ==
    /\ off' = [off EXCEPT ![t] = 0] /\ len' = [len EXCEPT ![t] = 0]
    /\ pos' = [pos EXCEPT ![t] = 0] /\ id' = [id EXCEPT ![t] = 0]
    /\ rivals' = [rivals EXCEPT ![t] = {}]

\* The request ends with m_status s, for the mediator to reply.
Return(t, s) ==
    /\ pc' = [pc EXCEPT ![t] = "idle"]
    /\ status' = [status EXCEPT ![t] = s]
    /\ Clear(t)

\* Mutant of Last: the loop ends after its first chunk.
LastFirst(t) == TRUE

\* Mutant of Last: the loop goes on with nothing remaining.
LastPast(t) == pos[t] + Chunk(t) > len[t]

\* The chunk is the last one of the request.
Last(t) == pos[t] + Chunk(t) = len[t]

-----------------------------------------------------------------------------
(* RAIDStorage::Write                                                      *)

WriteBegin(t, o, n) ==
    LET w  == writes + 1
        us == {u \in Threads : Writing(u)}
    IN  /\ pc[t] = "idle" /\ writes < MaxWrites
        /\ writes' = w
        /\ id' = [id EXCEPT ![t] = w]
        /\ off' = [off EXCEPT ![t] = o] /\ len' = [len EXCEPT ![t] = n]
        /\ pos' = [pos EXCEPT ![t] = 0]
        /\ pc' = [pc EXCEPT ![t] = IF n > 0 THEN "wPrimary" ELSE "wMeta"]
        /\ cand' = [b \in Bytes |-> cand[b] \cup (IF b \in o .. o + n - 1 THEN {w} ELSE {})]
        /\ rivals' = [u \in Threads |->
                        IF u = t THEN {id[v] : v \in us}
                        ELSE IF u \in us THEN rivals[u] \cup {w} ELSE rivals[u]]
        /\ status' = [status EXCEPT ![t] = "none"]
        /\ UNCHANGED <<disk, sizes, file, acked, metaLost, unread>>

WritePrimary(t) ==
    /\ pc[t] = "wPrimary" /\ Fits(t)
    /\ Put(t, Prim(t), Chunk(t))
    /\ pc' = [pc EXCEPT ![t] = "wMirror"]
    /\ UNCHANGED <<sizes, file, locals, status, writes, history>>

WritePrimaryFails(t) ==
    /\ pc[t] = "wPrimary"
    /\ PutFails(t, Prim(t))
    /\ Return(t, "FAILURE")
    /\ UNCHANGED <<sizes, file, writes, history>>

\* Mutant of WriteMirror: the mirror is not written.
WriteMirrorNot(t) ==
    /\ pc[t] = "wMirror"
    /\ pos' = [pos EXCEPT ![t] = @ + Chunk(t)]
    /\ pc' = [pc EXCEPT ![t] = IF Last(t) THEN "wMeta" ELSE "wPrimary"]
    /\ UNCHANGED <<disk, sizes, file, status, request, writes, history>>

WriteMirror(t) ==
    /\ pc[t] = "wMirror"
    /\ Put(t, Mirr(t), Chunk(t))
    /\ pos' = [pos EXCEPT ![t] = @ + Chunk(t)]
    /\ pc' = [pc EXCEPT ![t] = IF Last(t) THEN "wMeta" ELSE "wPrimary"]
    /\ UNCHANGED <<sizes, file, status, request, writes, history>>

WriteMirrorFails(t) ==
    /\ pc[t] = "wMirror"
    /\ PutFails(t, Mirr(t))
    /\ Return(t, "FAILURE")
    /\ UNCHANGED <<sizes, file, writes, history>>

\* m_offsets_lock is free.
OffsetsUnlocked == \A u \in Threads : pc[u] \notin {"wOpen", "wSave"}

\* What the client has been told: its bytes are now known to be this write's
\* or those of a write that overlapped with it.
Acknowledge(t) ==
    /\ Return(t, "SUCCESS")
    /\ acked' = acked \cup {off[t]}
    /\ cand' = [b \in Bytes |-> IF b \in off[t] .. off[t] + len[t] - 1
                                THEN cand[b] \cap ({id[t]} \cup rivals[t]) ELSE cand[b]]

\* Mutant of UpdateSizes: an offset already listed is not saved again.
UpdateSizesOnce(t) ==
    /\ pc[t] = "wMeta" /\ OffsetsUnlocked
    /\ sizes' = [o \in DOMAIN sizes \cup {off[t]} |-> IF o = off[t] THEN len[t] ELSE sizes[o]]
    /\ \/ /\ off[t] \in DOMAIN sizes
          /\ Acknowledge(t) /\ UNCHANGED <<metaLost, unread>>
       \/ /\ off[t] \notin DOMAIN sizes
          /\ pc' = [pc EXCEPT ![t] = "wOpen"]
          /\ UNCHANGED <<locals, status, history>>
    /\ UNCHANGED <<disk, file, writes>>

\* Mutant of UpdateSizes: the map is replaced instead of extended.
UpdateSizesForgets(t) ==
    /\ pc[t] = "wMeta" /\ OffsetsUnlocked
    /\ sizes' = [o \in {off[t]} |-> len[t]]
    /\ pc' = [pc EXCEPT ![t] = "wOpen"]
    /\ UNCHANGED <<disk, file, locals, status, writes, history>>

\* The lock is taken and the entry is made; it is held until Save is over.
UpdateSizes(t) ==
    /\ pc[t] = "wMeta" /\ OffsetsUnlocked
    /\ sizes' = [o \in DOMAIN sizes \cup {off[t]} |-> IF o = off[t] THEN len[t] ELSE sizes[o]]
    /\ pc' = [pc EXCEPT ![t] = "wOpen"]
    /\ UNCHANGED <<disk, file, locals, status, writes, history>>

-----------------------------------------------------------------------------
(* Save of the metadata store, under m_offsets_lock                        *)

\* MemoryMetadataStore keeps a copy of the map.
SaveMemory(t) ==
    /\ backend = "memory"
    /\ pc[t] = "wOpen"
    /\ file' = [entries |-> sizes, torn |-> FALSE]
    /\ Acknowledge(t)
    /\ UNCHANGED <<disk, sizes, writes, metaLost, unread>>

\* What a kill or a full disk can leave in the file: entries are written in
\* offset order through a buffer that is flushed when it is full and on close.
Prefixes(s) ==
    {[entries |-> [o \in {p \in DOMAIN s : p < k} |-> s[o]], torn |-> b] :
        k \in 0 .. Capacity + 1, b \in BOOLEAN}

\* Constructing the ofstream truncates the file, also one that the server could
\* not read when it started.
SaveOpen(t) ==
    /\ backend = "file"
    /\ pc[t] = "wOpen"
    /\ file' = CreateMetadataStore
    /\ metaLost' = (metaLost \/ unread)
    /\ pc' = [pc EXCEPT ![t] = "wSave"]
    /\ UNCHANGED <<disk, sizes, locals, status, writes, cand, acked, unread>>

\* A file that cannot be opened is logged and otherwise ignored.
SaveOpenFails(t) ==
    /\ backend = "file" /\ MetaFaults
    /\ pc[t] = "wOpen"
    /\ Acknowledge(t)
    /\ metaLost' = TRUE
    /\ UNCHANGED <<disk, sizes, file, writes, unread>>

\* close() has flushed every entry; the lock is released.
SaveClose(t) ==
    /\ pc[t] = "wSave"
    /\ file' = [entries |-> sizes, torn |-> FALSE]
    /\ Acknowledge(t)
    /\ UNCHANGED <<disk, sizes, writes, metaLost, unread>>

\* Nobody looks at the stream after the writes and close(), so a full disk goes
\* unnoticed.
SaveWriteFails(t) ==
    /\ MetaFaults
    /\ pc[t] = "wSave"
    /\ file' \in Prefixes(sizes)
    /\ Acknowledge(t)
    /\ metaLost' = TRUE
    /\ UNCHANGED <<disk, sizes, writes, unread>>

-----------------------------------------------------------------------------
(* RAIDStorage::Read.  The bytes returned are those the minion holds at    *)
(* the step; the properties speak of the minions' bytes instead.           *)

ReadBegin(t, o, n) ==
    /\ pc[t] = "idle" /\ n > 0
    /\ off' = [off EXCEPT ![t] = o] /\ len' = [len EXCEPT ![t] = n]
    /\ pos' = [pos EXCEPT ![t] = 0]
    /\ pc' = [pc EXCEPT ![t] = "rPrimary"]
    /\ status' = [status EXCEPT ![t] = "none"]
    /\ UNCHANGED <<disk, sizes, file, id, rivals, writes, history>>

\* Mutant of ReadChunk: the loop does not move on.
ReadChunkStays(t) ==
    /\ \/ Last(t) /\ Return(t, "SUCCESS")
       \/ /\ ~Last(t)
          /\ pc' = [pc EXCEPT ![t] = "rPrimary"]
          /\ UNCHANGED <<status, locals>>
    /\ UNCHANGED <<disk, sizes, file, writes, history>>

\* The loop is over when the last chunk has been copied.
ReadChunk(t) ==
    /\ \/ /\ Last(t)
          /\ Return(t, "SUCCESS")
       \/ /\ ~Last(t)
          /\ pos' = [pos EXCEPT ![t] = @ + Chunk(t)]
          /\ pc' = [pc EXCEPT ![t] = "rPrimary"]
          /\ UNCHANGED <<status, request>>
    /\ UNCHANGED <<disk, sizes, file, writes, history>>

ReadPrimary(t) == pc[t] = "rPrimary" /\ Fits(t) /\ ReadChunk(t)

\* Mutant of ReadPrimaryFails: no fallback to the mirror.
ReadPrimaryFailsHard(t) ==
    /\ pc[t] = "rPrimary"
    /\ ~Fits(t) \/ Prim(t) \in Faulty
    /\ Return(t, "FAILURE")
    /\ UNCHANGED <<disk, sizes, file, writes, history>>

\* Any exception of the primary sends the read to the mirror.
ReadPrimaryFails(t) ==
    /\ pc[t] = "rPrimary"
    /\ ~Fits(t) \/ Prim(t) \in Faulty
    /\ pc' = [pc EXCEPT ![t] = "rMirror"]
    /\ UNCHANGED <<disk, sizes, file, locals, status, writes, history>>

ReadMirror(t) == pc[t] = "rMirror" /\ Fits(t) /\ ReadChunk(t)

ReadMirrorFails(t) ==
    /\ pc[t] = "rMirror"
    /\ ~Fits(t) \/ Mirr(t) \in Faulty
    /\ Return(t, "FAILURE")
    /\ UNCHANGED <<disk, sizes, file, writes, history>>

-----------------------------------------------------------------------------
(* What GET_SIZE and LIST_OFFSETS answer, under the shared lock.           *)

GetDataSize(o) == IF o \in DOMAIN sizes THEN sizes[o] ELSE 0

ListOffsets == {<<o, sizes[o]>> : o \in DOMAIN sizes}

-----------------------------------------------------------------------------
(* The process is killed and started again.                                *)

\* FileMetadataStore::Load: an incomplete entry discards all the others.
Load(f) == IF f.torn THEN NoSizes ELSE f.entries

\* The maps a start can get out of file f.  A file that cannot be opened gives an
\* empty map and a line in the log; a read that fails ends the loop as the end of
\* the file does, or inside an entry discards the others.
Loads(f) == {Load(f)} \cup (IF MetaFaults THEN {Load(p) : p \in Prefixes(f.entries)} ELSE {})

\* No thread is in a request.
Forget ==
    /\ pc' = [t \in Threads |-> "idle"]
    /\ status' = [t \in Threads |-> "none"]
    /\ off' = [t \in Threads |-> 0] /\ len' = [t \in Threads |-> 0]
    /\ pos' = [t \in Threads |-> 0] /\ id' = [t \in Threads |-> 0]
    /\ rivals' = [t \in Threads |-> {}]

Crash ==
    /\ backend = "file" /\ Crashes
    /\ file' \in IF \E t \in Threads : pc[t] = "wSave" THEN Prefixes(sizes) ELSE {file}
    /\ sizes' \in Loads(file')
    /\ unread' = (sizes' # Load(file'))
    /\ metaLost' = (metaLost \/ \E t \in Threads : pc[t] = "wSave")
    /\ Forget
    /\ UNCHANGED <<disk, writes, cand, acked>>

\* Nothing outlives the process.
CrashMemory ==
    /\ backend = "memory" /\ Crashes
    /\ disk' = CreateMinions /\ file' = CreateMetadataStore /\ sizes' = NoSizes
    /\ cand' = [b \in Bytes |-> {0}] /\ acked' = {}
    /\ Forget
    /\ UNCHANGED <<writes, metaLost, unread>>

-----------------------------------------------------------------------------

WriteStep(t) ==
    \/ WritePrimary(t) \/ WritePrimaryFails(t)
    \/ WriteMirror(t) \/ WriteMirrorFails(t)
    \/ UpdateSizes(t) \/ SaveMemory(t) \/ SaveOpen(t) \/ SaveOpenFails(t)
    \/ SaveClose(t) \/ SaveWriteFails(t)

ReadStep(t) ==
    \/ ReadPrimary(t) \/ ReadPrimaryFails(t)
    \/ ReadMirror(t) \/ ReadMirrorFails(t)

Next ==
    /\ \/ \E t \in Threads, o \in Offsets, n \in 0 .. MaxLen :
            WriteBegin(t, o, n) \/ ReadBegin(t, o, n)
       \/ \E t \in Threads : WriteStep(t) \/ ReadStep(t)
       \/ Crash \/ CrashMemory
    /\ UNCHANGED backend

Spec     == Init /\ [][Next]_vars
FairSpec == Spec /\ \A t \in Threads : WF_vars((WriteStep(t) \/ ReadStep(t)) /\ UNCHANGED backend)

-----------------------------------------------------------------------------
(* Properties.                                                             *)

\* The values every variable ranges over; a thread at a chunk has bytes left.
TypeOK ==
    /\ backend \in Backends
    /\ disk \in [Minions -> [0 .. MinionSize - 1 -> WriteIds]]
    /\ DOMAIN sizes \subseteq Offsets /\ \A o \in DOMAIN sizes : sizes[o] \in 0 .. MaxLen
    /\ DOMAIN file.entries \subseteq Offsets /\ file.torn \in BOOLEAN
    /\ pc \in [Threads -> {"idle", "wPrimary", "wMirror", "wMeta", "wOpen", "wSave",
                           "rPrimary", "rMirror"}]
    /\ off \in [Threads -> Offsets] /\ len \in [Threads -> 0 .. MaxLen]
    /\ pos \in [Threads -> 0 .. MaxLen]
    /\ \A t \in Threads : pc[t] \in {"wPrimary", "wMirror", "rPrimary", "rMirror"} => pos[t] < len[t]
    /\ id \in [Threads -> WriteIds] /\ writes \in WriteIds
    /\ status \in [Threads -> {"none", "SUCCESS", "FAILURE"}]
    /\ cand \in [Bytes -> SUBSET WriteIds] /\ rivals \in [Threads -> SUBSET WriteIds]
    /\ acked \subseteq Offsets /\ metaLost \in BOOLEAN /\ unread \in BOOLEAN

\* Reads are regular, whichever copy serves them: each copy of a byte holds
\* the last acknowledged write, a write that overlapped in time with it, or one
\* begun since (also one that failed or was cut short by a crash).  In
\* particular no acknowledged write leaves an older copy behind, on the mirror
\* a read falls back to or in a later chunk, unless writes raced.
NoStaleCopy == \A b \in Bytes : Primary(b) \in cand[b] /\ Mirror(b) \in cand[b]

\* A read within the array never fails on account of one bad minion: when it
\* does fail, at least two minions are failing.
SurvivesOneFailure ==
    [][\A t \in Threads :
         /\ pc[t] \in {"rPrimary", "rMirror"} /\ pc'[t] = "idle"
         /\ status'[t] = "FAILURE" /\ off[t] + len[t] <= Capacity
         => Cardinality(Faulty) > 1]_vars

\* What the map records is what a restart would find in the store, whenever no
\* thread is between its entry and the end of its save, whichever threads saved
\* before; except after a save that failed, and in a server that could not read
\* the store when it started.
MetaInSync ==
    OffsetsUnlocked /\ ~metaLost /\ ~unread => file.entries = sizes /\ ~file.torn

\* Acknowledged offsets survive crashes (in memory: are kept until the next one),
\* provided no crash fell into a save and no save failed.  A server that could
\* read the store lists them all.  One that could not does not, yet they stay in
\* the file until its next save, which overwrites them (metaLost).  And no listed
\* extent exceeds the array: a write that runs over its end is refused at the
\* chunk that does, for requests that end below 2^64 (see MinionBounds).
MetaDurable ==
    /\ ~metaLost /\ ~unread => acked \subseteq {e[1] : e \in ListOffsets}
    /\ ~metaLost /\ (\A t \in Threads : pc[t] # "wSave") => acked \subseteq DOMAIN Load(file)
    /\ \A o \in Offsets : GetDataSize(o) > 0 => o + GetDataSize(o) <= Capacity

\* Every request is answered.
RequestsReturn == \A t \in Threads : pc[t] # "idle" ~> pc[t] = "idle"
=============================================================================
