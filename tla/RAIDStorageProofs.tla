-------------------------- MODULE RAIDStorageProofs -------------------------
(***************************************************************************)
(* Theorems about RAIDStorage, for any number and size of minions, threads *)
(* and writes, over either backend and with any minions failing.           *)
(*                                                                         *)
(* No lock spans a request, so what is known of a copy is known through    *)
(* the write that owns it: from the chunk that a write has put on both     *)
(* minions of a pair until it is acknowledged, each copy holds that write  *)
(* or one it overlaps with in time. That chunks are where the code puts    *)
(* them, inside one stripe and on a pair of their own, is arithmetic,      *)
(* which comes first.                                                      *)
(***************************************************************************)
EXTENDS RAIDStorage, FiniteSetTheorems, TLAPS

-----------------------------------------------------------------------------
(* The address arithmetic.                                                 *)

USE NumPrimaryAssumption, MinionSizeAssumption

\* Division with remainder by the size of a minion.
LEMMA DivMod ==
    ASSUME NEW o \in Nat
    PROVE  /\ o \div MinionSize \in Nat /\ o % MinionSize \in 0 .. MinionSize - 1
           /\ o = MinionSize * (o \div MinionSize) + (o % MinionSize)
  OBVIOUS

\* Products are monotonic.
LEMMA Monotonic ==
    ASSUME NEW a \in Nat, NEW b \in Nat, NEW m \in Nat, a <= b
    PROVE  m * a <= m * b
  <1>1. b - a \in Nat /\ m * (b - a) \in Nat
    OBVIOUS
  <1>2. m * b = m * a + m * (b - a)
    OBVIOUS
  <1> QED
    BY <1>1, <1>2

\* What is less than the divisor has quotient 0 and is its own remainder.
LEMMA SmallDiv ==
    ASSUME NEW q \in Nat, q < NumPrimary
    PROVE  q \div NumPrimary = 0 /\ q % NumPrimary = q
  OBVIOUS

LEMMA LargeDiv ==
    ASSUME NEW q \in Nat, q >= NumPrimary
    PROVE  q \div NumPrimary \in Nat \ {0}
  OBVIOUS

LEMMA CapacityType == Capacity \in Nat /\ Capacity = MinionSize * NumPrimary
  BY DEF Capacity

\* Where an offset goes whose stripe exists.
LEMMA StripePlace ==
    ASSUME NEW o \in Nat, o \div MinionSize < NumPrimary
    PROVE  PrimaryIndex(o) = o \div MinionSize /\ LocalOffset(o) = o % MinionSize
  BY DivMod, SmallDiv DEF PrimaryIndex, LocalOffset

\* An offset lies in the array exactly if its stripe exists.
LEMMA InArray ==
    ASSUME NEW o \in Nat
    PROVE  o < Capacity <=> o \div MinionSize < NumPrimary
  <1> DEFINE q == o \div MinionSize
  <1>1. /\ q \in Nat /\ o % MinionSize \in 0 .. MinionSize - 1
        /\ o = MinionSize * q + (o % MinionSize)
    BY DivMod
  <1>2. ASSUME q < NumPrimary PROVE o < Capacity
    <2>1. MinionSize * (q + 1) <= MinionSize * NumPrimary
      BY <1>1, <1>2, Monotonic
    <2>2. MinionSize * (q + 1) = MinionSize * q + MinionSize
      BY <1>1
    <2> QED
      BY <1>1, <2>1, <2>2, CapacityType
  <1>3. ASSUME q >= NumPrimary PROVE o >= Capacity
    <2>1. MinionSize * NumPrimary <= MinionSize * q
      BY <1>1, <1>3, Monotonic
    <2> QED
      BY <1>1, <2>1, CapacityType
  <1> QED
    BY <1>1, <1>2, <1>3, CapacityType

\* A chunk is not empty and does not exceed what remains or its stripe.
LEMMA ChunkBounds ==
    ASSUME NEW o \in Nat, NEW r \in Nat \ {0}
    PROVE  /\ ChunkLen(o, r) \in 1 .. r
           /\ (o % MinionSize) + ChunkLen(o, r) <= MinionSize
  BY DivMod DEF ChunkLen

\* What a minion's bounds check lets through lies in the array, and on the
\* minions of its stripe.
LEMMA BoundsCheck ==
    ASSUME NEW o \in Nat, NEW n \in Nat \ {0}, InBounds(LocalOffset(o), n)
    PROVE  /\ o + n <= Capacity
           /\ PrimaryIndex(o) = o \div MinionSize /\ LocalOffset(o) = o % MinionSize
           /\ o \div MinionSize < NumPrimary
  <1> DEFINE q == o \div MinionSize
             r == o % MinionSize
  <1>1. q \in Nat /\ r \in 0 .. MinionSize - 1 /\ o = MinionSize * q + r
    BY DivMod
  <1>2. q < NumPrimary
    <2>1. SUFFICES ASSUME q >= NumPrimary PROVE FALSE
      BY <1>1
    <2>2. q \div NumPrimary \in Nat \ {0}
      BY <1>1, <2>1, LargeDiv
    <2>3. MinionSize * 1 <= MinionSize * (q \div NumPrimary)
      BY <2>2, Monotonic
    <2>4. LocalOffset(o) = (q \div NumPrimary) * MinionSize + r
      BY DEF LocalOffset
    <2> QED
      BY <1>1, <2>2, <2>3, <2>4 DEF InBounds
  <1>3. PrimaryIndex(o) = q /\ LocalOffset(o) = r
    BY <1>2, StripePlace
  <1>4. MinionSize * (q + 1) <= MinionSize * NumPrimary
    BY <1>1, <1>2, Monotonic
  <1>5. MinionSize * (q + 1) = MinionSize * q + MinionSize
    BY <1>1
  <1> QED
    BY <1>1, <1>2, <1>3, <1>4, <1>5, CapacityType DEF InBounds

\* A chunk that begins inside the array passes the bounds check.
LEMMA ChunkFits ==
    ASSUME NEW o \in Nat, NEW r \in Nat \ {0}, o < Capacity
    PROVE  InBounds(LocalOffset(o), ChunkLen(o, r))
  <1>1. LocalOffset(o) = o % MinionSize
    BY InArray, StripePlace
  <1> QED
    BY <1>1, ChunkBounds DEF InBounds

\* Offsets of one stripe have one quotient.
LEMMA SameStripe ==
    ASSUME NEW o \in Nat, NEW k \in Nat, (o % MinionSize) + k < MinionSize
    PROVE  /\ (o + k) \div MinionSize = o \div MinionSize
           /\ (o + k) % MinionSize = (o % MinionSize) + k
  OBVIOUS

\* The bytes of a chunk go to one pair of minions, side by side.
LEMMA ChunkPlace ==
    ASSUME NEW o \in Nat, NEW n \in Nat \ {0}, InBounds(LocalOffset(o), n),
           NEW b \in o .. o + n - 1
    PROVE  /\ b \in Bytes
           /\ PrimaryIndex(b) = PrimaryIndex(o)
           /\ LocalOffset(b) \in LocalOffset(o) .. LocalOffset(o) + n - 1
  <1>1. /\ o + n <= Capacity /\ o \div MinionSize < NumPrimary
        /\ PrimaryIndex(o) = o \div MinionSize /\ LocalOffset(o) = o % MinionSize
    BY BoundsCheck
  <1> DEFINE k == b - o
  <1>2. k \in Nat /\ b = o + k /\ k < n
    OBVIOUS
  <1>3. o % MinionSize \in Nat /\ (o % MinionSize) + k < MinionSize
    BY <1>1, <1>2, DivMod DEF InBounds
  <1>4. b \div MinionSize = o \div MinionSize /\ b % MinionSize = (o % MinionSize) + k
    BY <1>2, <1>3, SameStripe
  <1>5. b \in Nat /\ b < Capacity
    BY <1>1, CapacityType
  <1>6. PrimaryIndex(b) = b \div MinionSize /\ LocalOffset(b) = b % MinionSize
    BY <1>1, <1>4, <1>5, StripePlace
  <1> QED
    BY <1>1, <1>2, <1>3, <1>4, <1>5, <1>6, CapacityType DEF Bytes

\* And no other byte goes there.
LEMMA PlaceUnique ==
    ASSUME NEW o \in Nat, NEW n \in Nat \ {0}, InBounds(LocalOffset(o), n),
           NEW b \in Bytes, PrimaryIndex(b) = PrimaryIndex(o),
           LocalOffset(b) \in LocalOffset(o) .. LocalOffset(o) + n - 1
    PROVE  b \in o .. o + n - 1
  <1>1. /\ PrimaryIndex(o) = o \div MinionSize /\ LocalOffset(o) = o % MinionSize
    BY BoundsCheck
  <1>2. b \in Nat /\ b < Capacity
    BY CapacityType DEF Bytes
  <1>3. PrimaryIndex(b) = b \div MinionSize /\ LocalOffset(b) = b % MinionSize
    BY <1>2, InArray, StripePlace
  <1>4. /\ b = MinionSize * (b \div MinionSize) + (b % MinionSize)
        /\ o = MinionSize * (o \div MinionSize) + (o % MinionSize)
        /\ o % MinionSize \in Nat /\ b % MinionSize \in Nat
        /\ MinionSize * (o \div MinionSize) \in Nat
    BY <1>2, DivMod
  <1> QED
    BY <1>1, <1>2, <1>3, <1>4

\* Both copies of a byte of the array have a place, on different minions.
LEMMA PlaceExists ==
    ASSUME NEW b \in Bytes
    PROVE  /\ PrimaryIndex(b) \in Primaries /\ PrimaryIndex(b) \in Minions
           /\ MirrorIndex(PrimaryIndex(b)) \in Minions \ Primaries
           /\ LocalOffset(b) \in 0 .. MinionSize - 1
  <1>1. b \in Nat /\ b < Capacity
    BY CapacityType DEF Bytes
  <1>2. b \div MinionSize \in Nat /\ b \div MinionSize < NumPrimary
    BY <1>1, DivMod, InArray
  <1>3. PrimaryIndex(b) = b \div MinionSize /\ LocalOffset(b) = b % MinionSize
    BY <1>1, <1>2, StripePlace
  <1> QED
    BY <1>1, <1>2, <1>3, DivMod DEF Primaries, Minions, MirrorIndex

-----------------------------------------------------------------------------
(* The inductive invariant.                                                *)

\* The lengths in the store are lengths.
BaseInv ==
    /\ TypeOK
    /\ \A o \in DOMAIN file.entries : file.entries[o] \in 0 .. MaxLen

\* The chunk a thread is at begins in the array or just past its end, and a
\* write that has left the loop has passed every bounds check.
ChunkOf(t) ==
    /\ pc[t] \in {"wPrimary", "wMirror", "rPrimary", "rMirror"} => At(t) <= Capacity
    /\ pc[t] = "wMirror" => Fits(t)
    /\ pc[t] = "rMirror" => ~Fits(t) \/ Prim(t) \in Faulty
    /\ pc[t] \in {"wMeta", "wOpen", "wSave"} => pos[t] = len[t] /\ off[t] + len[t] <= Capacity

ChunkInv == \A t \in Threads : ChunkOf(t)

\* The store lags behind the map under the lock only, unless the map was not
\* read back whole, and while no save is under way it has what was acknowledged.
\* Whoever opens the file with such a map has lost the rest.
MetaInv ==
    /\ OffsetsUnlocked /\ ~metaLost /\ ~unread => file.entries = sizes
    /\ ~metaLost => ~file.torn
    /\ unread => backend = "file"
    /\ \A t \in Threads : pc[t] = "wSave" => metaLost \/ ~unread
    /\ \A t \in Threads : pc[t] \in {"wOpen", "wSave"} => off[t] \in DOMAIN sizes
    /\ ~metaLost /\ ~unread => acked \subseteq DOMAIN sizes
    /\ ~metaLost /\ (\A t \in Threads : pc[t] # "wSave") => acked \subseteq DOMAIN file.entries
    /\ \A o \in DOMAIN sizes : o + sizes[o] <= Capacity
    /\ \A o \in DOMAIN file.entries : o + file.entries[o] <= Capacity

\* The writes a thread's acknowledgement will leave as candidates.
Own(t) == {id[t]} \cup rivals[t]

\* A write under way is a candidate for its bytes.
Candidate(t) ==
    Writing(t) => \A b \in Bytes : b \in off[t] .. off[t] + len[t] - 1 => id[t] \in cand[b]

\* What it has written to both copies it or a rival has.
Copied(t) ==
    Writing(t) => \A b \in Bytes : b \in off[t] .. At(t) - 1 =>
                      Primary(b) \in Own(t) /\ Mirror(b) \in Own(t)

\* And so have the bytes of the chunk it has written to the primary only.
HalfCopied(t) ==
    pc[t] = "wMirror" => \A b \in Bytes : b \in At(t) .. At(t) + Chunk(t) - 1 =>
                             Primary(b) \in Own(t)

\* Two writes under way overlap in time.
MutualRivals == \A t, u \in Threads : Writing(t) /\ Writing(u) /\ t # u => id[t] \in rivals[u]

CopyInv ==
    /\ NoStaleCopy /\ MutualRivals
    /\ \A t \in Threads : Candidate(t) /\ Copied(t) /\ HalfCopied(t)

-----------------------------------------------------------------------------
(* The steps of a thread.                                                  *)

\* Whatever thread t does, the requests of the others are what they were.
OthersStay(t) ==
    \A u \in Threads : u # t =>
        /\ pc'[u] = pc[u] /\ off'[u] = off[u] /\ len'[u] = len[u] /\ pos'[u] = pos[u]
        /\ id'[u] = id[u] /\ rivals[u] \subseteq rivals'[u]

InLoop(t) == pc[t] \in {"wPrimary", "wMirror", "rPrimary", "rMirror"}

\* The chunk of a thread in a loop.
LEMMA ChunkType ==
    ASSUME BaseInv, NEW t \in Threads, InLoop(t)
    PROVE  /\ At(t) \in Nat /\ Chunk(t) \in Nat \ {0}
           /\ len[t] \in Nat /\ pos[t] \in Nat /\ off[t] \in Nat
           /\ pos[t] + Chunk(t) <= len[t]
           /\ len[t] - pos[t] \in Nat \ {0}
  <1>1. /\ off[t] \in Nat /\ pos[t] \in Nat /\ len[t] \in Nat /\ pos[t] < len[t]
    BY CapacityType, BoundsAssumption DEF BaseInv, TypeOK, Offsets, InLoop
  <1>2. At(t) \in Nat /\ len[t] - pos[t] \in Nat \ {0}
    BY <1>1 DEF At
  <1>3. Chunk(t) \in 1 .. (len[t] - pos[t])
    BY <1>2, ChunkBounds DEF Chunk
  <1> QED
    BY <1>1, <1>2, <1>3

\* A request that stays as it is stays at its chunk.
LEMMA SameChunk ==
    ASSUME NEW t \in Threads, UNCHANGED backend,
           off'[t] = off[t], len'[t] = len[t], pos'[t] = pos[t]
    PROVE  /\ At(t)' = At(t) /\ Chunk(t)' = Chunk(t) /\ Prim(t)' = Prim(t)
           /\ Fits(t)' = Fits(t) /\ Faulty' = Faulty
  BY DEF At, Chunk, Prim, Fits, Faulty

\* What a minion's write leaves in the minions.
LEMMA PutType ==
    ASSUME BaseInv, NEW t \in Threads, NEW m \in Minions, NEW n \in Int, Put(t, m, n)
    PROVE  disk' \in [Minions -> [0 .. MinionSize - 1 -> WriteIds]]
  <1>1. disk[m] \in [0 .. MinionSize - 1 -> WriteIds] /\ id[t] \in WriteIds
    BY DEF BaseInv, TypeOK
  <1> QED
    BY <1>1 DEF BaseInv, TypeOK, Put

\* Whatever the bounds check says, the primary and the mirror are minions.
LEMMA MinionType ==
    ASSUME NEW o \in Nat
    PROVE  PrimaryIndex(o) \in Minions /\ MirrorIndex(PrimaryIndex(o)) \in Minions
  <1>1. o \div MinionSize \in Nat
    BY DivMod
  <1>2. PrimaryIndex(o) \in 0 .. NumPrimary - 1
    BY <1>1 DEF PrimaryIndex
  <1> QED
    BY <1>2 DEF Minions, MirrorIndex

LEMMA PutFailsType ==
    ASSUME BaseInv, NEW t \in Threads, NEW m \in Minions, InLoop(t), PutFails(t, m)
    PROVE  disk' \in [Minions -> [0 .. MinionSize - 1 -> WriteIds]]
  <1>1. CASE UNCHANGED disk
    BY <1>1 DEF BaseInv, TypeOK
  <1>2. CASE \E n \in 0 .. Chunk(t) - 1 : Put(t, m, n)
    BY <1>2, PutType
  <1> QED
    BY <1>1, <1>2 DEF PutFails

\* The steps of thread t, one by one.
ThreadStep(t) == (\E o \in Offsets, n \in 0 .. MaxLen : WriteBegin(t, o, n) \/ ReadBegin(t, o, n))
                 \/ WriteStep(t) \/ ReadStep(t)

LEMMA NextCases ==
    ASSUME Next
    PROVE  /\ UNCHANGED backend
           /\ (\E t \in Threads : ThreadStep(t)) \/ Crash \/ CrashMemory
  BY DEF Next, ThreadStep

LEMMA Solo ==
    ASSUME BaseInv, NEW t \in Threads, ThreadStep(t)
    PROVE  OthersStay(t)
  <1> USE DEF BaseInv, TypeOK, OthersStay
  <1>1. ASSUME NEW o \in Offsets, NEW n \in 0 .. MaxLen, WriteBegin(t, o, n) PROVE OthersStay(t)
    BY <1>1 DEF WriteBegin
  <1>2. ASSUME NEW o \in Offsets, NEW n \in 0 .. MaxLen, ReadBegin(t, o, n) PROVE OthersStay(t)
    BY <1>2 DEF ReadBegin
  <1>3. CASE WritePrimary(t) \/ WriteMirror(t) \/ UpdateSizes(t) \/ SaveOpen(t)
    BY <1>3 DEF WritePrimary, WriteMirror, UpdateSizes, SaveOpen, locals, request
  <1>4. CASE WritePrimaryFails(t) \/ WriteMirrorFails(t) \/ ReadMirrorFails(t)
    BY <1>4 DEF WritePrimaryFails, WriteMirrorFails, ReadMirrorFails, Return, Clear
  <1>5. CASE SaveMemory(t) \/ SaveOpenFails(t) \/ SaveClose(t) \/ SaveWriteFails(t)
    BY <1>5 DEF SaveMemory, SaveOpenFails, SaveClose, SaveWriteFails, Acknowledge, Return, Clear
  <1>6. CASE ReadPrimary(t) \/ ReadMirror(t) \/ ReadPrimaryFails(t)
    BY <1>6 DEF ReadPrimary, ReadMirror, ReadPrimaryFails, ReadChunk, Return, Clear, locals, request
  <1> QED
    BY <1>1, <1>2, <1>3, <1>4, <1>5, <1>6 DEF ThreadStep, WriteStep, ReadStep

-----------------------------------------------------------------------------
(* Types.                                                                  *)

\* The map while it grows or is loaded.
SizesType(s) == DOMAIN s \subseteq Offsets /\ \A o \in DOMAIN s : s[o] \in 0 .. MaxLen
FileType(f)  == SizesType(f.entries) /\ f.torn \in BOOLEAN

\* The part of a thread's request.
LocalsType ==
    /\ pc \in [Threads -> {"idle", "wPrimary", "wMirror", "wMeta", "wOpen", "wSave",
                           "rPrimary", "rMirror"}]
    /\ off \in [Threads -> Offsets] /\ len \in [Threads -> 0 .. MaxLen]
    /\ pos \in [Threads -> 0 .. MaxLen]
    /\ \A t \in Threads : InLoop(t) => pos[t] < len[t]
    /\ id \in [Threads -> WriteIds] /\ rivals \in [Threads -> SUBSET WriteIds]
    /\ status \in [Threads -> {"none", "SUCCESS", "FAILURE"}]

\* The rest.
StoreType ==
    /\ backend \in Backends
    /\ disk \in [Minions -> [0 .. MinionSize - 1 -> WriteIds]]
    /\ SizesType(sizes) /\ FileType(file)
    /\ writes \in WriteIds
    /\ cand \in [Bytes -> SUBSET WriteIds]
    /\ acked \subseteq Offsets /\ metaLost \in BOOLEAN /\ unread \in BOOLEAN

LEMMA BaseParts == BaseInv <=> LocalsType /\ StoreType
  BY DEF BaseInv, TypeOK, LocalsType, StoreType, SizesType, FileType, InLoop

LEMMA BasePartsPrime == LocalsType' /\ StoreType' => BaseInv'
  BY DEF BaseInv, TypeOK, LocalsType, StoreType, SizesType, FileType, InLoop

\* An empty store.
LEMMA EmptyType == SizesType(NoSizes) /\ FileType(CreateMetadataStore)
  BY DEF SizesType, FileType, NoSizes, CreateMetadataStore

LEMMA FreshDisk == CreateMinions \in [Minions -> [0 .. MinionSize - 1 -> WriteIds]]
  BY BoundsAssumption DEF CreateMinions, NewMinion, WriteIds

LEMMA InitBase == Init => BaseInv
  <1> SUFFICES ASSUME Init PROVE BaseInv
    OBVIOUS
  <1>1. LocalsType
    BY BoundsAssumption, CapacityType DEF Init, LocalsType, InLoop, Offsets, WriteIds
  <1>2. SizesType(sizes) /\ FileType(file)
    <2>1. sizes = NoSizes /\ file = CreateMetadataStore
      BY DEF Init
    <2> QED
      BY <2>1, EmptyType
  <1>3. StoreType
    <2>1. cand \in [Bytes -> SUBSET WriteIds] /\ writes \in WriteIds
      BY BoundsAssumption DEF Init, WriteIds
    <2> QED
      BY <1>2, <2>1, FreshDisk DEF Init, StoreType
  <1> QED
    BY <1>1, <1>3, BaseParts

LEMMA ReturnType ==
    ASSUME LocalsType, NEW t \in Threads, NEW s \in {"SUCCESS", "FAILURE"}, Return(t, s)
    PROVE  LocalsType'
  BY BoundsAssumption, CapacityType DEF LocalsType, Return, Clear, InLoop, Offsets, WriteIds

LEMMA LocalsStep ==
    ASSUME BaseInv, NEW t \in Threads, ThreadStep(t)
    PROVE  LocalsType'
  <1> USE BaseParts, BoundsAssumption, CapacityType
  <1>1. ASSUME NEW o \in Offsets, NEW n \in 0 .. MaxLen, WriteBegin(t, o, n) PROVE LocalsType'
    <2>1. writes + 1 \in WriteIds
      BY <1>1 DEF WriteBegin, StoreType, WriteIds
    <2>2. rivals' \in [Threads -> SUBSET WriteIds]
      BY <1>1, <2>1 DEF WriteBegin, LocalsType
    <2> QED
      BY <1>1, <2>1, <2>2 DEF WriteBegin, LocalsType, InLoop
  <1>2. ASSUME NEW o \in Offsets, NEW n \in 0 .. MaxLen, ReadBegin(t, o, n) PROVE LocalsType'
    BY <1>2 DEF ReadBegin, LocalsType, InLoop
  <1>3. CASE WritePrimary(t) \/ UpdateSizes(t) \/ SaveOpen(t) \/ ReadPrimaryFails(t)
    BY <1>3 DEF WritePrimary, UpdateSizes, SaveOpen, ReadPrimaryFails, locals, LocalsType, InLoop
  <1>4. CASE WriteMirror(t)
    <2>1. InLoop(t)
      BY <1>4 DEF WriteMirror, InLoop
    <2>2. /\ pos[t] + Chunk(t) \in 0 .. MaxLen
          /\ ~Last(t) => pos[t] + Chunk(t) < len[t]
      BY <2>1, ChunkType DEF LocalsType, Last
    <2> QED
      BY <1>4, <2>2 DEF WriteMirror, request, LocalsType, InLoop
  <1>5. CASE WritePrimaryFails(t) \/ WriteMirrorFails(t) \/ ReadMirrorFails(t)
    BY <1>5, ReturnType DEF WritePrimaryFails, WriteMirrorFails, ReadMirrorFails
  <1>6. CASE SaveMemory(t) \/ SaveOpenFails(t) \/ SaveClose(t) \/ SaveWriteFails(t)
    BY <1>6, ReturnType DEF SaveMemory, SaveOpenFails, SaveClose, SaveWriteFails, Acknowledge
  <1>7. CASE ReadPrimary(t) \/ ReadMirror(t)
    <2>1. InLoop(t) /\ ReadChunk(t)
      BY <1>7 DEF ReadPrimary, ReadMirror, InLoop
    <2>2. CASE Return(t, "SUCCESS")
      BY <2>2, ReturnType
    <2>3. CASE ~Last(t) /\ ~Return(t, "SUCCESS")
      <3>1. pos[t] + Chunk(t) \in 0 .. MaxLen /\ pos[t] + Chunk(t) < len[t]
        BY <2>1, <2>3, ChunkType DEF LocalsType, Last
      <3> QED
        BY <2>1, <2>3, <3>1 DEF ReadChunk, request, LocalsType, InLoop
    <2> QED
      BY <2>1, <2>2, <2>3 DEF ReadChunk
  <1> QED
    BY <1>1, <1>2, <1>3, <1>4, <1>5, <1>6, <1>7 DEF ThreadStep, WriteStep, ReadStep

\* What a kill leaves of a map.
LEMMA PrefixType ==
    ASSUME NEW s, SizesType(s), NEW f \in Prefixes(s)
    PROVE  /\ FileType(f) /\ DOMAIN f.entries \subseteq DOMAIN s
           /\ \A o \in DOMAIN f.entries : f.entries[o] = s[o]
  <1>1. PICK k \in 0 .. Capacity + 1, b \in BOOLEAN :
          f = [entries |-> [o \in {p \in DOMAIN s : p < k} |-> s[o]], torn |-> b]
    BY DEF Prefixes
  <1>2. /\ f.entries = [o \in {p \in DOMAIN s : p < k} |-> s[o]]
        /\ f.torn = b
    BY <1>1
  <1> QED
    BY <1>2 DEF SizesType, FileType

\* What a start can read is part of the file.
LEMMA LoadsType ==
    ASSUME NEW f, FileType(f), NEW s \in Loads(f)
    PROVE  /\ SizesType(s) /\ DOMAIN s \subseteq DOMAIN f.entries
           /\ \A o \in DOMAIN s : s[o] = f.entries[o]
  <1>1. \/ s = NoSizes \/ s = f.entries
        \/ \E p \in Prefixes(f.entries) : s = p.entries
    BY DEF Loads, Load
  <1>2. SizesType(f.entries)
    BY DEF FileType
  <1>3. CASE s = NoSizes
    BY <1>3 DEF NoSizes, SizesType
  <1>4. CASE s = f.entries
    BY <1>2, <1>4
  <1>5. CASE \E p \in Prefixes(f.entries) : s = p.entries
    BY <1>2, <1>5, PrefixType DEF FileType
  <1> QED
    BY <1>1, <1>3, <1>4, <1>5

LEMMA AcknowledgeType ==
    ASSUME BaseInv, NEW t \in Threads, Acknowledge(t)
    PROVE  /\ cand' \in [Bytes -> SUBSET WriteIds] /\ acked' \subseteq Offsets
  BY DEF Acknowledge, BaseInv, TypeOK

LEMMA StoreStep ==
    ASSUME BaseInv, NEW t \in Threads, ThreadStep(t), UNCHANGED backend
    PROVE  StoreType'
  <1> USE BaseParts
  <1>1. ASSUME NEW o \in Offsets, NEW n \in 0 .. MaxLen, WriteBegin(t, o, n) PROVE StoreType'
    <2>1. writes + 1 \in WriteIds
      BY <1>1, BoundsAssumption DEF WriteBegin, StoreType, WriteIds
    <2> QED
      BY <1>1, <2>1 DEF WriteBegin, StoreType
  <1>2. ASSUME NEW o \in Offsets, NEW n \in 0 .. MaxLen, ReadBegin(t, o, n) PROVE StoreType'
    BY <1>2 DEF ReadBegin, StoreType, history
  <1>3. CASE WritePrimary(t)
    <2>1. InLoop(t) /\ At(t) \in Nat /\ Chunk(t) \in Int
      BY <1>3, ChunkType DEF WritePrimary, InLoop
    <2>2. disk' \in [Minions -> [0 .. MinionSize - 1 -> WriteIds]]
      BY <1>3, <2>1, MinionType, PutType DEF WritePrimary, Prim
    <2> QED
      BY <1>3, <2>2 DEF WritePrimary, StoreType, history
  <1>4. CASE WriteMirror(t)
    <2>1. InLoop(t) /\ At(t) \in Nat /\ Chunk(t) \in Int
      BY <1>4, ChunkType DEF WriteMirror, InLoop
    <2>2. disk' \in [Minions -> [0 .. MinionSize - 1 -> WriteIds]]
      BY <1>4, <2>1, MinionType, PutType DEF WriteMirror, Prim, Mirr
    <2> QED
      BY <1>4, <2>2 DEF WriteMirror, StoreType, history
  <1>5. CASE WritePrimaryFails(t)
    <2>1. InLoop(t) /\ At(t) \in Nat
      BY <1>5, ChunkType DEF WritePrimaryFails, InLoop
    <2>2. disk' \in [Minions -> [0 .. MinionSize - 1 -> WriteIds]]
      BY <1>5, <2>1, MinionType, PutFailsType DEF WritePrimaryFails, Prim
    <2> QED
      BY <1>5, <2>2 DEF WritePrimaryFails, StoreType, history
  <1>6. CASE WriteMirrorFails(t)
    <2>1. InLoop(t) /\ At(t) \in Nat
      BY <1>6, ChunkType DEF WriteMirrorFails, InLoop
    <2>2. disk' \in [Minions -> [0 .. MinionSize - 1 -> WriteIds]]
      BY <1>6, <2>1, MinionType, PutFailsType DEF WriteMirrorFails, Prim, Mirr
    <2> QED
      BY <1>6, <2>2 DEF WriteMirrorFails, StoreType, history
  <1>7. CASE UpdateSizes(t)
    <2>1. off[t] \in Offsets /\ len[t] \in 0 .. MaxLen
      BY DEF LocalsType
    <2>2. SizesType(sizes')
      BY <1>7, <2>1 DEF UpdateSizes, StoreType, SizesType
    <2> QED
      BY <1>7, <2>2 DEF UpdateSizes, StoreType, history
  <1>8. CASE SaveOpen(t)
    BY <1>8 DEF SaveOpen, StoreType, history, CreateMetadataStore, NoSizes, FileType, SizesType
  <1>9. CASE SaveMemory(t) \/ SaveClose(t)
    <2>1. FileType(file')
      <3>1. file'.entries = sizes /\ file'.torn = FALSE
        BY <1>9 DEF SaveMemory, SaveClose
      <3>2. SizesType(sizes)
        BY DEF StoreType
      <3> QED
        BY <3>1, <3>2 DEF FileType, SizesType
    <2> QED
      BY <1>9, <2>1, AcknowledgeType DEF SaveMemory, SaveClose, StoreType
  <1>10. CASE SaveOpenFails(t)
    BY <1>10, AcknowledgeType DEF SaveOpenFails, StoreType
  <1>11. CASE SaveWriteFails(t)
    <2>1. FileType(file')
      BY <1>11, PrefixType DEF SaveWriteFails, StoreType
    <2> QED
      BY <1>11, <2>1, AcknowledgeType DEF SaveWriteFails, StoreType
  <1>12. CASE ReadStep(t)
    BY <1>12 DEF ReadStep, ReadPrimary, ReadPrimaryFails, ReadMirror, ReadMirrorFails, ReadChunk,
                 StoreType, history
  <1> QED
    BY <1>1, <1>2, <1>3, <1>4, <1>5, <1>6, <1>7, <1>8, <1>9, <1>10, <1>11, <1>12
    DEF ThreadStep, WriteStep

LEMMA CrashBase ==
    ASSUME BaseInv, Crash \/ CrashMemory, UNCHANGED backend
    PROVE  BaseInv'
  <1> USE BaseParts
  <1>1. LocalsType'
    BY BoundsAssumption, CapacityType
    DEF Crash, CrashMemory, Forget, LocalsType, InLoop, Offsets, WriteIds
  <1>2. CASE Crash
    <2>1. FileType(file')
      BY <1>2, PrefixType DEF Crash, StoreType
    <2>2. SizesType(sizes')
      BY <1>2, <2>1, LoadsType DEF Crash
    <2> QED
      <3>1. metaLost' \in BOOLEAN /\ unread' \in BOOLEAN
        BY <1>2, Zenon DEF Crash, StoreType
      <3>2. StoreType'
        BY <1>2, <2>1, <2>2, <3>1 DEF Crash, StoreType
      <3> QED
        BY <1>1, <3>2, BasePartsPrime
  <1>3. CASE CrashMemory
    <2>1. StoreType'
      <3>1. SizesType(sizes') /\ FileType(file')
        <4>1. sizes' = NoSizes /\ file' = CreateMetadataStore
          BY <1>3 DEF CrashMemory
        <4> QED
          BY <4>1, EmptyType
      <3> QED
        BY <1>3, <3>1, FreshDisk, BoundsAssumption DEF CrashMemory, StoreType, WriteIds
    <2> QED
      BY <1>1, <2>1, BasePartsPrime
  <1> QED
    BY <1>2, <1>3

\* Types are preserved.
LEMMA BaseStep == BaseInv /\ [Next]_vars => BaseInv'
  <1> SUFFICES ASSUME BaseInv, [Next]_vars PROVE BaseInv'
    OBVIOUS
  <1>1. CASE UNCHANGED vars
    BY <1>1 DEF vars, BaseInv, TypeOK
  <1>2. CASE Next
    <2>1. CASE \E t \in Threads : ThreadStep(t)
      BY <1>2, <2>1, NextCases, LocalsStep, StoreStep, BasePartsPrime
    <2> QED
      BY <1>2, <2>1, NextCases, CrashBase
  <1> QED
    BY <1>1, <1>2


-----------------------------------------------------------------------------
(* The loops stay inside the array.                                        *)

\* What passes the bounds check ends in the array.
LEMMA Advance ==
    ASSUME BaseInv, NEW t \in Threads, InLoop(t), Fits(t)
    PROVE  At(t) + Chunk(t) <= Capacity
  BY ChunkType, BoundsCheck DEF Fits

LEMMA MyChunk ==
    ASSUME BaseInv, ChunkInv, NEW t \in Threads, ThreadStep(t), UNCHANGED backend
    PROVE  ChunkOf(t)'
  <1> USE DEF ChunkOf
  <1>a. ChunkOf(t) /\ LocalsType
    BY BaseParts DEF ChunkInv
  <1>1. ASSUME NEW o \in Offsets, NEW n \in 0 .. MaxLen, WriteBegin(t, o, n) PROVE ChunkOf(t)'
    <2>1. /\ off'[t] = o /\ len'[t] = n /\ pos'[t] = 0
          /\ pc'[t] = IF n > 0 THEN "wPrimary" ELSE "wMeta"
      BY <1>1, <1>a DEF WriteBegin, LocalsType
    <2>2. At(t)' = o /\ o \in Nat /\ o <= Capacity
      BY <2>1, CapacityType DEF At, Offsets
    <2> QED
      BY <2>1, <2>2, BoundsAssumption
  <1>2. ASSUME NEW o \in Offsets, NEW n \in 0 .. MaxLen, ReadBegin(t, o, n) PROVE ChunkOf(t)'
    <2>1. off'[t] = o /\ pos'[t] = 0 /\ pc'[t] = "rPrimary"
      BY <1>2, <1>a DEF ReadBegin, LocalsType
    <2>2. At(t)' = o /\ o \in Nat /\ o <= Capacity
      BY <2>1, CapacityType DEF At, Offsets
    <2> QED
      BY <2>1, <2>2
  <1>3. CASE WritePrimary(t) \/ ReadPrimaryFails(t) \/ UpdateSizes(t) \/ SaveOpen(t)
    <2>1. UNCHANGED <<off, len, pos>>
      BY <1>3 DEF WritePrimary, ReadPrimaryFails, UpdateSizes, SaveOpen, locals
    <2>2. /\ At(t)' = At(t) /\ Prim(t)' = Prim(t) /\ Fits(t)' = Fits(t) /\ Faulty' = Faulty
      BY <2>1, SameChunk
    <2> QED
      BY <1>3, <1>a, <2>1, <2>2
      DEF WritePrimary, ReadPrimaryFails, UpdateSizes, SaveOpen, LocalsType
  <1>4. CASE WriteMirror(t)
    <2>1. InLoop(t) /\ Fits(t)
      BY <1>4, <1>a DEF WriteMirror, InLoop
    <2>2. /\ off'[t] = off[t] /\ len'[t] = len[t] /\ pos'[t] = pos[t] + Chunk(t)
          /\ pc'[t] = IF Last(t) THEN "wMeta" ELSE "wPrimary"
      BY <1>4, <1>a DEF WriteMirror, request, LocalsType
    <2>3. At(t)' = At(t) + Chunk(t) /\ At(t)' <= Capacity
      BY <2>1, <2>2, ChunkType, Advance DEF At
    <2>4. Last(t) => off[t] + len[t] = At(t)'
      BY <2>1, <2>2, ChunkType DEF At, Last
    <2> QED
      BY <2>2, <2>3, <2>4 DEF Last
  <1>5. CASE ReadPrimary(t) \/ ReadMirror(t)
    <2>1. InLoop(t) /\ Fits(t) /\ ReadChunk(t)
      BY <1>5 DEF ReadPrimary, ReadMirror, InLoop
    <2>2. CASE pc'[t] = "idle"
      BY <2>2
    <2>3. CASE pc'[t] # "idle"
      <3>1. off'[t] = off[t] /\ pos'[t] = pos[t] + Chunk(t) /\ pc'[t] = "rPrimary"
        BY <2>1, <2>3, <1>a DEF ReadChunk, Return, request, LocalsType
      <3>2. At(t)' = At(t) + Chunk(t) /\ At(t)' <= Capacity
        BY <2>1, <3>1, ChunkType, Advance DEF At
      <3> QED
        BY <3>1, <3>2
    <2> QED
      BY <2>2, <2>3
  <1>6. CASE \/ WritePrimaryFails(t) \/ WriteMirrorFails(t) \/ ReadMirrorFails(t)
             \/ SaveMemory(t) \/ SaveOpenFails(t) \/ SaveClose(t) \/ SaveWriteFails(t)
    <2>1. pc'[t] = "idle"
      BY <1>6, <1>a DEF WritePrimaryFails, WriteMirrorFails, ReadMirrorFails, SaveMemory,
                 SaveOpenFails, SaveClose, SaveWriteFails, Acknowledge, Return, LocalsType
    <2> QED
      BY <2>1
  <1> QED
    BY <1>1, <1>2, <1>3, <1>4, <1>5, <1>6 DEF ThreadStep, WriteStep, ReadStep

\* A thread that is in no request satisfies it.
LEMMA IdleChunk ==
    ASSUME NEW t \in Threads, pc'[t] = "idle" PROVE ChunkOf(t)'
  BY DEF ChunkOf

LEMMA ChunkStep ==
    ASSUME BaseInv, ChunkInv, [Next]_vars PROVE ChunkInv'
  <1>1. CASE UNCHANGED vars
    BY <1>1 DEF vars, ChunkInv, ChunkOf, At, Prim, Fits, Faulty, Chunk
  <1>2. CASE Next
    <2>1. ASSUME NEW t \in Threads, ThreadStep(t), NEW u \in Threads PROVE ChunkOf(u)'
      <3>1. CASE u = t
        BY <1>2, <2>1, <3>1, NextCases, MyChunk
      <3>2. CASE u # t
        <4>1. /\ pc'[u] = pc[u] /\ off'[u] = off[u] /\ len'[u] = len[u] /\ pos'[u] = pos[u]
          BY <2>1, <3>2, Solo DEF OthersStay
        <4>2. /\ At(u)' = At(u) /\ Prim(u)' = Prim(u) /\ Fits(u)' = Fits(u) /\ Faulty' = Faulty
          BY <1>2, <4>1, NextCases, SameChunk
        <4>3. ChunkOf(u)
          BY DEF ChunkInv
        <4> QED
          BY <4>1, <4>2, <4>3 DEF ChunkOf
      <3> QED
        BY <3>1, <3>2
    <2>2. CASE Crash \/ CrashMemory
      BY <2>2, IdleChunk DEF Crash, CrashMemory, Forget, ChunkInv
    <2> QED
      BY <1>2, <2>1, <2>2, NextCases DEF ChunkInv
  <1> QED
    BY <1>1, <1>2

-----------------------------------------------------------------------------
(* The two copies of a byte.                                               *)

\* What the first n bytes of a chunk change, on minion m.
LEMMA PutByte ==
    ASSUME BaseInv, NEW t \in Threads, NEW m \in Minions, NEW n \in Nat, Put(t, m, n),
           NEW k \in Minions, NEW i \in 0 .. MinionSize - 1
    PROVE  disk'[k][i] = IF k = m /\ i \in LocalOffset(At(t)) .. LocalOffset(At(t)) + n - 1
                         THEN id[t] ELSE disk[k][i]
  <1>1. disk[m] \in [0 .. MinionSize - 1 -> WriteIds] /\ DOMAIN disk = Minions
    BY DEF BaseInv, TypeOK
  <1> QED
    BY <1>1 DEF Put

\* The bytes whose place those are.
LEMMA PutPlace ==
    ASSUME BaseInv, NEW t \in Threads, InLoop(t), Fits(t), NEW n \in 0 .. Chunk(t),
           NEW b \in Bytes
    PROVE  (/\ PrimaryIndex(b) = Prim(t)
            /\ LocalOffset(b) \in LocalOffset(At(t)) .. LocalOffset(At(t)) + n - 1)
           <=> b \in At(t) .. At(t) + n - 1
  <1>1. At(t) \in Nat /\ Chunk(t) \in Nat \ {0} /\ n \in Nat
    BY ChunkType
  <1>2. LocalOffset(At(t)) = At(t) % MinionSize /\ At(t) % MinionSize \in Nat
    BY <1>1, BoundsCheck, DivMod DEF Fits
  <1>3. CASE n = 0
    BY <1>1, <1>2, <1>3
  <1>4. CASE n # 0
    <2>1. n \in Nat \ {0} /\ InBounds(LocalOffset(At(t)), n)
      BY <1>1, <1>2, <1>4 DEF Fits, InBounds
    <2> QED
      BY <1>1, <2>1, ChunkPlace, PlaceUnique DEF Prim
  <1> QED
    BY <1>3, <1>4

LEMMA PutPrimary ==
    ASSUME BaseInv, NEW t \in Threads, InLoop(t), Fits(t), NEW n \in 0 .. Chunk(t),
           Put(t, Prim(t), n), NEW b \in Bytes
    PROVE  /\ Primary(b)' = IF b \in At(t) .. At(t) + n - 1 THEN id[t] ELSE Primary(b)
           /\ Mirror(b)' = Mirror(b)
  <1>1. At(t) \in Nat /\ n \in Nat
    BY ChunkType
  <1>2. /\ Prim(t) \in Minions /\ Prim(t) \in Primaries
        /\ PrimaryIndex(b) \in Minions /\ MirrorIndex(PrimaryIndex(b)) \in Minions
        /\ MirrorIndex(PrimaryIndex(b)) # Prim(t)
        /\ LocalOffset(b) \in 0 .. MinionSize - 1
    <2>1. Prim(t) \in Primaries /\ Prim(t) \in Minions
      <3>1. At(t) \div MinionSize \in Nat
        BY <1>1, DivMod
      <3> QED
        BY <3>1 DEF Prim, PrimaryIndex, Primaries, Minions
    <2> QED
      BY <2>1, PlaceExists
  <1> QED
    BY <1>1, <1>2, PutByte, PutPlace DEF Primary, Mirror

LEMMA PutMirror ==
    ASSUME BaseInv, NEW t \in Threads, InLoop(t), Fits(t), NEW n \in 0 .. Chunk(t),
           Put(t, Mirr(t), n), NEW b \in Bytes
    PROVE  /\ Primary(b)' = Primary(b)
           /\ Mirror(b)' = IF b \in At(t) .. At(t) + n - 1 THEN id[t] ELSE Mirror(b)
  <1>1. At(t) \in Nat /\ n \in Nat
    BY ChunkType
  <1>2. Prim(t) \in Primaries /\ PrimaryIndex(b) \in Primaries
    <2>1. At(t) \div MinionSize \in Nat
      BY <1>1, DivMod
    <2> QED
      BY <2>1, PlaceExists DEF Prim, PrimaryIndex, Primaries
  <1>3. /\ Mirr(t) \in Minions
        /\ PrimaryIndex(b) \in Minions /\ MirrorIndex(PrimaryIndex(b)) \in Minions
        /\ PrimaryIndex(b) # Mirr(t)
        /\ MirrorIndex(PrimaryIndex(b)) = Mirr(t) <=> PrimaryIndex(b) = Prim(t)
        /\ LocalOffset(b) \in 0 .. MinionSize - 1
    BY <1>2, PlaceExists DEF Mirr, MirrorIndex, Minions, Primaries
  <1> QED
    BY <1>1, <1>3, PutByte, PutPlace DEF Primary, Mirror

\* What a step of thread t may do to the copies: to leave them, or to write
\* its number into bytes of its request.
OwnBytes(t) == off[t] .. off[t] + len[t] - 1

DiskEffect(t) ==
    \A b \in Bytes :
        /\ Primary(b)' = Primary(b) \/ (Writing(t) /\ b \in OwnBytes(t) /\ Primary(b)' = id[t])
        /\ Mirror(b)' = Mirror(b) \/ (Writing(t) /\ b \in OwnBytes(t) /\ Mirror(b)' = id[t])

LEMMA PutEffect ==
    ASSUME BaseInv, NEW t \in Threads, pc[t] \in {"wPrimary", "wMirror"}, Fits(t),
           NEW n \in 0 .. Chunk(t), Put(t, Prim(t), n) \/ Put(t, Mirr(t), n)
    PROVE  DiskEffect(t)
  <1>1. InLoop(t) /\ Writing(t)
    BY DEF InLoop, Writing
  <1>2. ASSUME NEW b \in Bytes, b \in At(t) .. At(t) + n - 1 PROVE b \in OwnBytes(t)
    BY <1>1, <1>2, ChunkType DEF At, OwnBytes
  <1> QED
    BY <1>1, <1>2, PutPrimary, PutMirror DEF DiskEffect

LEMMA StillEffect ==
    ASSUME NEW t \in Threads, UNCHANGED disk PROVE DiskEffect(t)
  BY DEF DiskEffect, Primary, Mirror

LEMMA FailEffect ==
    ASSUME BaseInv, NEW t \in Threads, pc[t] \in {"wPrimary", "wMirror"},
           PutFails(t, Prim(t)) \/ PutFails(t, Mirr(t))
    PROVE  DiskEffect(t)
  <1>1. CASE UNCHANGED disk
    BY <1>1, StillEffect
  <1>2. ASSUME Fits(t), NEW n \in 0 .. Chunk(t) - 1, Put(t, Prim(t), n) \/ Put(t, Mirr(t), n)
        PROVE  DiskEffect(t)
    <2>1. n \in 0 .. Chunk(t)
      BY ChunkType DEF InLoop
    <2> QED
      BY <1>2, <2>1, PutEffect
  <1> QED
    BY <1>1, <1>2 DEF PutFails

LEMMA DiskStep ==
    ASSUME BaseInv, ChunkInv, NEW t \in Threads, ThreadStep(t)
    PROVE  DiskEffect(t)
  <1>1. CASE WritePrimary(t) \/ WriteMirror(t)
    <2>1. Fits(t)
      BY <1>1 DEF WritePrimary, WriteMirror, ChunkInv, ChunkOf
    <2>2. pc[t] \in {"wPrimary", "wMirror"}
      BY <1>1 DEF WritePrimary, WriteMirror
    <2>3. Chunk(t) \in 0 .. Chunk(t)
      BY <2>2, ChunkType DEF InLoop
    <2> QED
      BY <1>1, <2>1, <2>2, <2>3, PutEffect DEF WritePrimary, WriteMirror
  <1>2. CASE WritePrimaryFails(t) \/ WriteMirrorFails(t)
    BY <1>2, FailEffect DEF WritePrimaryFails, WriteMirrorFails
  <1>3. CASE UNCHANGED disk
    BY <1>3, StillEffect
  <1> QED
    BY <1>1, <1>2, <1>3
    DEF ThreadStep, WriteStep, ReadStep, WriteBegin, ReadBegin, UpdateSizes, SaveMemory, SaveOpen,
        SaveOpenFails, SaveClose, SaveWriteFails, ReadPrimary, ReadPrimaryFails, ReadMirror,
        ReadMirrorFails, ReadChunk

\* What a writing thread has copied survives the steps of the others: they are
\* its rivals.
LEMMA OthersCopied ==
    ASSUME BaseInv, CopyInv, NEW t \in Threads, OthersStay(t), DiskEffect(t), UNCHANGED backend,
           NEW u \in Threads, u # t
    PROVE  Copied(u)' /\ HalfCopied(u)'
  <1>1. /\ pc'[u] = pc[u] /\ off'[u] = off[u] /\ id'[u] = id[u]
        /\ At(u)' = At(u) /\ Chunk(u)' = Chunk(u) /\ Writing(u)' = Writing(u)
    BY SameChunk DEF OthersStay, Writing
  <1>2. Own(u) \subseteq Own(u)'
    BY DEF Own, OthersStay
  <1>3. Writing(t) /\ Writing(u) => id[t] \in Own(u)
    BY DEF CopyInv, MutualRivals, Own
  <1>4. pc[u] = "wMirror" => Writing(u)
    BY DEF Writing
  <1>5. Copied(u) /\ HalfCopied(u)
    BY DEF CopyInv
  <1>6. Copied(u)'
    BY <1>1, <1>2, <1>3, <1>5 DEF Copied, DiskEffect
  <1>7. HalfCopied(u)'
    BY <1>1, <1>2, <1>3, <1>4, <1>5 DEF HalfCopied, DiskEffect
  <1> QED
    BY <1>6, <1>7

\* The steps that leave the candidates alone and begin no write.
LEMMA CopyKept ==
    ASSUME BaseInv, CopyInv, NEW t \in Threads, OthersStay(t), DiskEffect(t),
           UNCHANGED <<backend, cand>>,
           Writing(t)' => /\ Writing(t) /\ off'[t] = off[t] /\ len'[t] = len[t]
                          /\ id'[t] = id[t] /\ rivals'[t] = rivals[t],
           Copied(t)', HalfCopied(t)'
    PROVE  CopyInv'
  <1>1. \A u \in Threads : Copied(u)' /\ HalfCopied(u)'
    BY OthersCopied
  <1>2. \A u \in Threads : u # t => /\ Writing(u)' = Writing(u) /\ off'[u] = off[u]
                                    /\ len'[u] = len[u] /\ id'[u] = id[u]
                                    /\ rivals[u] \subseteq rivals'[u]
    BY DEF OthersStay, Writing
  <1>3. MutualRivals'
    BY <1>2 DEF CopyInv, MutualRivals
  <1>4. \A u \in Threads : Candidate(u)'
    BY <1>2 DEF CopyInv, Candidate
  <1>5. NoStaleCopy'
    <2> SUFFICES ASSUME NEW b \in Bytes PROVE Primary(b)' \in cand[b] /\ Mirror(b)' \in cand[b]
      BY DEF NoStaleCopy
    <2>1. Primary(b) \in cand[b] /\ Mirror(b) \in cand[b]
      BY DEF CopyInv, NoStaleCopy
    <2>2. Writing(t) /\ b \in OwnBytes(t) => id[t] \in cand[b]
      BY DEF CopyInv, Candidate, OwnBytes
    <2> QED
      BY <2>1, <2>2 DEF DiskEffect
  <1> QED
    BY <1>1, <1>3, <1>4, <1>5 DEF CopyInv

\* A thread that is not writing afterwards.
LEMMA NotWriting ==
    ASSUME NEW t \in Threads, ~Writing(t)'
    PROVE  Copied(t)' /\ HalfCopied(t)' /\ Candidate(t)'
  BY DEF Copied, HalfCopied, Candidate, Writing

LEMMA CopyWriteBegin ==
    ASSUME BaseInv, CopyInv, NEW t \in Threads, OthersStay(t), DiskEffect(t), UNCHANGED backend,
           NEW o \in Offsets, NEW n \in 0 .. MaxLen, WriteBegin(t, o, n)
    PROVE  CopyInv'
  <1> DEFINE w == writes + 1
  <1>1. /\ id' = [id EXCEPT ![t] = w] /\ off'[t] = o /\ len'[t] = n /\ pos'[t] = 0
        /\ pc'[t] \in {"wPrimary", "wMeta"} /\ ~Writing(t) /\ UNCHANGED disk
    BY DEF WriteBegin, BaseInv, TypeOK, Writing
  <1>2. \A b \in Bytes : cand[b] \subseteq cand'[b] /\ (b \in o .. o + n - 1 => w \in cand'[b])
    BY DEF WriteBegin
  <1>3. /\ \A u \in Threads : Writing(u) => id[u] \in rivals'[t]
        /\ \A u \in Threads : Writing(u) => w \in rivals'[u]
    BY <1>1 DEF WriteBegin
  <1>4. \A u \in Threads : u # t => /\ Writing(u)' = Writing(u) /\ off'[u] = off[u]
                                    /\ len'[u] = len[u] /\ id'[u] = id[u]
                                    /\ rivals[u] \subseteq rivals'[u]
    BY DEF OthersStay, Writing
  <1>5. id'[t] = w
    BY <1>1 DEF BaseInv, TypeOK
  <1>6. MutualRivals'
    BY <1>3, <1>4, <1>5 DEF CopyInv, MutualRivals
  <1>7. \A u \in Threads : Candidate(u)'
    BY <1>1, <1>2, <1>4, <1>5 DEF CopyInv, Candidate
  <1>8. Copied(t)' /\ HalfCopied(t)'
    <2>1. At(t)' = o
      BY <1>1, CapacityType DEF At, Offsets
    <2>2. \A b \in Bytes : b \notin off'[t] .. (At(t)' - 1)
      BY <1>1, <2>1, CapacityType DEF Offsets, Bytes
    <2>3. Copied(t)'
      BY <2>2 DEF Copied
    <2>4. HalfCopied(t)'
      BY <1>1 DEF HalfCopied
    <2> QED
      BY <2>3, <2>4
  <1>9. \A u \in Threads : Copied(u)' /\ HalfCopied(u)'
    BY <1>8, OthersCopied
  <1>10. NoStaleCopy'
    BY <1>1, <1>2 DEF CopyInv, NoStaleCopy, Primary, Mirror
  <1> QED
    BY <1>6, <1>7, <1>9, <1>10 DEF CopyInv

\* An acknowledgement discards candidates that no copy holds and no write under
\* way needs.
LEMMA CopyAcknowledge ==
    ASSUME BaseInv, ChunkInv, CopyInv, NEW t \in Threads, OthersStay(t), UNCHANGED <<backend, disk>>,
           pc[t] \in {"wOpen", "wSave"}, Acknowledge(t)
    PROVE  CopyInv'
  <1>1. Writing(t) /\ ~Writing(t)' /\ pos[t] = len[t]
    BY DEF Writing, Acknowledge, Return, BaseInv, TypeOK, ChunkInv, ChunkOf
  <1>2. \A b \in Bytes : cand'[b] = IF b \in OwnBytes(t) THEN cand[b] \cap Own(t) ELSE cand[b]
    BY DEF Acknowledge, OwnBytes, Own
  <1>3. \A u \in Threads : u # t => /\ Writing(u)' = Writing(u) /\ off'[u] = off[u]
                                    /\ len'[u] = len[u] /\ id'[u] = id[u]
                                    /\ rivals[u] \subseteq rivals'[u]
    BY DEF OthersStay, Writing
  <1>4. MutualRivals'
    BY <1>1, <1>3 DEF CopyInv, MutualRivals
  <1>5. \A u \in Threads : Candidate(u)'
    <2> SUFFICES ASSUME NEW u \in Threads, Writing(u)', u # t PROVE Candidate(u)'
      BY <1>1, NotWriting
    <2>1. id[u] \in Own(t)
      BY <1>1, <1>3 DEF CopyInv, MutualRivals, Own
    <2>2. Candidate(u)
      BY DEF CopyInv
    <2> QED
      BY <1>2, <1>3, <2>1, <2>2 DEF Candidate
  <1>6. \A u \in Threads : Copied(u)' /\ HalfCopied(u)'
    BY <1>1, NotWriting, OthersCopied, StillEffect
  <1>7. NoStaleCopy'
    <2> SUFFICES ASSUME NEW b \in Bytes PROVE Primary(b) \in cand'[b] /\ Mirror(b) \in cand'[b]
      BY DEF NoStaleCopy, Primary, Mirror
    <2>1. Primary(b) \in cand[b] /\ Mirror(b) \in cand[b]
      BY DEF CopyInv, NoStaleCopy
    <2>2. b \in OwnBytes(t) => Primary(b) \in Own(t) /\ Mirror(b) \in Own(t)
      <3>1. OwnBytes(t) = off[t] .. At(t) - 1
        <4>1. pos[t] = len[t]
          BY <1>1
        <4>2. At(t) = off[t] + len[t]
          BY <4>1 DEF At
        <4>3. off[t] \in Int /\ len[t] \in Int
          BY CapacityType, BoundsAssumption DEF BaseInv, TypeOK, Offsets
        <4> QED
          BY <4>2, <4>3 DEF OwnBytes
      <3> QED
        BY <1>1, <3>1 DEF CopyInv, Copied
    <2> QED
      BY <1>2, <2>1, <2>2
  <1> QED
    BY <1>4, <1>5, <1>6, <1>7 DEF CopyInv

LEMMA CopyThread ==
    ASSUME BaseInv, ChunkInv, CopyInv, NEW t \in Threads, ThreadStep(t), UNCHANGED backend
    PROVE  CopyInv'
  <1>a. OthersStay(t) /\ DiskEffect(t)
    BY Solo, DiskStep
  <1>b. LocalsType
    BY BaseParts
  <1>c. Copied(t) /\ HalfCopied(t)
    BY DEF CopyInv
  <1>1. ASSUME NEW o \in Offsets, NEW n \in 0 .. MaxLen, WriteBegin(t, o, n) PROVE CopyInv'
    BY <1>a, <1>1, CopyWriteBegin
  <1>2. CASE ~Writing(t)' /\ UNCHANGED cand
    BY <1>a, <1>2, CopyKept, NotWriting
  <1>3. CASE WritePrimary(t)
    <2>1. /\ InLoop(t) /\ Fits(t) /\ Writing(t) /\ Put(t, Prim(t), Chunk(t))
          /\ UNCHANGED <<cand, off, len, pos, id, rivals>>
      BY <1>3 DEF WritePrimary, InLoop, Writing, locals, history
    <2>2. At(t)' = At(t) /\ Chunk(t)' = Chunk(t) /\ Own(t)' = Own(t)
      BY <2>1, SameChunk DEF Own
    <2>3. Copied(t)'
      <3>1. \A b \in Bytes : /\ Primary(b)' = Primary(b) \/ Primary(b)' = id[t]
                             /\ Mirror(b)' = Mirror(b) \/ Mirror(b)' = id[t]
        BY <1>a DEF DiskEffect
      <3> QED
        BY <1>c, <2>1, <2>2, <3>1 DEF Copied, Own
    <2>4. HalfCopied(t)'
      <3>1. Chunk(t) \in 0 .. Chunk(t)
        BY <2>1, ChunkType
      <3>2. \A b \in Bytes : b \in At(t) .. At(t) + Chunk(t) - 1 => Primary(b)' = id[t]
        BY <2>1, <3>1, PutPrimary
      <3> QED
        BY <2>1, <2>2, <3>2 DEF HalfCopied, Own
    <2> QED
      BY <1>a, <2>1, <2>3, <2>4, CopyKept
  <1>4. CASE WriteMirror(t)
    <2>1. /\ InLoop(t) /\ Fits(t) /\ Writing(t) /\ Put(t, Mirr(t), Chunk(t)) /\ pc[t] = "wMirror"
          /\ UNCHANGED <<cand, off, len, id, rivals>> /\ pos'[t] = pos[t] + Chunk(t)
          /\ pc'[t] # "wMirror"
      BY <1>4, <1>b DEF WriteMirror, InLoop, Writing, request, history, ChunkInv, ChunkOf, LocalsType
    <2>2. At(t)' = At(t) + Chunk(t) /\ Own(t)' = Own(t) /\ At(t) \in Nat /\ Chunk(t) \in Nat
      BY <2>1, ChunkType DEF Own, At
    <2>3. Copied(t)'
      <3>1. Chunk(t) \in 0 .. Chunk(t)
        BY <2>2
      <3>2. \A b \in Bytes :
              /\ Primary(b)' = Primary(b)
              /\ Mirror(b)' = IF b \in At(t) .. At(t) + Chunk(t) - 1 THEN id[t] ELSE Mirror(b)
        BY <2>1, <3>1, PutMirror
      <3>3. ASSUME NEW b \in Bytes, b \in off[t] .. At(t)' - 1
            PROVE  Primary(b)' \in Own(t) /\ Mirror(b)' \in Own(t)
        <4>1. b \in off[t] .. At(t) - 1 \/ b \in At(t) .. At(t) + Chunk(t) - 1
          BY <2>2, <3>3, CapacityType DEF Bytes
        <4>2. CASE b \in At(t) .. At(t) + Chunk(t) - 1
          BY <1>c, <2>1, <3>2, <4>2 DEF HalfCopied, Own
        <4>3. CASE b \notin At(t) .. At(t) + Chunk(t) - 1 /\ b \in off[t] .. At(t) - 1
          BY <1>c, <2>1, <3>2, <4>3 DEF Copied
        <4> QED
          BY <4>1, <4>2, <4>3
      <3> QED
        BY <2>1, <2>2, <3>3 DEF Copied
    <2>4. HalfCopied(t)'
      BY <2>1 DEF HalfCopied
    <2> QED
      BY <1>a, <2>1, <2>3, <2>4, CopyKept
  <1>5. CASE UpdateSizes(t) \/ SaveOpen(t)
    <2>1. /\ Writing(t) /\ UNCHANGED <<disk, cand, off, len, pos, id, rivals>> /\ pc'[t] # "wMirror"
      BY <1>5, <1>b DEF UpdateSizes, SaveOpen, Writing, locals, history, LocalsType
    <2>2. At(t)' = At(t) /\ Own(t)' = Own(t)
      BY <2>1, SameChunk DEF Own
    <2>3. Copied(t)' /\ HalfCopied(t)'
      BY <1>c, <2>1, <2>2 DEF Copied, HalfCopied, Primary, Mirror
    <2> QED
      BY <1>a, <2>1, <2>3, CopyKept
  <1>6. CASE SaveMemory(t) \/ SaveOpenFails(t) \/ SaveClose(t) \/ SaveWriteFails(t)
    BY <1>a, <1>6, CopyAcknowledge DEF SaveMemory, SaveOpenFails, SaveClose, SaveWriteFails
  <1>7. CASE \/ WritePrimaryFails(t) \/ WriteMirrorFails(t) \/ ReadStep(t)
             \/ \E o \in Offsets, n \in 0 .. MaxLen : ReadBegin(t, o, n)
    <2>1. ~Writing(t)' /\ UNCHANGED cand
      BY <1>7, <1>b
      DEF Writing, WritePrimaryFails, WriteMirrorFails, ReadStep, ReadBegin, ReadPrimary, ReadMirror,
          ReadPrimaryFails, ReadMirrorFails, ReadChunk, Return, history, LocalsType
    <2> QED
      BY <1>2, <2>1
  <1> QED
    BY <1>1, <1>3, <1>4, <1>5, <1>6, <1>7 DEF ThreadStep, WriteStep

LEMMA CopyCrash ==
    ASSUME CopyInv, Crash \/ CrashMemory PROVE CopyInv'
  <1>1. \A u \in Threads : ~Writing(u)'
    BY DEF Crash, CrashMemory, Forget, Writing
  <1>2. MutualRivals' /\ \A u \in Threads : Candidate(u)' /\ Copied(u)' /\ HalfCopied(u)'
    BY <1>1, NotWriting DEF MutualRivals
  <1>3. CASE Crash
    <2>1. NoStaleCopy'
      BY <1>3 DEF Crash, CopyInv, NoStaleCopy, Primary, Mirror
    <2> QED
      BY <1>2, <2>1 DEF CopyInv
  <1>4. CASE CrashMemory
    <2>1. NoStaleCopy'
      BY <1>4, PlaceExists DEF CrashMemory, NoStaleCopy, Primary, Mirror, CreateMinions, NewMinion
    <2> QED
      BY <1>2, <2>1 DEF CopyInv
  <1> QED
    BY <1>3, <1>4

LEMMA CopyStep ==
    ASSUME BaseInv, ChunkInv, CopyInv, [Next]_vars PROVE CopyInv'
  <1>1. CASE UNCHANGED vars
    BY <1>1 DEF vars, CopyInv, NoStaleCopy, MutualRivals, Candidate, Copied, HalfCopied, Own,
                Writing, At, Chunk, Primary, Mirror
  <1>2. CASE Next
    BY <1>2, NextCases, CopyThread, CopyCrash
  <1> QED
    BY <1>1, <1>2

-----------------------------------------------------------------------------
(* The map and its store.                                                  *)

\* The steps of a thread outside the lock.
Outside(t) ==
    /\ pc[t] \notin {"wOpen", "wSave"} /\ pc'[t] \notin {"wOpen", "wSave"}
    /\ UNCHANGED <<sizes, file, acked, metaLost, unread>>

LEMMA OutsideCases ==
    ASSUME BaseInv, NEW t \in Threads, ThreadStep(t)
    PROVE  \/ Outside(t)
           \/ UpdateSizes(t) \/ SaveMemory(t) \/ SaveOpen(t) \/ SaveOpenFails(t)
           \/ SaveClose(t) \/ SaveWriteFails(t)
  <1>a. pc \in [Threads -> {"idle", "wPrimary", "wMirror", "wMeta", "wOpen", "wSave",
                            "rPrimary", "rMirror"}]
    BY DEF BaseInv, TypeOK
  <1>1. ASSUME NEW o \in Offsets, NEW n \in 0 .. MaxLen, WriteBegin(t, o, n) PROVE Outside(t)
    BY <1>a, <1>1 DEF Outside, WriteBegin
  <1>2. ASSUME NEW o \in Offsets, NEW n \in 0 .. MaxLen, ReadBegin(t, o, n) PROVE Outside(t)
    BY <1>a, <1>2 DEF Outside, ReadBegin, history
  <1>3. CASE WritePrimary(t) \/ WriteMirror(t)
    BY <1>a, <1>3 DEF Outside, WritePrimary, WriteMirror, history
  <1>4. CASE WritePrimaryFails(t) \/ WriteMirrorFails(t) \/ ReadMirrorFails(t)
    BY <1>a, <1>4 DEF Outside, WritePrimaryFails, WriteMirrorFails, ReadMirrorFails, Return, history
  <1>5. CASE ReadPrimary(t) \/ ReadMirror(t) \/ ReadPrimaryFails(t)
    BY <1>a, <1>5 DEF Outside, ReadPrimary, ReadMirror, ReadPrimaryFails, ReadChunk, Return, history
  <1> QED
    BY <1>1, <1>2, <1>3, <1>4, <1>5 DEF ThreadStep, WriteStep, ReadStep

LEMMA OutsideMeta ==
    ASSUME BaseInv, MetaInv, NEW t \in Threads, OthersStay(t), Outside(t), UNCHANGED backend
    PROVE  MetaInv'
  <1>1. OffsetsUnlocked' => OffsetsUnlocked
    BY DEF OffsetsUnlocked, Outside, OthersStay
  <1>2. (\A u \in Threads : pc'[u] # "wSave") => \A u \in Threads : pc[u] # "wSave"
    BY DEF Outside, OthersStay
  <1>3. \A u \in Threads : pc'[u] \in {"wOpen", "wSave"} =>
            pc[u] \in {"wOpen", "wSave"} /\ off'[u] = off[u]
    BY DEF Outside, OthersStay
  <1>4. \A u \in Threads : pc'[u] = "wSave" => pc[u] = "wSave"
    BY DEF Outside, OthersStay
  <1> QED
    BY <1>1, <1>2, <1>3, <1>4 DEF MetaInv, Outside

\* A save that succeeds leaves what was acknowledged in the store.
LEMMA SavedMeta ==
    ASSUME BaseInv, MetaInv, NEW t \in Threads, OthersStay(t), Acknowledge(t),
           pc[t] \in {"wOpen", "wSave"}, metaLost \/ ~unread,
           file' = [entries |-> sizes, torn |-> FALSE],
           UNCHANGED <<sizes, metaLost, unread, backend>>
    PROVE  MetaInv'
  <1>1. file'.entries = sizes' /\ ~file'.torn
    OBVIOUS
  <1>2. acked' = acked \cup {off[t]} /\ pc'[t] = "idle"
    BY DEF Acknowledge, Return, BaseInv, TypeOK
  <1>3. ~metaLost => acked' \subseteq DOMAIN sizes
    BY <1>2 DEF MetaInv
  <1>4. \A u \in Threads : pc'[u] \in {"wOpen", "wSave"} => off'[u] \in DOMAIN sizes
    BY <1>2 DEF MetaInv, OthersStay
  <1>5. \A o \in DOMAIN sizes : o + sizes[o] <= Capacity
    BY DEF MetaInv
  <1>6. \A u \in Threads : pc'[u] = "wSave" => metaLost \/ ~unread
    BY <1>2 DEF MetaInv, OthersStay
  <1> QED
    BY <1>1, <1>3, <1>4, <1>5, <1>6 DEF MetaInv

\* A save that fails leaves the map as it is and a part of it in the store.
LEMMA LostMeta ==
    ASSUME BaseInv, MetaInv, NEW t \in Threads, OthersStay(t), Acknowledge(t),
           file' = file \/ file' \in Prefixes(sizes), metaLost' = TRUE,
           UNCHANGED <<sizes, unread, backend>>
    PROVE  MetaInv'
  <1>1. pc'[t] = "idle"
    BY DEF Acknowledge, Return, BaseInv, TypeOK
  <1>2. \A u \in Threads : pc'[u] \in {"wOpen", "wSave"} => off'[u] \in DOMAIN sizes
    BY <1>1 DEF MetaInv, OthersStay
  <1>3. \A o \in DOMAIN file'.entries : o + file'.entries[o] <= Capacity
    <2>1. CASE file' = file
      BY <2>1 DEF MetaInv
    <2>2. CASE file' \in Prefixes(sizes)
      <3>1. SizesType(sizes)
        BY BaseParts DEF StoreType
      <3> QED
        BY <2>2, <3>1, PrefixType DEF MetaInv
    <2> QED
      BY <2>1, <2>2
  <1> QED
    BY <1>2, <1>3 DEF MetaInv

LEMMA MetaThread ==
    ASSUME BaseInv, ChunkInv, MetaInv, NEW t \in Threads, ThreadStep(t), UNCHANGED backend
    PROVE  MetaInv'
  <1>a. OthersStay(t)
    BY Solo
  <1>b. pc \in [Threads -> {"idle", "wPrimary", "wMirror", "wMeta", "wOpen", "wSave",
                            "rPrimary", "rMirror"}]
    BY DEF BaseInv, TypeOK
  <1>1. CASE Outside(t)
    BY <1>a, <1>1, OutsideMeta
  <1>2. CASE UpdateSizes(t)
    <2>1. /\ sizes' = [o \in DOMAIN sizes \cup {off[t]} |-> IF o = off[t] THEN len[t] ELSE sizes[o]]
          /\ pc'[t] = "wOpen" /\ UNCHANGED <<file, off, acked, metaLost, unread>>
          /\ pc[t] = "wMeta" /\ OffsetsUnlocked
      BY <1>2, <1>b DEF UpdateSizes, locals, history
    <2>2. off[t] + len[t] <= Capacity
      BY <2>1 DEF ChunkInv, ChunkOf
    <2>3. DOMAIN sizes' = DOMAIN sizes \cup {off[t]}
      BY <2>1
    <2>4. \A o \in DOMAIN sizes' : o + sizes'[o] <= Capacity
      BY <2>1, <2>2, <2>3 DEF MetaInv
    <2>5. ~OffsetsUnlocked'
      BY <2>1 DEF OffsetsUnlocked
    <2>6. \A u \in Threads : pc'[u] \in {"wOpen", "wSave"} => off'[u] \in DOMAIN sizes'
      BY <1>a, <2>1, <2>3 DEF MetaInv, OthersStay
    <2>7. (\A u \in Threads : pc'[u] # "wSave") => \A u \in Threads : pc[u] # "wSave"
      BY <1>a, <2>1 DEF OthersStay
    <2>8. \A u \in Threads : pc'[u] = "wSave" => pc[u] = "wSave"
      BY <1>a, <2>1 DEF OthersStay
    <2> QED
      BY <2>1, <2>3, <2>4, <2>5, <2>6, <2>7, <2>8 DEF MetaInv
  <1>3. CASE SaveOpen(t)
    <2>1. /\ file' = CreateMetadataStore /\ pc'[t] = "wSave" /\ pc[t] = "wOpen"
          /\ metaLost' = (metaLost \/ unread)
          /\ UNCHANGED <<sizes, off, acked, unread>>
      BY <1>3, <1>b DEF SaveOpen, locals
    <2>2. ~file'.torn /\ DOMAIN file'.entries = {}
      BY <2>1 DEF CreateMetadataStore, NoSizes
    <2>3. ~OffsetsUnlocked'
      BY <2>1 DEF OffsetsUnlocked
    <2>4. \A u \in Threads : pc'[u] \in {"wOpen", "wSave"} => off'[u] \in DOMAIN sizes'
      BY <1>a, <2>1 DEF MetaInv, OthersStay
    <2> QED
      BY <2>1, <2>2, <2>3, <2>4 DEF MetaInv
  <1>4. CASE SaveMemory(t) \/ SaveClose(t)
    <2>1. metaLost \/ ~unread
      BY <1>4 DEF SaveMemory, SaveClose, MetaInv
    <2> QED
      BY <1>a, <1>4, <2>1, SavedMeta DEF SaveMemory, SaveClose
  <1>5. CASE SaveOpenFails(t) \/ SaveWriteFails(t)
    BY <1>a, <1>5, LostMeta DEF SaveOpenFails, SaveWriteFails
  <1> QED
    BY <1>1, <1>2, <1>3, <1>4, <1>5, OutsideCases

LEMMA MetaCrash ==
    ASSUME BaseInv, MetaInv, Crash, UNCHANGED backend PROVE MetaInv'
  <1>1. \A u \in Threads : pc'[u] = "idle"
    BY DEF Crash, Forget
  <1>2. /\ sizes' \in Loads(file') /\ unread' = (sizes' # Load(file'))
        /\ acked' = acked /\ backend' = "file"
    BY DEF Crash
  <1>3. SizesType(sizes)
    BY BaseParts DEF StoreType
  <1>4. \A o \in DOMAIN file'.entries : o + file'.entries[o] <= Capacity
    <2>1. CASE file' = file
      BY <2>1 DEF MetaInv
    <2>2. CASE file' \in Prefixes(sizes)
      BY <1>3, <2>2, PrefixType DEF MetaInv
    <2> QED
      BY <2>1, <2>2 DEF Crash
  <1>5. \A o \in DOMAIN sizes' : o + sizes'[o] <= Capacity
    <2>1. FileType(file')
      BY <1>3, PrefixType, BaseParts DEF Crash, StoreType
    <2> QED
      BY <1>2, <1>4, <2>1, LoadsType
  <1>6. CASE \E t \in Threads : pc[t] = "wSave"
    <2>1. metaLost'
      BY <1>6 DEF Crash
    <2> QED
      BY <1>1, <1>2, <1>4, <1>5, <2>1 DEF MetaInv
  <1>7. CASE \A t \in Threads : pc[t] # "wSave"
    <2>1. file' = file /\ metaLost' = metaLost
      BY <1>7 DEF Crash, BaseInv, TypeOK
    <2>2. ~metaLost => ~file'.torn /\ (~unread' => file'.entries = sizes')
      BY <1>2, <2>1 DEF MetaInv, Load
    <2>3. ~metaLost => acked \subseteq DOMAIN file.entries
      BY <1>7 DEF MetaInv
    <2> QED
      BY <1>1, <1>2, <1>4, <1>5, <2>1, <2>2, <2>3 DEF MetaInv
  <1> QED
    BY <1>6, <1>7

LEMMA MetaCrashMemory ==
    ASSUME MetaInv, CrashMemory, UNCHANGED backend PROVE MetaInv'
  <1>1. \A u \in Threads : pc'[u] = "idle"
    BY DEF CrashMemory, Forget
  <1>2. file'.entries = sizes' /\ ~file'.torn /\ DOMAIN sizes' = {} /\ acked' = {}
    BY DEF CrashMemory, CreateMetadataStore, NoSizes
  <1>3. ~unread'
    BY DEF CrashMemory, MetaInv
  <1> QED
    BY <1>1, <1>2, <1>3 DEF MetaInv

LEMMA MetaStep ==
    ASSUME BaseInv, ChunkInv, MetaInv, [Next]_vars PROVE MetaInv'
  <1>1. CASE UNCHANGED vars
    BY <1>1 DEF vars, MetaInv, OffsetsUnlocked
  <1>2. CASE Next
    BY <1>2, NextCases, MetaThread, MetaCrash, MetaCrashMemory
  <1> QED
    BY <1>1, <1>2

-----------------------------------------------------------------------------
(* The theorems.                                                           *)

RAIDInv == BaseInv /\ ChunkInv /\ MetaInv /\ CopyInv

LEMMA RAIDInit == Init => RAIDInv
  <1> SUFFICES ASSUME Init PROVE RAIDInv
    OBVIOUS
  <1>1. BaseInv
    BY InitBase
  <1>2. \A t \in Threads : pc[t] = "idle" /\ ~Writing(t)
    BY DEF Init, Writing
  <1>3. ChunkInv
    BY <1>2 DEF ChunkInv, ChunkOf
  <1>4. MetaInv
    BY <1>2 DEF Init, MetaInv, CreateMetadataStore, NoSizes
  <1>5. CopyInv
    <2>1. NoStaleCopy
      BY PlaceExists DEF Init, NoStaleCopy, Primary, Mirror, CreateMinions, NewMinion
    <2> QED
      BY <1>2, <2>1 DEF CopyInv, MutualRivals, Candidate, Copied, HalfCopied
  <1> QED
    BY <1>1, <1>3, <1>4, <1>5 DEF RAIDInv

\* The invariant is inductive: whatever the threads, the minions and the
\* failures do.
THEOREM RAIDInvariant == Spec => []RAIDInv
  <1>1. RAIDInv /\ [Next]_vars => RAIDInv'
    BY BaseStep, ChunkStep, MetaStep, CopyStep DEF RAIDInv
  <1> QED
    BY RAIDInit, <1>1, PTL DEF Spec

\* Types, and in particular: a turn of the loops of Read and Write always has
\* bytes left to transfer.
THEOREM StorageTypeCorrect == Spec => []TypeOK
  <1>1. RAIDInv => TypeOK
    BY DEF RAIDInv, BaseInv
  <1> QED
    BY RAIDInvariant, <1>1, PTL

\* Whenever m_offsets_lock is free, raid_metadata.dat is what m_offset_sizes is,
\* unless a save has failed or been cut short, or the server could not read the
\* file when it started.
THEOREM MetadataInSync == Spec => []MetaInSync
  <1>1. RAIDInv => MetaInSync
    BY DEF RAIDInv, MetaInv, MetaInSync
  <1> QED
    BY RAIDInvariant, <1>1, PTL

\* While no save has failed, every acknowledged offset is in raid_metadata.dat,
\* over crashes too, and listed by a server that could read it; and no extent
\* that GET_SIZE reports exceeds the array.
THEOREM MetadataDurable == Spec => []MetaDurable
  <1>1. RAIDInv => MetaDurable
    <2> SUFFICES ASSUME RAIDInv PROVE MetaDurable
      OBVIOUS
    <2>1. ~metaLost /\ ~unread => acked \subseteq {e[1] : e \in ListOffsets}
      <3>1. ASSUME NEW o \in DOMAIN sizes PROVE o \in {e[1] : e \in ListOffsets}
        <4>1. <<o, sizes[o]>> \in ListOffsets
          BY DEF ListOffsets
        <4>2. <<o, sizes[o]>>[1] = o
          OBVIOUS
        <4> QED
          BY <4>1, <4>2
      <3> QED
        BY <3>1 DEF RAIDInv, MetaInv
    <2>2. ASSUME NEW o \in Offsets, GetDataSize(o) > 0 PROVE o + GetDataSize(o) <= Capacity
      BY <2>2 DEF RAIDInv, MetaInv, GetDataSize
    <2>3. ~metaLost /\ (\A t \in Threads : pc[t] # "wSave") => acked \subseteq DOMAIN Load(file)
      BY DEF RAIDInv, MetaInv, Load
    <2> QED
      BY <2>1, <2>2, <2>3 DEF MetaDurable
  <1> QED
    BY RAIDInvariant, <1>1, PTL

\* Reads are regular on both copies of every byte: no acknowledged write of
\* RAIDStorage::Write leaves an older copy behind unless writes raced.
THEOREM CopiesNotStale == Spec => []NoStaleCopy
  <1>1. RAIDInv => NoStaleCopy
    BY DEF RAIDInv, CopyInv
  <1> QED
    BY RAIDInvariant, <1>1, PTL

\* What fails a read within the array is two minions, for RAIDStorage::Read
\* falls back to the mirror.
LEMMA ReadFailure ==
    ASSUME RAIDInv, [Next]_vars, NEW t \in Threads,
           pc[t] \in {"rPrimary", "rMirror"}, pc'[t] = "idle", status'[t] = "FAILURE",
           off[t] + len[t] <= Capacity
    PROVE  Cardinality(Faulty) > 1
  <1>a. BaseInv /\ ChunkOf(t) /\ LocalsType
    BY BaseParts DEF RAIDInv, ChunkInv
  <1>b. InLoop(t)
    BY DEF InLoop
  <1>1. ReadMirrorFails(t)
    <2>1. Next
      BY DEF vars
    <2>2. ASSUME NEW u \in Threads, u # t, ThreadStep(u) PROVE FALSE
      BY <1>a, <2>2, Solo DEF OthersStay
    <2>3. ~Crash /\ ~CrashMemory
      BY DEF Crash, CrashMemory, Forget
    <2>4. ThreadStep(t)
      BY <2>1, <2>2, <2>3, NextCases
    <2>5. ReadStep(t)
      BY <2>4 DEF ThreadStep, WriteStep, WriteBegin, ReadBegin, WritePrimary, WritePrimaryFails,
                  WriteMirror, WriteMirrorFails, UpdateSizes, SaveMemory, SaveOpen, SaveOpenFails,
                  SaveClose, SaveWriteFails
    <2> QED
      BY <1>a, <2>5 DEF ReadStep, ReadPrimary, ReadMirror, ReadChunk, ReadPrimaryFails, Return,
                        LocalsType
  <1>2. Fits(t)
    <2>1. At(t) \in Nat /\ At(t) < Capacity /\ len[t] - pos[t] \in Nat \ {0}
      BY <1>a, <1>b, ChunkType, CapacityType DEF At
    <2> QED
      BY <2>1, ChunkFits DEF Fits, Chunk
  <1>3. Mirr(t) \in Faulty /\ Prim(t) \in Faulty
    BY <1>a, <1>1, <1>2 DEF ReadMirrorFails, ChunkOf
  <1>4. Prim(t) # Mirr(t)
    <2>1. At(t) \in Nat
      BY <1>a, <1>b, ChunkType
    <2>2. At(t) \div MinionSize \in Nat
      BY <2>1, DivMod
    <2>3. Prim(t) \in Int
      BY <2>2 DEF Prim, PrimaryIndex
    <2> QED
      BY <2>3 DEF Mirr, MirrorIndex
  <1>5. IsFiniteSet(Faulty)
    <2>1. IsFiniteSet(Minions)
      BY FS_Interval DEF Minions
    <2>2. Faulty \subseteq Minions
      BY FlakyAssumption DEF Faulty
    <2> QED
      BY <2>1, <2>2, FS_Subset
  <1>6. IsFiniteSet({Prim(t), Mirr(t)}) /\ Cardinality({Prim(t), Mirr(t)}) = 2
    <2>1. IsFiniteSet({Mirr(t)}) /\ Cardinality({Mirr(t)}) = 1
      BY FS_Singleton
    <2>2. /\ IsFiniteSet({Mirr(t)} \cup {Prim(t)})
          /\ Cardinality({Mirr(t)} \cup {Prim(t)}) = 1 + 1
      BY <1>4, <2>1, FS_AddElement
    <2>3. {Mirr(t)} \cup {Prim(t)} = {Prim(t), Mirr(t)}
      OBVIOUS
    <2> QED
      BY <2>2, <2>3
  <1>7. Cardinality({Prim(t), Mirr(t)}) <= Cardinality(Faulty)
    <2>1. {Prim(t), Mirr(t)} \subseteq Faulty
      BY <1>3
    <2> QED
      BY <1>5, <2>1, FS_Subset
  <1>8. Cardinality(Faulty) \in Nat
    BY <1>5, FS_CardinalityType
  <1> QED
    BY <1>6, <1>7, <1>8

\* RAIDStorage::Read within the array fails only when more than one minion
\* fails: what the primary refuses, its mirror, another minion, is asked for.
THEOREM OneFailureSurvived == Spec => SurvivesOneFailure
  <1>1. RAIDInv /\ [Next]_vars =>
          [\A t \in Threads :
             /\ pc[t] \in {"rPrimary", "rMirror"} /\ pc'[t] = "idle"
             /\ status'[t] = "FAILURE" /\ off[t] + len[t] <= Capacity
             => Cardinality(Faulty) > 1]_vars
    BY ReadFailure
  <1> QED
    BY RAIDInvariant, <1>1, PTL DEF Spec, SurvivesOneFailure
=============================================================================
