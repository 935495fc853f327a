------------------------- MODULE MinionBoundsProofs -------------------------
(***************************************************************************)
(* Theorems about MinionBounds, for any number and size of minions and any *)
(* width of size_t.                                                        *)
(*                                                                         *)
(* With two pairs or more the local offset is at most about half the       *)
(* offset, so the sum of the check does not wrap and the check is exact.   *)
(* With one pair a sum that wraps has an offset in the upper half of the   *)
(* range, which as an off_t is negative: a file refuses it.                *)
(***************************************************************************)
EXTENDS MinionBounds, TLAPS

USE NumPrimaryAssumption, MinionSizeAssumption

LEMMA Products ==
    ASSUME NEW a \in Nat, NEW b \in Nat, NEW m \in Nat, a <= b
    PROVE  m * a \in Nat /\ m * a <= m * b
  <1>1. b - a \in Nat /\ m * (b - a) \in Nat /\ m * b = m * a + m * (b - a)
    OBVIOUS
  <1> QED
    BY <1>1

\* The array, and a minion, are at most half the range.
LEMMA Sizes ==
    /\ Capacity \in Nat /\ Capacity = MinionSize * NumPrimary
    /\ MinionSize <= Capacity
    /\ 2 * Capacity <= SizeMod /\ SizeMod \in Nat \ {0}
  <1>1. Capacity \in Nat /\ Capacity = MinionSize * NumPrimary
    BY DEF Capacity
  <1>2. MinionSize * 1 <= MinionSize * NumPrimary
    BY Products
  <1> QED
    BY <1>1, <1>2, SizeModAssumption

\* A sum below the modulus is what it is.
LEMMA NoWrap ==
    ASSUME NEW s \in Nat, s < SizeMod
    PROVE  s % SizeMod = s
  BY Sizes

\* The chunk in its stripe: the loop never crosses a stripe's border.
LEMMA ChunkInStripe ==
    ASSUME NEW o \in Nat, NEW r \in Nat \ {0}
    PROVE  /\ ChunkLen(o, r) \in 1 .. r
           /\ o % MinionSize \in Nat /\ (o % MinionSize) + ChunkLen(o, r) <= MinionSize
           /\ o \div MinionSize \in Nat /\ o = MinionSize * (o \div MinionSize) + (o % MinionSize)
  <1>1. /\ o % MinionSize \in 0 .. MinionSize - 1 /\ o \div MinionSize \in Nat
        /\ o = MinionSize * (o \div MinionSize) + (o % MinionSize)
    OBVIOUS
  <1> QED
    BY <1>1 DEF ChunkLen

\* What the check lets through lies in the array, or wraps around in an array
\* of one pair.
LEMMA AcceptedChunk ==
    ASSUME NEW o \in 0 .. SizeMod - 1, NEW r \in Nat \ {0},
           (LocalOffset(o) + ChunkLen(o, r)) % SizeMod <= MinionSize
    PROVE  \/ /\ o + ChunkLen(o, r) <= Capacity
              /\ LocalOffset(o) + ChunkLen(o, r) <= MinionSize
           \/ /\ NumPrimary = 1 /\ LocalOffset(o) = o
              /\ o + ChunkLen(o, r) >= SizeMod
  <1> DEFINE n == ChunkLen(o, r)
             q == o \div MinionSize
             g == q \div NumPrimary
             m == o % MinionSize
  <1>a. SizeMod \in Nat \ {0} /\ o \in Nat /\ o < SizeMod
    BY Sizes
  <1>b. /\ n \in 1 .. r /\ m \in Nat /\ m + n <= MinionSize
        /\ q \in Nat /\ o = MinionSize * q + m
    BY <1>a, ChunkInStripe
  <1>c. LocalOffset(o) = g * MinionSize + m
    BY DEF LocalOffset
  <1> HIDE DEF n, q, m
  <1>1. CASE NumPrimary = 1
    <2>1. g = q
      BY <1>1, <1>b
    <2>2. LocalOffset(o) = o
      BY <1>b, <1>c, <2>1
    <2>3. ASSUME o + n < SizeMod PROVE o + n <= Capacity /\ LocalOffset(o) + n <= MinionSize
      <3>1. (o + n) % SizeMod = o + n
        BY <1>a, <1>b, <2>3, NoWrap
      <3>2. Capacity = MinionSize
        BY <1>1, Sizes
      <3> QED
        BY <2>2, <3>1, <3>2 DEF n
    <2> QED
      BY <1>1, <1>a, <1>b, <2>2, <2>3 DEF n
  <1>2. CASE NumPrimary > 1
    <2>1. g \in Nat /\ NumPrimary * g <= q
      BY <1>b
    <2>2. CASE g = 0
      <3>1. q < NumPrimary
        BY <1>b, <2>2
      <3>2. MinionSize * (q + 1) <= MinionSize * NumPrimary
        BY <1>b, <3>1, Products
      <3>3. MinionSize * (q + 1) = MinionSize * q + MinionSize
        BY <1>b
      <3>4. o + n <= Capacity
        BY <1>b, <3>2, <3>3, Sizes
      <3> QED
        BY <1>b, <1>c, <2>2, <3>4 DEF n
    <2>3. CASE g >= 1
      <3>1. g + 1 <= q
        <4>1. g * 2 <= g * NumPrimary
          BY <1>2, <2>1, Products
        <4>2. g * NumPrimary = NumPrimary * g
          BY <2>1
        <4> HIDE DEF g
        <4> QED
          BY <1>b, <2>1, <2>3, <4>1, <4>2
      <3>2. MinionSize * (g + 1) <= MinionSize * q
        BY <1>b, <2>1, <3>1, Products
      <3>3. MinionSize * (g + 1) = g * MinionSize + MinionSize
        BY <2>1
      <3>4. LocalOffset(o) + n \in Nat /\ LocalOffset(o) + n < SizeMod
        <4>1. g * MinionSize \in Nat /\ MinionSize * q \in Nat
          BY <1>b, <2>1
        <4> QED
          BY <1>a, <1>b, <1>c, <3>2, <3>3, <4>1
      <3>5. LocalOffset(o) + n <= MinionSize
        BY <3>4, NoWrap DEF n
      <3>6. MinionSize * 1 <= MinionSize * g
        BY <2>1, <2>3, Products
      <3> QED
        BY <1>b, <1>c, <2>1, <3>5, <3>6
    <2> QED
      BY <2>1, <2>2, <2>3
  <1> QED
    BY <1>1, <1>2

-----------------------------------------------------------------------------
(* The invariant: what the loop has behind it lies in the array.           *)

LoopInv ==
    /\ backend \in {"memory", "file"}
    /\ start \in 0 .. SizeMod - 1 /\ size \in Nat
    /\ offset \in 0 .. SizeMod - 1 /\ remaining \in 0 .. size
    /\ pc \in {"loop", "SUCCESS"} =>
         offset + remaining = start + size /\ (remaining < size => offset <= Capacity)
    /\ pc = "SUCCESS" => remaining = 0
    /\ DefinedBehaviour

LEMMA LoopStep == LoopInv /\ [Next]_vars => LoopInv'
  <1> SUFFICES ASSUME LoopInv, [Next]_vars PROVE LoopInv'
    OBVIOUS
  <1> DEFINE n == Chunk
  <1>a. ASSUME pc = "loop", remaining > 0, Accepts
        PROVE  /\ n \in 1 .. remaining
               /\ \/ offset + n <= Capacity /\ OnMinion
                  \/ NumPrimary = 1 /\ Local = offset /\ offset + n >= SizeMod
    <2>1. remaining \in Nat \ {0} /\ offset \in Nat
      BY <1>a DEF LoopInv
    <2> QED
      BY <1>a, <2>1, AcceptedChunk, ChunkInStripe DEF LoopInv, Accepts, OnMinion, Local, Chunk
  <1>b. ASSUME pc = "loop", remaining > 0 PROVE n <= MinionSize
    <2>1. remaining \in Nat \ {0} /\ offset \in Nat
      BY <1>b DEF LoopInv
    <2> QED
      BY <2>1, ChunkInStripe DEF Chunk
  <1>1. CASE Transfer
    <2>1. offset + n <= Capacity
      <3>1. SUFFICES ASSUME NumPrimary = 1, Local = offset, offset + n >= SizeMod PROVE FALSE
        BY <1>1, <1>a DEF Transfer
      <3>2. /\ n \in Nat /\ n <= MinionSize /\ offset \in Nat
            /\ 2 * MinionSize <= SizeMod /\ SizeMod \in Nat \ {0}
        BY <1>1, <1>a, <1>b, Sizes DEF Transfer, LoopInv
      <3>3. CASE backend = "file"
        <4>1. offset < SizeMod \div 2
          BY <1>1, <3>1, <3>3 DEF Transfer, OffT
        <4> QED
          BY <3>1, <3>2, <4>1
      <3>4. CASE backend # "file"
        <4>1. offset + n <= MinionSize
          BY <1>1, <3>1, <3>4 DEF Transfer, OnMinion
        <4> QED
          BY <3>1, <3>2, <4>1
      <3> QED
        BY <3>3, <3>4
    <2>2. n \in 1 .. remaining
      BY <1>1, <1>a DEF Transfer
    <2>3. offset' = offset + n
      BY <1>1, <2>1, <2>2, NoWrap, Sizes DEF Transfer, LoopInv
    <2> QED
      BY <1>1, <2>1, <2>2, <2>3, Sizes DEF Transfer, LoopInv, DefinedBehaviour
  <1>2. CASE CopyOutside
    <2>1. n \in 1 .. remaining /\ NumPrimary = 1 /\ offset + n >= SizeMod
      BY <1>2, <1>a DEF CopyOutside
    <2>2. start + size >= SizeMod
      BY <1>2, <2>1, Sizes DEF CopyOutside, LoopInv
    <2> QED
      BY <1>2, <2>1, <2>2 DEF CopyOutside, LoopInv, DefinedBehaviour
  <1>3. CASE Refuse \/ SystemCallFails \/ Done
    BY <1>3 DEF Refuse, SystemCallFails, Done, LoopInv, DefinedBehaviour
  <1>4. CASE UNCHANGED vars
    BY <1>4 DEF vars, LoopInv, DefinedBehaviour
  <1> QED
    BY <1>1, <1>2, <1>3, <1>4 DEF Next

\* The loop's invariant, DefinedBehaviour included.
THEOREM LoopInvariant == Spec => []LoopInv
  <1>1. Init => LoopInv
    BY RequestAssumption, Sizes DEF Init, LoopInv, DefinedBehaviour
  <1> QED
    BY <1>1, LoopStep, PTL DEF Spec

\* The bounds check of the minions is sound for every offset: a request that
\* returns SUCCESS lies in the array, although the check's sum may wrap around.
THEOREM AcceptedRequestsFit == Spec => []AcceptedFits
  <1>1. LoopInv => AcceptedFits
    BY DEF LoopInv, AcceptedFits
  <1> QED
    BY LoopInvariant, <1>1, PTL

\* The vector of a minion in memory is accessed outside its bytes only in an
\* array of one pair, by a request that reaches 2^64.
THEOREM AccessDefined == Spec => []DefinedBehaviour
  <1>1. LoopInv => DefinedBehaviour
    BY DEF LoopInv
  <1> QED
    BY LoopInvariant, <1>1, PTL
=============================================================================
