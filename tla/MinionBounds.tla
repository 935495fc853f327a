---------------------------- MODULE MinionBounds ----------------------------
(***************************************************************************)
(* The chunk loop of RAIDStorage::Read and Write against the bounds check  *)
(* of the minions, in the arithmetic of size_t.  RAIDStorage models what   *)
(* the loop does to the minions, for requests that end below 2^64; this    *)
(* module asks what the check is worth for every offset there is.          *)
(***************************************************************************)
EXTENDS StripeMap

CONSTANTS
    SizeMod,   \* 2^64: size_t is computed modulo this
    MaxLen,    \* bound: bytes in a request
    Backends   \* values of the argument backend: "memory", "file"

\* The constructor of RAIDStorage multiplies the number of minions by their size.
ASSUME SizeModAssumption == SizeMod \in Nat /\ 2 * Capacity <= SizeMod
ASSUME RequestAssumption == MaxLen \in Nat /\ Backends \subseteq {"memory", "file"}

VARIABLES
    backend,      \* MinionBackend
    start, size,  \* the request: m_offset and its length
    offset,       \* the local of the loop
    remaining,    \* the local of the loop
    pc            \* "loop", m_status, or "undefined"

vars == <<backend, start, size, offset, remaining, pc>>

Init ==
    /\ backend \in Backends
    /\ start \in 0 .. SizeMod - 1 /\ size \in 0 .. MaxLen
    /\ offset = start /\ remaining = size
    /\ pc = "loop"

-----------------------------------------------------------------------------

Local == LocalOffset(offset)
Chunk == ChunkLen(offset, remaining)

\* Mutant of Accepts: one byte too many is let through.
AcceptsOneMore == (Local + Chunk) % SizeMod <= MinionSize + 1

\* offset + buf.size() > m_size throws, with a sum that may wrap around.
Accepts == (Local + Chunk) % SizeMod <= MinionSize

\* The chunk lies on the minion.
OnMinion == Local + Chunk <= MinionSize

\* The offset is an off_t, which pread and pwrite want not to be negative.
OffT == Local < SizeMod \div 2

\* The chunk is transferred, by pread or pwrite or by std::copy, and the loop
\* moves on.
Transfer ==
    /\ pc = "loop" /\ remaining > 0 /\ Accepts
    /\ IF backend = "file" THEN OffT ELSE OnMinion
    /\ offset' = (offset + Chunk) % SizeMod
    /\ remaining' = remaining - Chunk
    /\ UNCHANGED <<backend, start, size, pc>>

\* out_of_range
Refuse ==
    /\ pc = "loop" /\ remaining > 0 /\ ~Accepts
    /\ pc' = "FAILURE"
    /\ UNCHANGED <<backend, start, size, offset, remaining>>

\* EINVAL, on both copies.
SystemCallFails ==
    /\ pc = "loop" /\ remaining > 0 /\ Accepts
    /\ backend = "file" /\ ~OffT
    /\ pc' = "FAILURE"
    /\ UNCHANGED <<backend, start, size, offset, remaining>>

\* std::copy at an iterator outside m_data: nothing is known any more.
CopyOutside ==
    /\ pc = "loop" /\ remaining > 0 /\ Accepts
    /\ backend = "memory" /\ ~OnMinion
    /\ pc' = "undefined"
    /\ UNCHANGED <<backend, start, size, offset, remaining>>

Done ==
    /\ pc = "loop" /\ remaining = 0
    /\ pc' = "SUCCESS"
    /\ UNCHANGED <<backend, start, size, offset, remaining>>

Next == Transfer \/ Refuse \/ SystemCallFails \/ CopyOutside \/ Done

Spec == Init /\ [][Next]_vars

-----------------------------------------------------------------------------
(* Properties.                                                             *)

\* A READ or WRITE that returns SUCCESS lies in the array, chunk by chunk as it
\* is checked and with sums that wrap around, whatever the offset asked for.
AcceptedFits == pc = "SUCCESS" /\ size > 0 => start + size <= Capacity

\* A minion in memory is never accessed outside its bytes, with one exception:
\* in an array of one pair, whose local offset is the offset itself, a request
\* that reaches 2^64.
DefinedBehaviour == pc = "undefined" => NumPrimary = 1 /\ start + size >= SizeMod
=============================================================================
