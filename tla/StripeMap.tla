----------------------------- MODULE StripeMap ------------------------------
(***************************************************************************)
(* The RAID01 address arithmetic of services/local_storage/RAIDManager.cpp *)
(* m_stripe_size is set to the size of a minion, so each primary minion    *)
(* holds one stripe.  Offsets are size_t: the operators here stay below    *)
(* 2^64 for any of them, except for the sum of InBounds, which RAIDStorage *)
(* uses for requests that end below 2^64 and MinionBounds for all.         *)
(***************************************************************************)
EXTENDS Integers

CONSTANTS
    NumPrimary,  \* m_num_primary: minions come in pairs, half are primaries
    MinionSize   \* m_minion_size and m_stripe_size, in bytes

ASSUME NumPrimaryAssumption == NumPrimary \in Nat \ {0}
ASSUME MinionSizeAssumption == MinionSize \in Nat \ {0}

Primaries == 0 .. NumPrimary - 1
Minions   == 0 .. 2 * NumPrimary - 1

\* The bytes the array can hold.
Capacity == NumPrimary * MinionSize

PrimaryIndex(offset) == (offset \div MinionSize) % NumPrimary

MirrorIndex(primary) == NumPrimary + primary

LocalOffset(offset) ==
    ((offset \div MinionSize) \div NumPrimary) * MinionSize + (offset % MinionSize)

\* min(remaining, available_in_stripe): what one turn of the loop transfers.
ChunkLen(offset, remaining) ==
    LET available == MinionSize - (offset % MinionSize)
    IN  IF remaining < available THEN remaining ELSE available

\* The bounds check of a minion's Read and Write.
InBounds(local, n) == local + n <= MinionSize
=============================================================================
