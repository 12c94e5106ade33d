------------------------------- MODULE Batching -------------------------------
(***************************************************************************)
(* Fixed-boundary batching: src/src/batching.rs.                           *)
(*                                                                         *)
(* A partition's offset space is cut into ranges of RangeSize offsets whose *)
(* boundaries depend on nothing but the offset, so every consumer of the   *)
(* partition derives the same range, and the same object name, for the     *)
(* same record.  The arithmetic is that of u64, with MaxU64 for u64::MAX;  *)
(* Kafka's own offsets are i64, with MaxI64 for i64::MAX.                  *)
(*                                                                         *)
(* The module has no variables.  Operators take the range size n as a      *)
(* parameter, as BatchRange::containing does.                              *)
(***************************************************************************)
EXTENDS Naturals

CONSTANTS MaxU64,   \* u64::MAX
          MaxI64    \* i64::MAX

ASSUME WordAssumption ==
    /\ MaxU64 \in Nat
    /\ MaxI64 \in Nat
    /\ MaxI64 < MaxU64

U64     == 0 .. MaxU64
Offsets == 0 .. MaxI64          \* what a broker can hand out
Sizes   == 1 .. MaxU64          \* NonZeroU64

BatchRanges == [start : U64, end : U64]

(* Mutant: wrap instead of saturating at the top of the u64 space. *)
WrappingAdd(a, b) == (a + b) % (MaxU64 + 1)

SaturatingAdd(a, b) == IF a + b > MaxU64 THEN MaxU64 ELSE a + b

(* Mutant: boundaries that depend on where a reader happens to start. *)
ContainingUnaligned(offset, n) ==
    [start |-> offset, end |-> SaturatingAdd(offset, n - 1)]

(* BatchRange::containing, the only constructor. *)
Containing(offset, n) ==
    LET start == (offset \div n) * n
    IN  [start |-> start, end |-> SaturatingAdd(start, n - 1)]

Contains(range, offset) == range.start <= offset /\ offset <= range.end

Width(range) == range.end - range.start + 1

(* Mutant: commit the last offset read rather than the next to read. *)
CommitLastRead(range) == range.end

(* The next offset to read; release builds wrap at u64::MAX. *)
CommitOffset(range) == (range.end + 1) % (MaxU64 + 1)

(* Mutant: a range that ends one record early. *)
IsCompleteEarly(range, last) == last + 1 >= range.end

(* Mutant: a range that is not complete at its last offset. *)
IsCompleteLate(range, last) == last > range.end

(* Whether the last offset seen fills the range. *)
IsComplete(range, last) == last >= range.end

(* Object names are modelled by what for_range prints: the partition (of one *)
(* topic), the UTC date of the write and the aligned range, and no row count. *)
ObjectName(partition, date, range) ==
    [partition |-> partition, date |-> date, range |-> range]
===============================================================================
