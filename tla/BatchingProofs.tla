---------------------------- MODULE BatchingProofs ----------------------------
(***************************************************************************)
(* Facts about fixed-boundary ranges, for every word size and range size.  *)
(***************************************************************************)
EXTENDS Batching, TLAPS

(* The quotient that aligns a range: an offset lies between the multiple of  *)
(* n below it and the next one.                                              *)
LEMMA DivBounds ==
    ASSUME NEW o \in Nat, NEW n \in Nat \ {0}
    PROVE  /\ o \div n \in Nat
           /\ (o \div n) * n <= o
           /\ o < (o \div n) * n + n
  OBVIOUS

(* Between two multiples of n the quotient does not change. *)
LEMMA DivUnique ==
    ASSUME NEW o \in Nat, NEW n \in Nat \ {0}, NEW q \in Nat,
           q * n <= o, o < q * n + n
    PROVE  o \div n = q
  OBVIOUS

LEMMA MulMonotone ==
    ASSUME NEW a \in Nat, NEW b \in Nat, NEW n \in Nat \ {0}, a < b
    PROVE  a * n + n <= b * n
<1>1. PICK d \in Nat : b = a + 1 + d
  BY b - a - 1 \in Nat, b = a + 1 + (b - a - 1)
<1>2. b * n = a * n + n + d * n
  BY <1>1
<1>3. d * n \in Nat
  OBVIOUS
<1> QED
  BY <1>2, <1>3

(* BatchRange::containing returns a range of u64 offsets that holds the      *)
(* offset it was computed from, also where it saturates.                     *)
THEOREM ContainingHoldsOffset ==
    ASSUME NEW o \in U64, NEW n \in Sizes
    PROVE  /\ Containing(o, n) \in BatchRanges
           /\ Contains(Containing(o, n), o)
<1> DEFINE s == (o \div n) * n
<1>1. o \in Nat /\ n \in Nat \ {0} /\ o <= MaxU64 /\ MaxU64 \in Nat
  BY WordAssumption DEF U64, Sizes
<1>2. s \in Nat /\ s <= o /\ o < s + n
  BY <1>1, DivBounds
<1> HIDE DEF s
<1>3. /\ SaturatingAdd(s, n - 1) \in U64
      /\ o <= SaturatingAdd(s, n - 1)
  BY <1>1, <1>2 DEF SaturatingAdd, U64
<1>4. Containing(o, n) = [start |-> s, end |-> SaturatingAdd(s, n - 1)]
  BY DEF Containing, s
<1> QED
  BY <1>1, <1>2, <1>3, <1>4 DEF BatchRanges, Contains, U64

(* Every offset of a range gives that same range: the boundaries are a       *)
(* function of the data, whoever computes them and from which record.        *)
THEOREM ContainingIsCanonical ==
    ASSUME NEW o \in U64, NEW u \in U64, NEW n \in Sizes,
           Contains(Containing(o, n), u)
    PROVE  Containing(u, n) = Containing(o, n)
<1> DEFINE q == o \div n
<1>1. o \in Nat /\ u \in Nat /\ n \in Nat \ {0} /\ o <= MaxU64 /\ MaxU64 \in Nat
  BY WordAssumption DEF U64, Sizes
<1>2. q \in Nat /\ q * n \in Nat
  BY <1>1, DivBounds
<1>3. q * n <= u /\ u <= SaturatingAdd(q * n, n - 1)
  BY DEF Contains, Containing
<1>4. u < q * n + n
  BY <1>1, <1>2, <1>3 DEF SaturatingAdd
<1>5. u \div n = q
  BY <1>1, <1>2, <1>3, <1>4, DivUnique
<1> QED
  BY <1>5 DEF Containing

(* Ranges do not overlap: an offset past the end of a range belongs to a     *)
(* range that starts past it.                                                *)
THEOREM RangesDoNotOverlap ==
    ASSUME NEW o \in U64, NEW u \in U64, NEW n \in Sizes,
           Containing(o, n).end < u
    PROVE  Containing(o, n).end < Containing(u, n).start
<1> DEFINE a == o \div n
           b == u \div n
<1>1. o \in Nat /\ u \in Nat /\ n \in Nat \ {0} /\ u <= MaxU64 /\ MaxU64 \in Nat
  BY WordAssumption DEF U64, Sizes
<1>2. /\ a \in Nat /\ b \in Nat /\ a * n \in Nat /\ b * n \in Nat
      /\ b * n <= u /\ u < b * n + n
  BY <1>1, DivBounds
<1>3. /\ Containing(o, n).end = SaturatingAdd(a * n, n - 1)
      /\ Containing(u, n).start = b * n
  BY DEF Containing
<1>4. a * n + n <= u /\ SaturatingAdd(a * n, n - 1) = a * n + n - 1
  BY <1>1, <1>2, <1>3 DEF SaturatingAdd
<1>5. a < b
  <2>1. SUFFICES ASSUME b <= a PROVE FALSE
    BY <1>2
  <2>2. b * n <= a * n
    BY <1>1, <1>2, <2>1, MulMonotone
  <2> QED
    BY <1>1, <1>2, <1>4, <2>2
<1>6. a * n + n <= b * n
  BY <1>1, <1>2, <1>5, MulMonotone
<1> QED
  BY <1>1, <1>2, <1>3, <1>4, <1>6

(* What is committed for a range whose end a broker can hand out is the next *)
(* offset to read, without wrapping.                                         *)
THEOREM CommitOffsetIsNext ==
    ASSUME NEW range \in BatchRanges, range.end \in Offsets
    PROVE  CommitOffset(range) = range.end + 1
<1>1. range.end \in Nat /\ range.end < MaxU64 /\ MaxU64 \in Nat
  BY WordAssumption DEF Offsets
<1>2. \A k \in Nat : k < MaxU64 + 1 => k % (MaxU64 + 1) = k
  BY <1>1
<1> QED
  BY <1>1, <1>2 DEF CommitOffset

(* After reading an offset of a range, the range is complete exactly if that *)
(* was its last one.                                                         *)
THEOREM CompleteAtItsEnd ==
    ASSUME NEW o \in U64, NEW u \in U64, NEW n \in Sizes,
           Contains(Containing(o, n), u)
    PROVE  IsComplete(Containing(o, n), u) <=> u = Containing(o, n).end
<1>1. Containing(o, n) \in BatchRanges
  BY ContainingHoldsOffset
<1> QED
  BY <1>1, WordAssumption DEF BatchRanges, IsComplete, Contains, U64
===============================================================================
