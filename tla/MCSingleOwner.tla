----------------------------- MODULE MCSingleOwner -----------------------------
(* Small logs for SingleOwner, with RangeSize = 2. *)
EXTENDS SingleOwner, TLC

CONSTANTS pA, pB,   \* partitions
          c1, c2    \* processes

(* Two full ranges and a record of a third. *)
LogDense == [p \in Partitions |-> {0, 1, 2, 3, 4}]

(* The first range lost its last record, so only the boundary ends it; the  *)
(* second holds its last offset alone and is full at once.                  *)
LogGaps == [p \in Partitions |-> {0, 3, 4}]

LogMixed == [p \in Partitions |-> IF p = pA THEN {0, 1, 2} ELSE {0, 3}]

LogShort == [p \in Partitions |-> {0, 1, 2}]

Symmetry == Permutations({c1, c2})
===============================================================================
