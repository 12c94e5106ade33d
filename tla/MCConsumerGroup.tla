---------------------------- MODULE MCConsumerGroup ----------------------------
(* Small logs for ConsumerGroup, with RangeSize = 2. *)
EXTENDS ConsumerGroup, TLC

CONSTANTS pA,       \* a partition
          c1, c2    \* processes

(* One full range and a record of the next. *)
LogShort == [p \in Partitions |-> {0, 1, 2}]

(* Two full ranges. *)
LogFull == [p \in Partitions |-> {0, 1, 2, 3}]

Symmetry == Permutations({c1, c2})

-------------------------------------------------------------------------------
(* Liveness of c1, which stands for any process. *)

LiveSpec == Spec /\ Fairness(c1)

(* The buffer of a partition that c1 loses is dropped in the end, also if    *)
(* the other process never does another step.                               *)
RevokedIsDropped == RevokedIsDroppedBy(c1)

(* c1 stops in the end when it is told to, also if the other process never   *)
(* does another step.                                                       *)
SignalStopsTheProcess == SignalStops(c1)
===============================================================================
