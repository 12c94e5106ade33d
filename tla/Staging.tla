-------------------------------- MODULE Staging --------------------------------
(***************************************************************************)
(* What the service promises (src/src/lib.rs, README): every record of the *)
(* log that the group has acknowledged to Kafka is in the staging bucket.  *)
(*                                                                         *)
(* Storing and acknowledging are separate steps.  Storing may rewrite what *)
(* is not acknowledged yet in any way, but what is acknowledged stays in   *)
(* the bucket, and an acknowledgement covers only what is already there.   *)
(***************************************************************************)
EXTENDS Naturals

CONSTANTS Partitions, Offsets, Log

VARIABLES stored,   \* stored[p]: the records of p that some object holds
          acked     \* acked[p]: the committed offset, the next one to read

vars == <<stored, acked>>

Init ==
    /\ stored = [p \in Partitions |-> {}]
    /\ acked = [p \in Partitions |-> 0]

Store(p) ==
    /\ \E S \in SUBSET Log[p] :
          /\ {o \in stored[p] : o < acked[p]} \subseteq S
          /\ stored' = [stored EXCEPT ![p] = S]
    /\ UNCHANGED acked

Ack(p) ==
    /\ \E n \in Offsets :
          /\ n >= acked[p]
          /\ {o \in Log[p] : o < n} \subseteq stored[p]
          /\ acked' = [acked EXCEPT ![p] = n]
    /\ UNCHANGED stored

Next == \E p \in Partitions : Store(p) \/ Ack(p)

Spec == Init /\ [][Next]_vars

================================================================================
