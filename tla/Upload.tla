-------------------------------- MODULE Upload --------------------------------
(***************************************************************************)
(* One object's uploads as upload_with_retry of src/src/pipeline.rs relies  *)
(* on them: they come one after the other, each carries the same bytes      *)
(* through all of its attempts, and an attempt takes effect, if at all,     *)
(* before the next one starts.                                              *)
(***************************************************************************)
EXTENDS Naturals

CONSTANTS MaxAttempts,  \* RetryPolicy::max_attempts
          NoBytes

VARIABLES attempt,      \* the attempt under way; 0 between two uploads
          bytes,        \* what the upload carries
          stored        \* what is stored under the name, as a set

vars == <<attempt, bytes, stored>>

Init == attempt = 0 /\ bytes = NoBytes /\ stored = {}

Begin ==
    /\ attempt = 0
    /\ attempt' = 1
    /\ bytes' # NoBytes
    /\ UNCHANGED stored

MayStore == stored' \in {stored, {bytes}}

Retry ==
    /\ attempt \in 1 .. MaxAttempts - 1
    /\ attempt' = attempt + 1
    /\ UNCHANGED bytes
    /\ MayStore

Over == attempt > 0 /\ attempt' = 0 /\ bytes' = NoBytes

Succeed == Over /\ stored' = {bytes}

(* Only an upload that has used up its attempts can fail and have stored.   *)
Fail ==
    /\ Over
    /\ IF attempt < MaxAttempts THEN UNCHANGED stored ELSE MayStore

Next == Begin \/ Retry \/ Succeed \/ Fail

Spec == Init /\ [][Next]_vars
===============================================================================
