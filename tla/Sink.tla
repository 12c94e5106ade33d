--------------------------------- MODULE Sink ---------------------------------
(***************************************************************************)
(* The GCS sink of src/src/sink.rs and the retry loop around it (pipeline's *)
(* upload_with_retry), for the uploads of one object name: an idle flush,   *)
(* the flush that completes the range, the flushes of a restarted process.  *)
(* Upload n carries the n-th bytes for that name, and one upload follows    *)
(* the other.                                                              *)
(*                                                                         *)
(* Pipeline takes an upload attempt for one step.  Here a request and its   *)
(* answer are apart: the client gives up after its timeout, and the server  *)
(* may still be busy with the request then, and apply it later.             *)
(***************************************************************************)
EXTENDS Naturals

CONSTANTS MaxAttempts,   \* RetryPolicy::max_attempts
          MaxUploads,    \* bound: uploads of the object
          Answers        \* HTTP statuses that the server answers with

ASSUME SinkAssumption ==
    /\ MaxAttempts \in Nat \ {0}
    /\ MaxUploads \in Nat
    /\ Answers \subseteq 100 .. 599

VARIABLES endpoint,   \* GcsSink::endpoint, and with it the token source
          put,        \* the latest upload: its number, its attempt, where it is
          requests,   \* external: the requests that the server has still to handle
          abandoned,  \* the requests whose answer the client did not wait for
          denied,     \* the uploads that were answered with 401 or 403
          object      \* external: the number of the upload whose bytes are stored

vars == <<endpoint, put, requests, abandoned, denied, object>>

Uploads  == 1 .. MaxUploads
Requests == [upload : Uploads, attempt : 1 .. MaxAttempts]

(* Mutant: redirects pass for a success. *)
ClassifyRedirectAsOk(status) ==
    CASE status \in 200 .. 399 -> "ok"
      [] status \in {401, 403} -> "auth"
      [] status \in {408, 429} \union 500 .. 599 -> "retryable"
      [] OTHER -> "permanent"

(* Mutant: only client errors that are not about credentials are permanent. *)
ClassifyAuthAsRetryable(status) ==
    CASE status \in 200 .. 299 -> "ok"
      [] status \in {401, 403, 408, 429} \union 500 .. 599 -> "retryable"
      [] OTHER -> "permanent"

(* classify_status. *)
Classify(status) ==
    CASE status \in 200 .. 299 -> "ok"
      [] status \in {401, 403} -> "auth"
      [] status \in {408, 429} \union 500 .. 599 -> "retryable"
      [] OTHER -> "permanent"

Init ==
    /\ endpoint \in {"emulator", "gcs"}
    /\ put = [stage |-> "idle", upload |-> 0, attempt |-> 0]
    /\ requests = {}
    /\ abandoned = {}
    /\ denied = {}
    /\ object = 0

Uploading == put.stage \in {"send", "wait"}
Current   == [upload |-> put.upload, attempt |-> put.attempt]
Awaited(r) == put.stage = "wait" /\ r = Current

-------------------------------------------------------------------------------
(* upload_with_retry. *)

(* The pipeline uploads the object (again).  After a failure this is another *)
(* process: the error ended the one before.                                 *)
Begin ==
    /\ ~ Uploading
    /\ put.upload < MaxUploads
    /\ put' = [stage |-> "send", upload |-> put.upload + 1, attempt |-> 1]
    /\ UNCHANGED <<endpoint, requests, abandoned, denied, object>>

Ended(how) == put' = [put EXCEPT !.stage = how]

(* Mutant: the loop forgets to count. *)
UncountedRetry == put' = [put EXCEPT !.stage = "send"]

Retry == put' = [put EXCEPT !.stage = "send", !.attempt = @ + 1]

(* Mutant: the loop never gives up. *)
AlwaysRetried(result) ==
    \/ result = "ok" /\ Ended("idle")
    \/ result = "retryable" /\ Retry
    \/ result \in {"auth", "permanent"} /\ Ended("failed")

(* put returned: what the loop does next.  The delay before the next attempt *)
(* is part of the stage "send".                                             *)
Returned(result) ==
    \/ result = "ok" /\ Ended("idle")
    \/ result = "retryable" /\ put.attempt < MaxAttempts /\ Retry
    \/ result = "retryable" /\ put.attempt >= MaxAttempts /\ Ended("failed")
    \/ result \in {"auth", "permanent"} /\ Ended("failed")

-------------------------------------------------------------------------------
(* GcsSink::put. *)

(* The emulator needs no token, and the request goes out. *)
Send ==
    /\ put.stage = "send"
    /\ endpoint = "emulator"
    /\ requests' = requests \union {Current}
    /\ Ended("wait")
    /\ UNCHANGED <<endpoint, abandoned, denied, object>>

(* Real GCS needs one, and ApplicationDefaultCredentials has none to give. *)
NoToken ==
    /\ put.stage = "send"
    /\ endpoint = "gcs"
    /\ Returned("auth")
    /\ UNCHANGED <<endpoint, requests, abandoned, denied, object>>

(* The connection fails before the request reaches the server. *)
NotSent ==
    /\ put.stage = "wait"
    /\ Current \in requests
    /\ requests' = requests \ {Current}
    /\ Returned("retryable")
    /\ UNCHANGED <<endpoint, abandoned, denied, object>>

(* Timeout, or a connection lost: the server still has the request.  A crash *)
(* in the middle of an upload leaves no more than this on the last attempt. *)
GiveUp ==
    /\ put.stage = "wait"
    /\ abandoned' = abandoned \union {Current}
    /\ Returned("retryable")
    /\ UNCHANGED <<endpoint, requests, denied, object>>

(* external: what a request that is answered with status leaves in the bucket. *)
(* An error of the server's own may come after the bytes are stored.        *)
Effects(r, status) ==
    CASE status \in 200 .. 299 -> {r.upload}
      [] status \in 500 .. 599 -> {object, r.upload}
      [] OTHER                 -> {object}

(* The client gets the answer, or the answer is lost. *)
Answered(r, status) ==
    \/ /\ Returned(Classify(status))
       /\ denied' = IF status \in {401, 403} THEN denied \union {r.upload} ELSE denied
    \/ Returned("retryable") /\ UNCHANGED denied

(* The server handles a request, awaited or not. *)
Handle(r, status) ==
    /\ r \in requests
    /\ requests' = requests \ {r}
    /\ object' \in Effects(r, status)
    /\ IF Awaited(r) THEN Answered(r, status) ELSE UNCHANGED <<put, denied>>
    /\ UNCHANGED <<endpoint, abandoned>>

Next ==
    \/ Begin \/ Send \/ NoToken \/ NotSent \/ GiveUp
    \/ \E r \in requests, status \in Answers : Handle(r, status)

Spec == Init /\ [][Next]_vars

-------------------------------------------------------------------------------
(* Safety *)

TypeOK ==
    /\ endpoint \in {"emulator", "gcs"}
    /\ put \in [stage : {"idle", "send", "wait", "failed"},
                upload : 0 .. MaxUploads, attempt : 0 .. MaxAttempts]
    /\ requests \subseteq Requests
    /\ abandoned \subseteq Requests
    /\ denied \subseteq Uploads
    /\ object \in 0 .. MaxUploads

(* sink.rs, "401/403 never retry": an upload that was denied sends no other  *)
(* request, whatever failed before it was denied.                           *)
DenialsAreFinal == [][\A r \in requests' \ requests : r.upload \notin denied]_vars

(* put's Ok can be relied on: while no upload is under way after a success,  *)
(* the bucket holds the bytes of that upload, and failed or repeated        *)
(* attempts on the way make no difference, as long as every request was     *)
(* waited for.                                                              *)
OkIsStoredIfAwaited == (put.stage = "idle" /\ abandoned = {}) => object = put.upload

(* What the pipeline relies on, see Upload. *)
Atomic == INSTANCE Upload WITH
    NoBytes <- 0,
    attempt <- IF Uploading THEN put.attempt ELSE 0,
    bytes   <- IF Uploading THEN put.upload ELSE 0,
    stored  <- {object} \ {0}

(* The server handles a request that was given up on. *)
LateWrite ==
    /\ \E r \in requests \intersect abandoned : object' = r.upload
    /\ UNCHANGED put

(* Requests that are lost, answers that are lost, timeouts and errors of    *)
(* the server's own add up to what Upload says of an attempt, but for one   *)
(* thing: bytes of a request that was given up on can be stored later.  And *)
(* what the pipeline takes for a success is one.                            *)
AttemptsAreAtomicButForLateOnes ==
    [][/\ [Atomic!Next]_(Atomic!vars) \/ LateWrite
       /\ Uploading /\ put'.stage = "idle" => Atomic!Succeed]_vars

(* The inductive invariant behind these: nothing is under way but what the  *)
(* loop waits for or has given up, and no upload goes on that was denied.   *)
IInv ==
    /\ TypeOK
    /\ OkIsStoredIfAwaited
    /\ put.stage = "wait" => Current \in requests
    /\ \A r \in requests : Awaited(r) \/ r \in abandoned
    /\ \A n \in denied : n <= put.upload
    /\ Uploading => put.attempt > 0 /\ put.upload > 0 /\ put.upload \notin denied

(* sink.rs, "the name makes the retry an overwrite": the claim of           *)
(* OkIsStoredIfAwaited for every upload, also after a timeout.              *)
OkIsStored == put.stage = "idle" => object = put.upload

-------------------------------------------------------------------------------
(* Liveness *)

(* The client has a timeout, so its awaits return. *)
Fairness == WF_vars(Send) /\ WF_vars(NoToken) /\ WF_vars(GiveUp)

LiveSpec == Spec /\ Fairness

(* A bucket that does not answer cannot hold the consume loop for ever. *)
UploadsEnd == Uploading ~> ~ Uploading
===============================================================================
