------------------------------ MODULE SinkProofs ------------------------------
(* Proofs of the safety properties of Sink, for every number of uploads and *)
(* attempts and every set of answers.                                      *)
EXTENDS Sink, TLAPS

(* What put's results have to do with the status: a success is a 2xx, and a *)
(* denial is never retried.                                                 *)
LEMMA ClassifyIsSound ==
    ASSUME NEW status \in Answers
    PROVE  /\ Classify(status) = "ok" <=> status \in 200 .. 299
           /\ status \in {401, 403} <=> Classify(status) = "auth"
           /\ Classify(status) \in {"ok", "auth", "retryable", "permanent"}
  BY SinkAssumption DEF Classify, SinkAssumption

(* Whatever put returns, the loop stays within its attempts and keeps to the *)
(* same upload; it goes back to sending only after a retryable failure.     *)
LEMMA ReturnedIsBounded ==
    ASSUME TypeOK, put.attempt > 0, NEW result, Returned(result)
    PROVE  /\ put' \in [stage : {"idle", "send", "failed"},
                        upload : {put.upload}, attempt : 1 .. MaxAttempts]
           /\ put'.stage = "idle" => result = "ok"
           /\ put'.stage = "send" => result = "retryable"
<1>1. /\ put \in [stage : {"idle", "send", "wait", "failed"},
                  upload : 0 .. MaxUploads, attempt : 0 .. MaxAttempts]
      /\ put.attempt \in 1 .. MaxAttempts
  BY SinkAssumption DEF TypeOK, SinkAssumption
<1>2. CASE result = "ok" /\ Ended("idle")
  BY <1>1, <1>2 DEF Ended
<1>3. CASE result = "retryable" /\ put.attempt < MaxAttempts /\ Retry
  <2>1. put.attempt + 1 \in 1 .. MaxAttempts
    BY <1>1, <1>3, SinkAssumption DEF SinkAssumption
  <2> QED
    BY <1>1, <1>3, <2>1 DEF Retry
<1>4. CASE result \in {"retryable", "auth", "permanent"} /\ Ended("failed")
  BY <1>1, <1>4 DEF Ended
<1> QED
  BY <1>2, <1>3, <1>4 DEF Returned

LEMMA InitEstablishes == Init => IInv
  BY SinkAssumption DEF Init, IInv, TypeOK, OkIsStoredIfAwaited, Uploading, Requests, SinkAssumption

LEMMA BeginKeepsInvariant ==
    ASSUME IInv, Begin
    PROVE  IInv'
<1> USE SinkAssumption DEF SinkAssumption
<1>1. TypeOK'
  BY DEF IInv, Begin, TypeOK
<1>2. put'.stage = "send"
  BY DEF Begin
<1>3. \A r \in requests : r \in abandoned
  BY DEF IInv, Begin, Awaited, Uploading
<1>4. \A n \in denied : n <= put'.upload /\ n # put'.upload
  BY DEF IInv, TypeOK, Begin, Uploads
<1> QED
  BY <1>1, <1>2, <1>3, <1>4 DEF IInv, TypeOK, Begin, OkIsStoredIfAwaited, Uploading, Awaited

LEMMA SendKeepsInvariant ==
    ASSUME IInv, Send
    PROVE  IInv'
<1>1. Current \in Requests /\ Current' = Current
  BY DEF IInv, TypeOK, Send, Ended, Current, Requests, Uploads, Uploading
<1>2. TypeOK'
  BY <1>1 DEF IInv, TypeOK, Send, Ended
<1>3. \A r \in requests' : Awaited(r)' \/ r \in abandoned'
  BY <1>1 DEF IInv, TypeOK, Send, Ended, Awaited
<1> QED
  BY <1>1, <1>2, <1>3 DEF IInv, TypeOK, Send, Ended, OkIsStoredIfAwaited, Uploading

(* put returns: the request, if there was one, is handled or given up, so    *)
(* that all that is still under way is abandoned; a success has stored its  *)
(* bytes, and a denial ends the upload.                                     *)
LEMMA ReturnKeepsInvariant ==
    ASSUME IInv, Uploading, NEW result, Returned(result),
           requests' \subseteq requests,
           abandoned \subseteq abandoned', abandoned' \subseteq Requests,
           \A r \in requests' : r \in abandoned',
           endpoint' = endpoint,
           object' \in 0 .. MaxUploads,
           result = "ok" => object' = put.upload,
           \/ denied' = denied
           \/ result = "auth" /\ denied' = denied \union {put.upload}
    PROVE  IInv'
<1>1. /\ put' \in [stage : {"idle", "send", "failed"},
                   upload : {put.upload}, attempt : 1 .. MaxAttempts]
      /\ put'.stage = "idle" => result = "ok"
      /\ put'.stage = "send" => result = "retryable"
  BY ReturnedIsBounded DEF IInv
<1>2. put.upload \in Uploads
  BY SinkAssumption DEF IInv, TypeOK, Uploads, SinkAssumption
<1>3. TypeOK'
  <2>1. denied' \subseteq Uploads /\ requests' \subseteq Requests
    BY <1>2 DEF IInv, TypeOK
  <2>2. put' \in [stage : {"idle", "send", "wait", "failed"},
                  upload : 0 .. MaxUploads, attempt : 0 .. MaxAttempts]
    <3>1. put.upload \in 0 .. MaxUploads /\ put'.attempt \in 0 .. MaxAttempts
      BY <1>1, <1>2, SinkAssumption DEF Uploads, SinkAssumption
    <3> QED
      BY <1>1, <3>1
  <2> QED
    BY <2>1, <2>2 DEF IInv, TypeOK
<1>4. OkIsStoredIfAwaited'
  BY <1>1 DEF OkIsStoredIfAwaited
<1>5. put'.stage # "wait" /\ \A r \in requests' : r \in abandoned'
  BY <1>1
<1>6. \A n \in denied' : n <= put'.upload
  BY <1>1, <1>2, SinkAssumption DEF IInv, Uploads, SinkAssumption
<1>7. Uploading' => put'.attempt > 0 /\ put'.upload > 0 /\ put'.upload \notin denied'
  BY <1>1, <1>2 DEF IInv, Uploading, Uploads
<1> QED
  BY <1>3, <1>4, <1>5, <1>6, <1>7 DEF IInv

LEMMA NoTokenKeepsInvariant ==
    ASSUME IInv, NoToken
    PROVE  IInv'
<1>1. Uploading /\ \A r \in requests : r \in abandoned
  BY DEF IInv, NoToken, Uploading, Awaited
<1>2. Returned("auth") /\ UNCHANGED <<endpoint, requests, abandoned, denied, object>>
  BY DEF NoToken
<1> QED
  BY <1>1, <1>2, ReturnKeepsInvariant DEF IInv, TypeOK

LEMMA NotSentKeepsInvariant ==
    ASSUME IInv, NotSent
    PROVE  IInv'
<1>1. Uploading /\ \A r \in requests' : r \in abandoned
  BY DEF IInv, NotSent, Uploading, Awaited
<1>2. Returned("retryable") /\ UNCHANGED <<endpoint, abandoned, denied, object>>
  BY DEF NotSent
<1>3. requests' \subseteq requests
  BY DEF NotSent
<1> QED
  BY <1>1, <1>2, <1>3, ReturnKeepsInvariant DEF IInv, TypeOK

LEMMA GiveUpKeepsInvariant ==
    ASSUME IInv, GiveUp
    PROVE  IInv'
<1>1. Uploading /\ Current \in Requests
  BY DEF IInv, GiveUp, Uploading, TypeOK
<1>2. Returned("retryable") /\ UNCHANGED <<endpoint, requests, denied, object>>
  BY DEF GiveUp
<1>3. abandoned' = abandoned \union {Current}
  BY DEF GiveUp
<1>4. \A r \in requests' : r \in abandoned'
  BY <1>2, <1>3 DEF IInv, Awaited
<1> QED
  BY <1>1, <1>2, <1>3, <1>4, ReturnKeepsInvariant DEF IInv, TypeOK

LEMMA HandleKeepsInvariant ==
    ASSUME IInv, NEW r \in requests, NEW status \in Answers, Handle(r, status)
    PROVE  IInv'
<1> DEFINE class == Classify(status)
<1>1. object' \in 0 .. MaxUploads
  <2>1. r.upload \in 0 .. MaxUploads /\ object \in 0 .. MaxUploads
    BY SinkAssumption DEF IInv, TypeOK, Requests, Uploads, SinkAssumption
  <2>2. object' \in {object, r.upload}
    BY DEF Handle, Effects
  <2> QED
    BY <2>1, <2>2
<1>2. requests' = requests \ {r} /\ UNCHANGED <<endpoint, abandoned>>
  BY DEF Handle
<1>3. CASE Awaited(r)
  <2>1. Uploading /\ r.upload = put.upload /\ \A q \in requests' : q \in abandoned
    BY <1>2, <1>3 DEF IInv, Awaited, Uploading, Current
  <2>2. Answered(r, status)
    BY <1>3 DEF Handle
  <2>3. CASE Returned("retryable") /\ UNCHANGED denied
    BY <1>1, <1>2, <2>1, <2>3, ReturnKeepsInvariant DEF IInv, TypeOK
  <2>4. CASE /\ Returned(class)
             /\ denied' = IF status \in {401, 403} THEN denied \union {r.upload} ELSE denied
    <3>1. class = "ok" => object' = put.upload
      BY <2>1, ClassifyIsSound DEF Handle, Effects
    <3>2. denied' = denied \/ (class = "auth" /\ denied' = denied \union {put.upload})
      BY <2>1, <2>4, ClassifyIsSound
    <3> HIDE DEF class
    <3> QED
      BY <1>1, <1>2, <2>1, <2>4, <3>1, <3>2, ReturnKeepsInvariant DEF IInv, TypeOK
  <2> QED
    BY <2>2, <2>3, <2>4 DEF Answered
<1>4. CASE ~ Awaited(r)
  <2>1. r \in abandoned /\ UNCHANGED <<put, denied>>
    BY <1>4 DEF IInv, Handle
  <2> QED
    BY <1>1, <1>2, <1>4, <2>1 DEF IInv, TypeOK, OkIsStoredIfAwaited, Awaited, Current, Uploading
<1> QED
  BY <1>3, <1>4

LEMMA NextKeepsInvariant == IInv /\ [Next]_vars => IInv'
<1> SUFFICES ASSUME IInv, [Next]_vars PROVE IInv'
  OBVIOUS
<1>1. CASE UNCHANGED vars
  BY <1>1 DEF vars, IInv, TypeOK, OkIsStoredIfAwaited, Awaited, Current, Uploading
<1> QED
  BY <1>1, BeginKeepsInvariant, SendKeepsInvariant, NoTokenKeepsInvariant,
     NotSentKeepsInvariant, GiveUpKeepsInvariant, HandleKeepsInvariant DEF Next

(* The inductive invariant holds in every behaviour, lost answers, timeouts  *)
(* and late arrivals included.                                              *)
THEOREM InvariantHolds == Spec => []IInv
  BY InitEstablishes, NextKeepsInvariant, PTL DEF Spec

(* A put is within its attempts and its numbers, and only requests of such   *)
(* puts are under way.                                                      *)
THEOREM TypeCorrect == Spec => []TypeOK
<1>1. IInv => TypeOK
  BY DEF IInv
<1> QED
  BY <1>1, InvariantHolds, PTL

(* put's Ok can be relied on when every request was waited for: the retries  *)
(* after lost answers and server errors leave the bytes of the last success. *)
THEOREM OkIsStoredIfAwaitedAlways == Spec => []OkIsStoredIfAwaited
<1>1. IInv => OkIsStoredIfAwaited
  BY DEF IInv
<1> QED
  BY <1>1, InvariantHolds, PTL

LEMMA StepSendsNothingDenied ==
    ASSUME IInv, [Next]_vars, NEW r \in requests' \ requests
    PROVE  r.upload \notin denied
<1>1. Send
  BY DEF Next, vars, Begin, NoToken, NotSent, GiveUp, Handle
<1> QED
  BY <1>1 DEF Send, IInv, Uploading, Current

(* No upload that was denied with 401 or 403 sends another request, for any  *)
(* number of attempts allowed.                                              *)
THEOREM DenialsAreFinalAlways == Spec => DenialsAreFinal
<1>1. IInv /\ [Next]_vars => [\A r \in requests' \ requests : r.upload \notin denied]_vars
  BY StepSendsNothingDenied
<1> QED
  BY <1>1, InvariantHolds, PTL DEF Spec, DenialsAreFinal

-------------------------------------------------------------------------------
(* The steps of the sink as the pipeline takes them. *)

(* put returned: the bytes may be stored after a failure that counts as an  *)
(* attempt, must be after a success, and are not after any other failure.   *)
LEMMA ReturnIsAtomic ==
    ASSUME IInv, Uploading, NEW result, Returned(result),
           result \in {"ok", "auth", "retryable", "permanent"},
           result = "ok" => object' = put.upload,
           result = "retryable" => object' \in {object, put.upload},
           result \in {"auth", "permanent"} => object' = object
    PROVE  /\ Atomic!Next
           /\ put'.stage = "idle" => Atomic!Succeed
<1>1. /\ put \in [stage : {"idle", "send", "wait", "failed"},
                  upload : 0 .. MaxUploads, attempt : 0 .. MaxAttempts]
      /\ put.attempt \in 1 .. MaxAttempts /\ put.upload \in Nat \ {0}
      /\ object \in Nat /\ MaxAttempts \in Nat
  BY SinkAssumption DEF IInv, TypeOK, SinkAssumption
<1>2. CASE result = "ok" /\ Ended("idle")
  <2>1. ~ Uploading' /\ object' = put.upload
    BY <1>1, <1>2 DEF Ended, Uploading
  <2>2. {object'} \ {0} = {put.upload}
    BY <1>1, <2>1
  <2> QED
    BY <1>1, <2>1, <2>2 DEF Atomic!Next, Atomic!Succeed, Atomic!Over
<1>3. CASE result = "retryable" /\ put.attempt < MaxAttempts /\ Retry
  <2>1. /\ put'.stage = "send" /\ put'.upload = put.upload /\ put'.attempt = put.attempt + 1
        /\ Uploading'
    BY <1>1, <1>3 DEF Retry, Uploading
  <2>2. {object'} \ {0} \in {{object} \ {0}, {put.upload}}
    BY <1>1, <1>3
  <2>3. put.attempt \in 1 .. MaxAttempts - 1
    BY <1>1, <1>3
  <2> QED
    BY <2>1, <2>2, <2>3 DEF Atomic!Next, Atomic!Retry, Atomic!MayStore
<1>4. CASE /\ result = "retryable" => put.attempt >= MaxAttempts
           /\ result # "ok" /\ Ended("failed")
  <2>1. ~ Uploading' /\ put'.stage = "failed"
    BY <1>1, <1>4 DEF Ended, Uploading
  <2>2. Atomic!Over
    BY <1>1, <2>1 DEF Atomic!Over
  <2>3. ASSUME object' = object PROVE Atomic!Fail
    <3>1. {object'} \ {0} = {object} \ {0}
      BY <2>3
    <3> QED
      BY <2>2, <3>1 DEF Atomic!Fail, Atomic!MayStore
  <2>4. ASSUME object' = put.upload, result = "retryable" PROVE Atomic!Fail
    <3>1. ~ (put.attempt < MaxAttempts)
      BY <1>1, <1>4, <2>4
    <3>2. {object'} \ {0} = {put.upload}
      BY <1>1, <2>4
    <3>3. Atomic!MayStore
      BY <3>2 DEF Atomic!MayStore
    <3> QED
      BY <2>2, <3>1, <3>3 DEF Atomic!Fail
  <2> QED
    BY <1>4, <2>1, <2>3, <2>4 DEF Atomic!Next
<1> QED
  BY <1>2, <1>3, <1>4 DEF Returned

LEMMA HandleIsAtomicOrLate ==
    ASSUME IInv, NEW r \in requests, NEW status \in Answers, Handle(r, status)
    PROVE  /\ Atomic!Next \/ UNCHANGED Atomic!vars \/ LateWrite
           /\ Uploading /\ put'.stage = "idle" => Atomic!Succeed
<1>1. CASE Awaited(r)
  <2>1. Uploading /\ r.upload = put.upload /\ Answered(r, status)
    BY <1>1 DEF Awaited, Uploading, Current, Handle
  <2>2. CASE Returned("retryable")
    BY <2>1, <2>2, ReturnIsAtomic DEF Handle, Effects
  <2>3. CASE Returned(Classify(status))
    <3>1. /\ Classify(status) \in {"ok", "auth", "retryable", "permanent"}
          /\ Classify(status) = "ok" => object' = put.upload
          /\ object' \in {object, put.upload}
      BY <2>1, ClassifyIsSound DEF Handle, Effects
    <3>2. Classify(status) \in {"auth", "permanent"} => object' = object
      <4>1. Classify(status) \in {"auth", "permanent"}
                => status \notin 200 .. 299 /\ status \notin 500 .. 599
        BY SinkAssumption DEF Classify, SinkAssumption
      <4> QED
        BY <4>1 DEF Handle, Effects
    <3> DEFINE class == Classify(status)
    <3> HIDE DEF class
    <3> QED
      BY <2>1, <2>3, <3>1, <3>2, ReturnIsAtomic DEF class
  <2> QED
    BY <2>1, <2>2, <2>3 DEF Answered
<1>2. CASE ~ Awaited(r)
  <2>1. r \in abandoned /\ UNCHANGED put
    BY <1>2 DEF IInv, Handle
  <2>2. object' \in {object, r.upload}
    BY DEF Handle, Effects
  <2>3. object' = object => UNCHANGED Atomic!vars
    BY <2>1 DEF Atomic!vars, Uploading
  <2>4. object' = r.upload => LateWrite
    BY <2>1 DEF LateWrite
  <2>5. Uploading => put'.stage # "idle"
    BY <2>1 DEF Uploading
  <2> QED
    BY <2>2, <2>3, <2>4, <2>5
<1> QED
  BY <1>1, <1>2

LEMMA BeginIsBegin ==
    ASSUME IInv, Begin
    PROVE  Atomic!Begin /\ ~ Uploading
<1>1. Uploading' /\ put'.attempt = 1 /\ put'.upload # 0 /\ ~ Uploading
  BY SinkAssumption DEF IInv, TypeOK, Begin, Uploading, SinkAssumption
<1> QED
  BY <1>1 DEF Begin, Atomic!Begin

(* Over all that can happen to a request and its answer: a step of the sink *)
(* is a step of Upload, with success for success, or is not seen there, or  *)
(* stores the bytes of a request that the client no longer waits for.       *)
THEOREM AttemptsAreAtomicButForLateOnesAlways == Spec => AttemptsAreAtomicButForLateOnes
<1> DEFINE Step == /\ [Atomic!Next]_(Atomic!vars) \/ LateWrite
                   /\ Uploading /\ put'.stage = "idle" => Atomic!Succeed
<1>1. IInv /\ [Next]_vars => [Step]_vars
  <2> SUFFICES ASSUME IInv, Next PROVE Step
    OBVIOUS
  <2>1. CASE Begin
    BY <2>1, BeginIsBegin DEF Atomic!Next
  <2>2. CASE Send
    <3>1. Uploading' /\ put'.stage = "wait" /\ put'.upload = put.upload
          /\ put'.attempt = put.attempt /\ object' = object /\ Uploading
      BY <2>2 DEF IInv, TypeOK, Send, Ended, Uploading
    <3> QED
      BY <3>1 DEF Atomic!vars
  <2>3. CASE NoToken
    BY <2>3, ReturnIsAtomic DEF NoToken, Uploading
  <2>4. CASE NotSent \/ GiveUp
    <3>1. Uploading /\ Returned("retryable") /\ object' = object
      BY <2>4 DEF NotSent, GiveUp, Uploading
    <3> QED
      BY <3>1, ReturnIsAtomic
  <2> QED
    BY <2>1, <2>2, <2>3, <2>4, HandleIsAtomicOrLate DEF Next
<1> QED
  BY <1>1, InvariantHolds, PTL DEF Spec, AttemptsAreAtomicButForLateOnes
===============================================================================
