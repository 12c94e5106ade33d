----------------------------- MODULE StagingProofs -----------------------------
(***************************************************************************)
(* What SingleOwner does to the bucket and to the committed offsets, step   *)
(* by step: the action properties, the refinement of Staging, and the order *)
(* of the rows.                                                             *)
(***************************************************************************)
EXTENDS SingleOwnerProofs

(* A step leaves the bucket and the commits alone, puts one buffer of a call *)
(* in progress, or commits one complete range.                               *)
PutStep(c) ==
    /\ ~ Ready(c)
    /\ objects' = Overwritten(call[c].name, Current(c).records)
    /\ UNCHANGED committed

CommitStep(c) ==
    /\ call[c].stage = "commit"
    /\ NextToRead(c) <= MaxI64
    /\ committed' = [committed EXCEPT ![Target(c)] = NextToRead(c)]
    /\ UNCHANGED objects

LEMMA StepEffect ==
    ASSUME [Next]_vars
    PROVE  \/ UNCHANGED <<objects, committed>>
           \/ \E c \in Consumers : PutStep(c) \/ CommitStep(c)
<1>1. ASSUME NEW c \in Consumers, NEW ps \in SUBSET Partitions, Assign(c, ps) \/ TakeAway(c, ps)
      PROVE  UNCHANGED <<objects, committed>>
  BY <1>1 DEF Assign, TakeAway, Revoke, pipelineVars
<1>2. ASSUME NEW c \in Consumers, NEW p \in Partitions, NEW o \in Log[p], Deliver(c, p, o)
      PROVE  UNCHANGED <<objects, committed>>
  BY <1>2 DEF Deliver, Offer
<1>3. ASSUME NEW c \in Consumers, IdleCheck(c) \/ Shutdown(c)
      PROVE  UNCHANGED <<objects, committed>>
  BY <1>3 DEF IdleCheck, Tick, Shutdown, FlushAll
<1>4. ASSUME NEW c \in Consumers, Stopped(c) \/ Crash(c)
      PROVE  UNCHANGED <<objects, committed>>
  BY <1>4 DEF Stopped, Crash
<1>5. ASSUME NEW c \in Consumers, PutOk(c) \/ PutRetried(c) \/ PutFailed(c)
      PROVE  UNCHANGED <<objects, committed>> \/ PutStep(c)
  BY <1>5 DEF PutOk, PutRetried, PutFailed, PutStep, Ready
<1>6. ASSUME NEW c \in Consumers, CommitOk(c) \/ CommitFailed(c)
      PROVE  UNCHANGED <<objects, committed>> \/ CommitStep(c)
  BY <1>6 DEF CommitOk, CommitFailed, CommitStep
<1>7. ASSUME ClockStep
      PROVE  UNCHANGED <<objects, committed>>
  BY <1>7 DEF ClockStep, Elapse, NewDay
<1>8. ASSUME UNCHANGED vars
      PROVE  UNCHANGED <<objects, committed>>
  BY <1>8 DEF vars, pipelineVars
<1> QED
  BY <1>1, <1>2, <1>3, <1>4, <1>5, <1>6, <1>7, <1>8
     DEF Next, Answered, UploadError, CommitError

-------------------------------------------------------------------------------
(* Action properties. *)

LEMMA StepKeepsStored ==
    ASSUME IInv, [Next]_vars
    PROVE  StoredStays
<1>1. CASE UNCHANGED <<objects, committed>>
  BY <1>1, BucketUnchanged
<1>2. ASSUME NEW c \in Consumers, PutStep(c)
      PROVE  StoredStays
  <2>1. PICK p \in Partitions : p = Target(c)
    BY TypeFacts DEF IInv
  <2> QED
    BY <1>2, <2>1, BucketOverwritten DEF PutStep
<1>3. ASSUME NEW c \in Consumers, CommitStep(c)
      PROVE  StoredStays
  BY <1>3, BucketUnchanged DEF CommitStep
<1> QED
  BY <1>1, <1>2, <1>3, StepEffect

(* Rule 2 of pipeline.rs: an upload never takes a record that the owner of   *)
(* the partition has read out of the bucket, because a partial flush keeps   *)
(* its records and the next upload of the range holds them all.              *)
THEOREM UploadsOnlyGrowAlways == Spec => UploadsOnlyGrow
<1> DEFINE Kept == \A p \in Partitions : owner[p] # NoOwner =>
                      \A o \in Log[p] : (o < position[p] /\ Stored(p, o)) => Stored(p, o)'
<1>1. IInv /\ [Next]_vars => Kept
  BY StepKeepsStored DEF StoredStays
<1>2. IInv /\ [Next]_vars => [Kept]_vars
  BY <1>1
<1> QED
  BY <1>2, InvariantHolds, PTL DEF Spec, UploadsOnlyGrow

(* A PUT names an object of the range it works on, and that range is not     *)
(* acknowledged yet.                                                         *)
LEMMA AckedObjectsStay ==
    ASSUME IInv, [Next]_vars, NEW obj \in objects,
           obj.name.range.end < committed[obj.name.partition]
    PROVE  obj \in objects'
<1>1. CASE objects' = objects
  BY <1>1
<1>2. ASSUME NEW c \in Consumers, PutStep(c)
      PROVE  obj \in objects'
  <2> DEFINE b == Current(c)
  <2>1. PICK p \in Partitions : p = Target(c)
    BY TypeFacts DEF IInv
  <2>2. /\ b \in Batchers /\ Held(b) /\ committed[p] \in Nat
        /\ GoodBatch(b, p, position[p], call[c].pending, committed[p])
        /\ call[c].name.range = b.range /\ call[c].name.partition = p
    BY <1>2, <2>1, BusyFacts, TypeFacts DEF IInv, PutStep
  <2>3. PICK x \in Rows(b) : x \in Nat /\ Contains(b.range, x)
    BY <2>2, BatcherFacts, OffsetFacts DEF GoodBatch
  <2>4. b.range.start \in Nat /\ b.range.end \in Nat
    BY <2>2, BatcherFacts, RangesFacts
  <2>5. ~ (b.range.end < committed[p])
    BY <2>2, <2>3, <2>4 DEF GoodBatch, Contains
  <2>6. obj.name # call[c].name
    BY <2>2, <2>5
  <2> QED
    BY <1>2, <2>6 DEF PutStep, Overwritten
<1> QED
  BY <1>1, <1>2, StepEffect DEF CommitStep

(* The object of an acknowledged range is never rewritten.                   *)
THEOREM AckedObjectsAreFinalAlways == Spec => AckedObjectsAreFinal
<1> DEFINE Final == \A obj \in objects :
                       obj.name.range.end < committed[obj.name.partition] => obj \in objects'
<1>1. IInv /\ [Next]_vars => [Final]_vars
  BY AckedObjectsStay
<1> QED
  BY <1>1, InvariantHolds, PTL DEF Spec, AckedObjectsAreFinal

-------------------------------------------------------------------------------
(* Refinement. *)

LEMMA PutIsStore ==
    ASSUME IInv, NEW c \in Consumers, PutStep(c), NEW p \in Partitions, p = Target(c)
    PROVE  Abstract!Store(p)
<1>1. StoredStays
  BY BucketOverwritten DEF PutStep
<1>2. \A q \in Partitions : \A o : q # p => (Stored(q, o)' <=> Stored(q, o))
  <2>1. call[c].name.partition = p
    BY DEF Target
  <2> QED
    BY <2>1 DEF PutStep, Overwritten, Stored
<1>3. stored' = [q \in Partitions |-> {o \in Log[q] : Stored(q, o)'}]
  BY DEF stored
<1>4. stored' = [stored EXCEPT ![p] = {o \in Log[p] : Stored(p, o)'}]
  BY <1>2, <1>3 DEF stored
<1>5. {o \in stored[p] : o < committed[p]} \subseteq {o \in Log[p] : Stored(p, o)'}
  BY <1>1 DEF stored, StoredStays
<1> QED
  BY <1>4, <1>5 DEF Abstract!Store, PutStep

LEMMA CommitIsAck ==
    ASSUME IInv, NEW c \in Consumers, CommitStep(c), NEW p \in Partitions, p = Target(c)
    PROVE  Abstract!Ack(p)
<1>1. /\ committed[p] <= NextToRead(c)
      /\ \A o \in Log[p] : o < NextToRead(c) => Stored(p, o)
      /\ NextToRead(c) = Current(c).range.end + 1
  BY CommitFacts DEF CommitStep
<1>2. Current(c).range.end \in Nat
  BY TypeFacts, BatcherFacts, RangesFacts DEF IInv
<1>3. NextToRead(c) \in Offsets
  BY <1>1, <1>2, WordAssumption DEF CommitStep, Offsets
<1>4. {o \in Log[p] : o < NextToRead(c)} \subseteq stored[p]
  BY <1>1 DEF stored
<1>5. UNCHANGED stored
  BY DEF stored, Stored, CommitStep
<1>6. committed' = [committed EXCEPT ![p] = NextToRead(c)]
  BY DEF CommitStep
<1> QED
  BY <1>1, <1>3, <1>4, <1>5, <1>6 DEF Abstract!Ack

LEMMA StagingStep ==
    ASSUME IInv, [Next]_vars
    PROVE  [Abstract!Next]_(Abstract!vars)
<1>1. CASE UNCHANGED <<objects, committed>>
  <2>1. UNCHANGED stored
    BY <1>1 DEF stored, Stored
  <2> QED
    BY <1>1, <2>1 DEF Abstract!vars
<1>2. ASSUME NEW c \in Consumers, PutStep(c) \/ CommitStep(c)
      PROVE  Abstract!Next
  <2>1. PICK p \in Partitions : p = Target(c)
    BY TypeFacts DEF IInv
  <2> QED
    BY <1>2, <2>1, PutIsStore, CommitIsAck DEF Abstract!Next
<1> QED
  BY <1>1, <1>2, StepEffect

(* The pipelines of a group implement Staging: storing and acknowledging as  *)
(* separate steps, an acknowledgement only of what is stored.                *)
THEOREM Implementation == Spec => ImplementsStaging
<1>1. Init => Abstract!Init
  BY DEF Init, PipelineInit, Abstract!Init, stored, Stored
<1>2. IInv /\ [Next]_vars => [Abstract!Next]_(Abstract!vars)
  BY StagingStep
<1> QED
  BY <1>1, <1>2, InvariantHolds, PTL DEF Spec, ImplementsStaging, Abstract!Spec

-------------------------------------------------------------------------------
(* The order of rows: a buffer grows at its end only, and by offsets above   *)
(* those that it holds, also when the record waited for the flush of the    *)
(* range before.                                                            *)

Ascending(s) == \A i, j \in DOMAIN s : i < j => s[i] < s[j]

(* What a step may do to the records s of a buffer. *)
GrownBy(s, t, o) == t = << o >> \/ (t = Append(s, o) /\ \A u \in Range(s) : u < o)

Grown(s, t) == t = s \/ t = << >> \/ \E o \in Offsets : GrownBy(s, t, o)

BuffersGrow ==
    \A c \in Consumers, p \in Partitions :
        Grown(batchers[c][p].records, batchers'[c][p].records)

LEMMA GrownIsAscending ==
    ASSUME NEW s \in Seq(Offsets), Ascending(s), NEW t, Grown(s, t)
    PROVE  Ascending(t)
<1>1. CASE t = s \/ t = << >>
  BY <1>1 DEF Ascending
<1>2. ASSUME NEW o \in Offsets, t = << o >>
      PROVE  Ascending(t)
  <2>1. DOMAIN t = {1}
    BY <1>2
  <2> QED
    BY <2>1 DEF Ascending
<1>3. ASSUME NEW o \in Offsets, t = Append(s, o), \A u \in Range(s) : u < o
      PROVE  Ascending(t)
  <2>1. /\ Len(s) \in Nat /\ DOMAIN s = 1 .. Len(s) /\ DOMAIN t = 1 .. Len(s) + 1
        /\ \A i \in 1 .. Len(s) : t[i] = s[i]
        /\ t[Len(s) + 1] = o
    BY <1>3
  <2>2. ASSUME NEW i \in DOMAIN t, NEW j \in DOMAIN t, i < j
        PROVE  t[i] < t[j]
    <3>1. i \in 1 .. Len(s)
      BY <2>1, <2>2
    <3>2. CASE j = Len(s) + 1
      BY <1>3, <2>1, <3>1, <3>2 DEF Range
    <3>3. CASE j # Len(s) + 1
      <4>1. j \in 1 .. Len(s)
        BY <2>1, <3>3
      <4> QED
        BY <2>1, <2>2, <3>1, <4>1 DEF Ascending
    <3> QED
      BY <3>2, <3>3
  <2> QED
    BY <2>2 DEF Ascending
<1> QED
  BY <1>1, <1>2, <1>3 DEF Grown, GrownBy

-------------------------------------------------------------------------------
(* The steps of one process. *)

(* Only the buffers of c change, to bs with what is pushed. *)
OnlyBuffersOf(c, bs) ==
    /\ batchers' = [batchers EXCEPT ![c] = bs]
    /\ bs \in [Partitions -> Batchers]
    /\ \A p \in Partitions : Grown(batchers[c][p].records, bs[p].records)

LEMMA BuffersOfOne ==
    ASSUME IInv, NEW c \in Consumers, NEW bs, OnlyBuffersOf(c, bs)
    PROVE  BuffersGrow
<1>1. batchers \in [Consumers -> [Partitions -> Batchers]]
  BY DEF IInv, TypeOK, PipelineTypeOK
<1>2. batchers'[c] = bs /\ \A k \in Consumers : k # c => batchers'[k] = batchers[k]
  BY <1>1 DEF OnlyBuffersOf
<1>3. ASSUME NEW k \in Consumers, NEW p \in Partitions
      PROVE  Grown(batchers[k][p].records, batchers'[k][p].records)
  <2>1. CASE k = c
    BY <1>2, <2>1 DEF OnlyBuffersOf
  <2>2. CASE k # c
    BY <1>2, <2>2 DEF Grown
  <2> QED
    BY <2>1, <2>2
<1> QED
  BY <1>3 DEF BuffersGrow

(* Buffers that a call goes on with: one may be empty now. *)
Shrunk(c, bs) ==
    \A p \in Partitions : bs[p].records \in {batchers[c][p].records, << >>}

LEMMA PushGrows ==
    ASSUME IInv, NEW c \in Consumers, NEW bs \in [Partitions -> Batchers], Shrunk(c, bs),
           NEW p \in Partitions, NEW o \in Offsets, PushRecord(c, bs, p, o),
           bs[p].range = RangeOf(o) => \A u \in Range(bs[p].records) : u < o
    PROVE  BuffersGrow
<1> DEFINE b == Pushed(bs[p], o)
           new == [bs EXCEPT ![p] = b]
<1>1. batchers' = [batchers EXCEPT ![c] = new]
  BY DEF PushRecord
<1>2. b \in Batchers
  BY BatcherTypes
<1>3. GrownBy(bs[p].records, b.records, o)
  BY DEF Pushed, GrownBy
<1>4. Grown(batchers[c][p].records, b.records)
  <2>1. CASE bs[p].records = batchers[c][p].records
    BY <1>3, <2>1 DEF Grown
  <2>2. CASE bs[p].records = << >>
    <3>1. b.records = << o >>
      BY <2>2 DEF Pushed
    <3> QED
      BY <3>1 DEF Grown, GrownBy
  <2> QED
    BY <2>1, <2>2 DEF Shrunk
<1> HIDE DEF b
<1>5. new \in [Partitions -> Batchers] /\ new[p] = b /\ \A q \in Partitions : q # p => new[q] = bs[q]
  BY <1>2
<1> HIDE DEF new
<1>6. ASSUME NEW q \in Partitions
      PROVE  Grown(batchers[c][q].records, new[q].records)
  BY <1>4, <1>5 DEF Shrunk, Grown
<1> QED
  BY <1>1, <1>5, <1>6, BuffersOfOne DEF OnlyBuffersOf

LEMMA FlushGrows ==
    ASSUME IInv, NEW c \in Consumers, NEW bs \in [Partitions -> Batchers], Shrunk(c, bs),
           batchers' = [batchers EXCEPT ![c] = bs]
    PROVE  BuffersGrow
<1>1. OnlyBuffersOf(c, bs)
  BY DEF OnlyBuffersOf, Shrunk, Grown
<1> QED
  BY <1>1, BuffersOfOne

(* A record that waited is above the range that was flushed before it. *)
LEMMA ReturnGrows ==
    ASSUME IInv, NEW c \in Consumers, ~ Ready(c),
           NEW bs \in [Partitions -> Batchers], Shrunk(c, bs), Return(c, bs)
    PROVE  BuffersGrow
<1>1. ASSUME NEW o \in call[c].pending, PushRecord(c, bs, Target(c), o)
      PROVE  BuffersGrow
  <2>1. /\ Target(c) \in Partitions /\ Current(c) \in Batchers
        /\ Current(c) = batchers[c][Target(c)]
        /\ o \in Offsets /\ o \in Nat /\ Current(c).range.end < o
        /\ Held(Current(c))
        /\ GoodBatch(Current(c), Target(c), position[Target(c)], call[c].pending,
                     committed[Target(c)])
    BY BusyFacts, TypeFacts DEF IInv
  <2>2. Current(c).range \in BatchRanges /\ Rows(Current(c)) \subseteq Nat
    BY <2>1, BatcherFacts, RangesFacts, OffsetFacts
  <2>3. \A u \in Range(Current(c).records) : u < o
    <3>1. Current(c).range.end \in Nat
      BY <2>1, BatcherFacts, RangesFacts
    <3>2. \A u \in Rows(Current(c)) : u \in Nat /\ u <= Current(c).range.end
      BY <2>1, <2>2 DEF GoodBatch, Contains
    <3> QED
      BY <2>1, <3>1, <3>2 DEF Rows
  <2>4. \A u \in Range(bs[Target(c)].records) : u < o
    <3>1. CASE bs[Target(c)].records = Current(c).records
      BY <2>3, <3>1
    <3>2. CASE bs[Target(c)].records = << >>
      BY <3>2 DEF Range
    <3> QED
      BY <2>1, <3>1, <3>2 DEF Shrunk
  <2> QED
    BY <1>1, <2>1, <2>4, PushGrows
<1>2. CASE FlushEach(c, bs, call[c].todo)
  BY <1>2, FlushGrows DEF FlushEach
<1> QED
  BY <1>1, <1>2 DEF Return

LEMMA DeliverGrows ==
    ASSUME IInv, NEW c \in Consumers, NEW p \in Partitions, NEW o \in Log[p], Deliver(c, p, o)
    PROVE  BuffersGrow
<1>1. CASE UNCHANGED batchers
  BY <1>1 DEF BuffersGrow, Grown
<1>2. CASE PushRecord(c, batchers[c], p, o)
  <2>1. /\ owner[p] = c /\ o >= position[p] /\ o \in Offsets /\ o \in Nat
        /\ position[p] \in Nat /\ batchers[c][p] \in Batchers
    BY TypeFacts, OffsetFacts DEF IInv, Deliver, IsNext, Unread
  <2>2. batchers[c] \in [Partitions -> Batchers] /\ Shrunk(c, batchers[c])
    BY DEF IInv, TypeOK, PipelineTypeOK, Shrunk
  <2>3. GoodBatch(batchers[c][p], p, position[p], Pending(c, p), committed[p])
    BY <2>1 DEF IInv, BatchInv
  <2>4. \A u \in Rows(batchers[c][p]) : u \in Nat /\ u < position[p]
    <3>1. \A u \in Rows(batchers[c][p]) : u \in Nat
      BY <2>1, BatcherFacts, OffsetFacts
    <3>2. Held(batchers[c][p]) \/ Rows(batchers[c][p]) = {}
      BY <2>1, BatcherFacts
    <3> QED
      BY <2>3, <3>1, <3>2 DEF GoodBatch
  <2>5. \A u \in Range(batchers[c][p].records) : u < o
    BY <2>1, <2>4 DEF Rows
  <2> QED
    BY <1>2, <2>1, <2>2, <2>5, PushGrows
<1> QED
  BY <1>1, <1>2 DEF Deliver, Offer

LEMMA AnsweredGrows ==
    ASSUME IInv, NEW c \in Consumers, PutOk(c) \/ PutRetried(c) \/ CommitOk(c)
    PROVE  BuffersGrow
<1> DEFINE bs(b) == [batchers[c] EXCEPT ![Target(c)] = b]
<1>1. CASE UNCHANGED batchers
  BY <1>1 DEF BuffersGrow, Grown
<1>2. /\ batchers[c] \in [Partitions -> Batchers] /\ Target(c) \in Partitions
      /\ batchers[c][Target(c)] \in Batchers
  BY TypeFacts DEF IInv, TypeOK, PipelineTypeOK
<1>3. ASSUME NEW b \in Batchers, b.records \in {batchers[c][Target(c)].records, << >>},
             Return(c, bs(b)), ~ Ready(c)
      PROVE  BuffersGrow
  <2>1. bs(b) \in [Partitions -> Batchers] /\ Shrunk(c, bs(b))
    BY <1>2, <1>3 DEF Shrunk
  <2> QED
    BY <1>3, <2>1, ReturnGrows
<1>4. CASE Return(c, bs(Flushed(batchers[c][Target(c)]))) /\ ~ Ready(c)
  <2>1. /\ Flushed(batchers[c][Target(c)]) \in Batchers
        /\ Flushed(batchers[c][Target(c)]).records = batchers[c][Target(c)].records
    BY <1>2, BatcherTypes, FlushedFacts
  <2> QED
    BY <1>3, <1>4, <2>1
<1>5. CASE Return(c, bs(NoBatcher)) /\ ~ Ready(c)
  <2>1. NoBatcher \in Batchers /\ NoBatcher.records = << >>
    BY BatcherTypes DEF NoBatcher
  <2> QED
    BY <1>3, <1>5, <2>1
<1> QED
  BY <1>1, <1>4, <1>5 DEF PutOk, PutRetried, CommitOk, Ready

LEMMA StepGrows ==
    ASSUME IInv, [Next]_vars
    PROVE  BuffersGrow
<1>1. CASE UNCHANGED batchers
  BY <1>1 DEF BuffersGrow, Grown
<1>2. \A c \in Consumers : batchers[c] \in [Partitions -> Batchers] /\ Shrunk(c, batchers[c])
  BY DEF IInv, TypeOK, PipelineTypeOK, Shrunk
<1>3. ASSUME NEW c \in Consumers, NEW ps \in SUBSET Partitions, TakeAway(c, ps)
      PROVE  BuffersGrow
  <2>1. batchers' = [batchers EXCEPT ![c] = WithoutBatchers(c, ps)]
    BY <1>3 DEF TakeAway, Revoke
  <2>2. WithoutBatchers(c, ps) \in [Partitions -> Batchers] /\ Shrunk(c, WithoutBatchers(c, ps))
    BY <1>2, BatcherTypes DEF WithoutBatchers, Shrunk, NoBatcher
  <2> QED
    BY <2>1, <2>2, FlushGrows
<1>4. ASSUME NEW c \in Consumers, IdleCheck(c) \/ Shutdown(c)
      PROVE  BuffersGrow
  <2>1. batchers' = [batchers EXCEPT ![c] = batchers[c]]
    BY <1>4 DEF IdleCheck, Shutdown, Tick, FlushAll, FlushEach
  <2> QED
    BY <1>2, <2>1, FlushGrows
<1>5. ASSUME NEW c \in Consumers, Exit(c)
      PROVE  BuffersGrow
  <2> DEFINE none == [p \in Partitions |-> NoBatcher]
  <2>1. batchers' = [batchers EXCEPT ![c] = none]
    BY <1>5 DEF Exit
  <2>2. none \in [Partitions -> Batchers] /\ Shrunk(c, none)
    BY BatcherTypes DEF Shrunk, NoBatcher
  <2> QED
    BY <2>1, <2>2, FlushGrows
<1>6. ASSUME NEW c \in Consumers, Elapse(c)
      PROVE  BuffersGrow
  <2> DEFINE aged == [p \in Partitions |-> Aged(batchers[c][p])]
  <2>1. batchers' = [batchers EXCEPT ![c] = aged]
    BY <1>6 DEF Elapse
  <2>2. \A p \in Partitions : batchers[c][p] \in Batchers
    BY TypeFacts DEF IInv
  <2>3. aged \in [Partitions -> Batchers] /\ Shrunk(c, aged)
    BY <2>2, BatcherTypes, FlushedFacts DEF Shrunk
  <2> QED
    BY <2>1, <2>3, FlushGrows
<1>7. CASE UNCHANGED vars \/ NewDay
  BY <1>1, <1>7 DEF vars, pipelineVars, NewDay
<1>8. ASSUME NEW c \in Consumers, NEW ps \in SUBSET Partitions, Assign(c, ps)
      PROVE  BuffersGrow
  BY <1>1, <1>8 DEF Assign, pipelineVars
<1>9. ASSUME NEW c \in Consumers,
             Stopped(c) \/ Crash(c) \/ UploadError(c) \/ CommitError(c)
      PROVE  BuffersGrow
  BY <1>5, <1>9 DEF Stopped, Crash, UploadError, CommitError, PutFailed, CommitFailed
<1> QED
  BY <1>3, <1>4, <1>6, <1>7, <1>8, <1>9, DeliverGrows, AnsweredGrows
     DEF Next, ClockStep, Answered

-------------------------------------------------------------------------------
(* Buffers and objects are in order. *)

OrderInv ==
    /\ \A c \in Consumers, p \in Partitions : Ascending(batchers[c][p].records)
    /\ \A obj \in objects : Ascending(obj.records)

LEMMA OrderInit ==
    ASSUME Init
    PROVE  OrderInv
  BY DEF Init, PipelineInit, NoBatcher, OrderInv, Ascending

LEMMA OrderStep ==
    ASSUME IInv, OrderInv, [Next]_vars
    PROVE  OrderInv'
<1>1. \A c \in Consumers, p \in Partitions : Ascending(batchers'[c][p].records)
  <2>1. ASSUME NEW c \in Consumers, NEW p \in Partitions
        PROVE  Ascending(batchers'[c][p].records)
    <3>1. batchers[c][p].records \in Seq(Offsets)
      BY TypeFacts DEF IInv, Batchers
    <3> QED
      BY <3>1, StepGrows, GrownIsAscending DEF BuffersGrow, OrderInv
  <2> QED
    BY <2>1
<1>2. \A obj \in objects' : Ascending(obj.records)
  <2>1. CASE UNCHANGED objects
    BY <2>1 DEF OrderInv
  <2>2. ASSUME NEW c \in Consumers, PutStep(c), NEW obj \in objects'
        PROVE  Ascending(obj.records)
    <3>1. obj \in objects \/ obj.records = batchers[c][Target(c)].records
      BY <2>2 DEF PutStep, Overwritten, Current
    <3>2. Target(c) \in Partitions
      BY TypeFacts DEF IInv
    <3> QED
      BY <3>1, <3>2 DEF OrderInv
  <2> QED
    BY <2>1, <2>2, StepEffect DEF CommitStep
<1> QED
  BY <1>1, <1>2 DEF OrderInv

(* Every object holds offsets of its own range, each once and in the order   *)
(* of the log, whatever retries, boundary flushes and restarts wrote it.    *)
THEOREM RowsInOrderAlways == Spec => []RowsInOrder
<1>1. Init => OrderInv
  BY OrderInit
<1>2. IInv /\ OrderInv /\ [Next]_vars => OrderInv'
  BY OrderStep
<1>3. IInv /\ OrderInv => RowsInOrder
  BY DEF IInv, ObjectsHoldTheirRange, OrderInv, Ascending, RowsInOrder, Range
<1> QED
  BY <1>1, <1>2, <1>3, InvariantHolds, PTL DEF Spec

-------------------------------------------------------------------------------
(* The uploads of one name, as Upload has them. *)

OthersKept(c) ==
    \A d \in Consumers \ {c} : call'[d] = call[d] /\ batchers'[d] = batchers[d]

(* What is stored under a name. *)
Under(name) == {obj.records : obj \in {q \in objects : q.name = name}}

LEMMA UnderOverwritten ==
    ASSUME NEW name, NEW records, objects' = Overwritten(name, records)
    PROVE  /\ Under(name)' = {records}
           /\ \A other : other # name => Under(other)' = Under(other)
<1>1. {q \in objects' : q.name = name} = {[name |-> name, records |-> records]}
  BY DEF Overwritten
<1>2. ASSUME NEW other, other # name
      PROVE  {q \in objects' : q.name = other} = {q \in objects : q.name = other}
  BY <1>2 DEF Overwritten
<1>3. Under(name)' = {records}
  <2> DEFINE new == [name |-> name, records |-> records]
  <2>1. new.records = records
    OBVIOUS
  <2>2. Under(name)' = {obj.records : obj \in {new}}
    BY <1>1 DEF Under
  <2> HIDE DEF new
  <2> QED
    BY <2>1, <2>2
<1>4. ASSUME NEW other, other # name
      PROVE  Under(other)' = Under(other)
  BY <1>2, <1>4 DEF Under
<1> QED
  BY <1>3, <1>4

(* A new call is on its first attempt. *)
LEMMA FirstAttempt ==
    ASSUME call \in [Consumers -> Calls], NEW c \in Consumers, NEW bs
    PROVE  /\ \A p, o : PushRecord(c, bs, p, o) => call'[c].stage # "put" \/ call'[c].attempt = 1
           /\ \A todo : FlushEach(c, bs, todo) => call'[c].stage # "put" \/ call'[c].attempt = 1
           /\ Return(c, bs) => call'[c].stage # "put" \/ call'[c].attempt = 1
<1>1. ASSUME NEW p, NEW o, PushRecord(c, bs, p, o)
      PROVE  call'[c].stage # "put" \/ call'[c].attempt = 1
  BY <1>1 DEF PushRecord, FlushCall, NoCall
<1>2. ASSUME NEW todo, FlushEach(c, bs, todo)
      PROVE  call'[c].stage # "put" \/ call'[c].attempt = 1
  BY <1>2 DEF FlushEach, FlushCall, NoCall
<1> QED
  BY <1>1, <1>2 DEF Return

(* The steps as uploads see them: of no call; of a process that does        *)
(* something else; an answer; a retry; the end of a process.                *)
QuietStep ==
    /\ UNCHANGED <<call, objects>>
    /\ \A p \in Partitions :
          owner'[p] = owner[p] \/ \A c \in {owner[p], owner'[p]} : c \in Consumers => Ready(c)
    /\ \A c \in Consumers : ~ Ready(c) => batchers'[c] = batchers[c]

OtherStep(c) ==
    /\ OthersKept(c)
    /\ call[c].stage # "put"
    /\ call'[c].stage # "put" \/ call'[c].attempt = 1
    /\ UNCHANGED <<owner, objects>>

LastStep(c) ==
    /\ OthersKept(c)
    /\ call'[c] = NoCall
    /\ owner' = [p \in Partitions |-> IF owner[p] = c THEN NoOwner ELSE owner[p]]
    /\ objects' = objects \/ PutFailed(c)

AnswerStep(c) == OthersKept(c) /\ owner' = owner /\ (PutOk(c) \/ PutRetried(c))

LEMMA UploadStep ==
    ASSUME TypeOK, [Next]_vars
    PROVE  QuietStep \/ \E c \in Consumers : OtherStep(c) \/ AnswerStep(c) \/ LastStep(c)
<1>1. /\ call \in [Consumers -> Calls] /\ batchers \in [Consumers -> [Partitions -> Batchers]]
      /\ owner \in [Partitions -> Consumers \union {NoOwner}] /\ NoOwner \notin Consumers
  BY LogAssumption DEF TypeOK, PipelineTypeOK
<1>2. CASE UNCHANGED vars \/ ClockStep
  BY <1>1, <1>2 DEF vars, pipelineVars, ClockStep, Elapse, NewDay, callerVars, QuietStep
<1>3. ASSUME NEW c \in Consumers, NEW ps \in SUBSET Partitions, Assign(c, ps)
      PROVE  QuietStep
  BY <1>1, <1>3 DEF Assign, Free, pipelineVars, QuietStep
<1>4. ASSUME NEW c \in Consumers, NEW ps \in SUBSET Partitions, TakeAway(c, ps)
      PROVE  QuietStep
  BY <1>1, <1>4 DEF TakeAway, Owned, Revoke, Release, QuietStep
<1>5. ASSUME NEW c \in Consumers, NEW p \in Partitions, NEW o \in Log[p], Deliver(c, p, o)
      PROVE  OtherStep(c)
  <2>1. CASE PushRecord(c, batchers[c], p, o)
    <3>1. OthersKept(c)
      BY <1>1, <2>1 DEF PushRecord, OthersKept
    <3> QED
      BY <1>1, <1>5, <2>1, <3>1, FirstAttempt DEF Deliver, Offer, Ready, OtherStep
  <2>2. CASE /\ call' = [call EXCEPT ![c] = FlushCall(p, batchers[c][p], {o}, {})]
             /\ UNCHANGED batchers
    BY <1>1, <1>5, <2>2 DEF Deliver, Offer, Ready, FlushCall, OthersKept, OtherStep
  <2> QED
    BY <1>5, <2>1, <2>2 DEF Deliver, Offer
<1>6. ASSUME NEW c \in Consumers, IdleCheck(c) \/ Shutdown(c)
      PROVE  OtherStep(c)
  <2>1. PICK todo : FlushEach(c, batchers[c], todo)
    BY <1>6 DEF IdleCheck, Tick, Shutdown, FlushAll
  <2>2. OthersKept(c)
    BY <1>1, <2>1 DEF FlushEach, OthersKept
  <2> QED
    BY <1>1, <1>6, <2>1, <2>2, FirstAttempt
       DEF IdleCheck, Tick, Shutdown, FlushAll, Ready, callerVars, OtherStep
<1>7. ASSUME NEW c \in Consumers, Answered(c)
      PROVE  OtherStep(c) \/ AnswerStep(c)
  <2>1. OthersKept(c)
    BY <1>1, <1>7 DEF Answered, PutOk, PutRetried, CommitOk, Return, PushRecord, FlushEach,
                      OthersKept
  <2>2. CASE CommitOk(c)
    BY <1>1, <1>7, <2>1, <2>2, FirstAttempt DEF Answered, CommitOk, callerVars, OtherStep
  <2> QED
    BY <1>7, <2>1, <2>2 DEF Answered, callerVars, AnswerStep
<1>8. ASSUME NEW c \in Consumers, Exit(c), Leave(c), objects' = objects \/ PutFailed(c)
      PROVE  LastStep(c)
  <2>1. OthersKept(c) /\ call'[c] = NoCall
    BY <1>1, <1>8 DEF Exit, OthersKept
  <2> QED
    BY <1>8, <2>1 DEF Leave, Release, Owned, LastStep
<1>9. ASSUME NEW c \in Consumers, Stopped(c) \/ Crash(c) \/ UploadError(c) \/ CommitError(c)
      PROVE  LastStep(c)
  BY <1>8, <1>9 DEF Stopped, Crash, UploadError, PutFailed, CommitError, CommitFailed
<1> QED
  BY <1>2, <1>3, <1>4, <1>5, <1>6, <1>7, <1>9 DEF Next

(* Attempts are counted from 1. *)
Counted == \A c \in Consumers : call[c].stage = "put" => call[c].attempt > 0

LEMMA CountedStep ==
    ASSUME TypeOK, Counted, [Next]_vars
    PROVE  Counted'
<1>1. call \in [Consumers -> Calls]
  BY DEF TypeOK, PipelineTypeOK
<1>2. CASE QuietStep
  BY <1>2 DEF QuietStep, Counted
<1>3. ASSUME NEW c \in Consumers, OtherStep(c) \/ LastStep(c)
      PROVE  Counted'
  BY <1>3 DEF OtherStep, LastStep, NoCall, OthersKept, Counted
<1>4. ASSUME NEW c \in Consumers, AnswerStep(c)
      PROVE  Counted'
  <2>1. CASE PutRetried(c)
    <3>1. call'[c].attempt = call[c].attempt + 1 /\ call[c].attempt \in Nat
      BY <1>1, <2>1, PipelineAssumption DEF PutRetried, Calls
    <3> QED
      BY <1>4, <3>1 DEF AnswerStep, OthersKept, Counted
  <2>2. CASE PutOk(c)
    <3>1. call'[c].stage # "put" \/ call'[c].attempt = 1
      BY <1>1, <2>2, FirstAttempt DEF PutOk, Calls
    <3> QED
      BY <1>4, <3>1 DEF AnswerStep, OthersKept, Counted
  <2> QED
    BY <1>4, <2>1, <2>2 DEF AnswerStep
<1> QED
  BY <1>2, <1>3, <1>4, UploadStep

(* A step without traces in the upload of name. *)
LEMMA UploadUnseen ==
    ASSUME NEW name \in Names, Under(name)' = Under(name),
           \/ ~ UploadsNow(name) /\ ~ UploadsNow(name)'
           \/ /\ owner'[name.partition] = owner[name.partition]
              /\ owner[name.partition] # NoOwner =>
                    /\ call'[owner[name.partition]] = call[owner[name.partition]]
                    /\ UploadsNow(name) =>
                          batchers'[owner[name.partition]] = batchers[owner[name.partition]]
    PROVE  UNCHANGED Put(name)!vars
<1>1. CASE ~ UploadsNow(name) /\ ~ UploadsNow(name)'
  BY <1>1 DEF Put!vars, Under
<1>2. CASE ~ (~ UploadsNow(name) /\ ~ UploadsNow(name)')
  <2>1. UploadsNow(name)' = UploadsNow(name)
    BY <1>2 DEF UploadsNow
  <2> QED
    BY <1>2, <2>1 DEF Put!vars, Under, UploadsNow
<1> QED
  BY <1>1, <1>2

(* Whatever process c goes on to upload, under a name that it did not        *)
(* upload before, is an upload of its own.                                  *)
LEMMA NextUpload ==
    ASSUME IInv, IInv', NEW c \in Consumers, OthersKept(c), owner' = owner,
           call'[c].stage # "put" \/ call'[c].attempt = 1,
           NEW name \in Names, Under(name)' = Under(name),
           ~ (UploadsNow(name) /\ owner[name.partition] = c)
    PROVE  [Put(name)!Next]_(Put(name)!vars)
<1> DEFINE p == name.partition
<1>1. p \in Partitions /\ owner[p] \in Consumers \union {NoOwner} /\ NoOwner \notin Consumers
  BY LogAssumption DEF Names, IInv, TypeOK
<1>2. CASE owner[p] # c
  BY <1>1, <1>2, UploadUnseen DEF OthersKept
<1>3. CASE owner[p] = c /\ ~ UploadsNow(name)'
  BY <1>3, UploadUnseen
<1>4. CASE owner[p] = c /\ UploadsNow(name)'
  <2>1. /\ call'[c].stage = "put" /\ call'[c].name = name /\ call'[c].attempt = 1
        /\ owner'[p] = c
    BY <1>4 DEF UploadsNow
  <2>2. batchers'[c][p].dirty
    BY <2>1 DEF IInv, CallInv, GoodCall, Ready, Current, Target
  <2>3. batchers'[c][p].records # << >>
    <3>1. Held(batchers[c][p])' \/ batchers'[c][p] = NoBatcher
      BY <1>1, <2>1 DEF IInv, BatchInv, GoodBatch
    <3> QED
      BY <2>2, <3>1, NoBatcherFacts DEF Held
  <2>4. ~ UploadsNow(name)
    BY <1>4
  <2> QED
    BY <1>4, <2>1, <2>3, <2>4 DEF Put!Next, Put!Begin, Under
<1> QED
  BY <1>2, <1>3, <1>4

(* After a successful upload a call never turns to the same name again.     *)
LEMMA OtherName ==
    ASSUME IInv, NEW c \in Consumers, PutOk(c)
    PROVE  call'[c].stage # "put" \/ (call'[c].attempt = 1 /\ call'[c].name # call[c].name)
<1> DEFINE bs == [batchers[c] EXCEPT ![Target(c)] = Flushed(@)]
<1>1. /\ call \in [Consumers -> Calls] /\ ~ Ready(c) /\ Target(c) \in Partitions
      /\ call[c].todo \subseteq Partitions
  BY OverwrittenTypes DEF IInv, TypeOK, PipelineTypeOK, PutOk, Ready
<1>2. CASE call' = [call EXCEPT ![c].stage = "commit"]
  BY <1>1, <1>2 DEF Calls
<1>3. ASSUME NEW o \in call[c].pending, PushRecord(c, bs, Target(c), o)
      PROVE  call'[c].stage # "put" \/ (call'[c].attempt = 1 /\ call'[c].name # call[c].name)
  <2>1. o \in Offsets /\ o \in Nat /\ Current(c).range.end < o
        /\ call[c].name.range = Current(c).range
    BY <1>1, <1>3, BusyFacts
  <2>2. bs[Target(c)] \in Batchers
    BY <1>1, BatcherTypes, TypeFacts DEF IInv, TypeOK, PipelineTypeOK
  <2>3. Pushed(bs[Target(c)], o).range = RangeOf(o) /\ ~ (RangeOf(o).end < o)
    BY <2>1, <2>2, PushedFacts, RangeFacts, RangesFacts DEF Contains
  <2>4. call'[c].stage = "put" => call'[c].name.range = RangeOf(o) /\ call'[c].attempt = 1
    BY <1>1, <1>3, <2>3 DEF PushRecord, FlushCall, NoCall, ObjectName
  <2> QED
    BY <2>1, <2>3, <2>4
<1>4. ASSUME FlushEach(c, bs, call[c].todo)
      PROVE  call'[c].stage # "put" \/ (call'[c].attempt = 1 /\ call'[c].name # call[c].name)
  <2>1. \A q \in call[c].todo : q # call[c].name.partition
    BY <1>1 DEF IInv, CallInv, GoodCall, Target
  <2>2. call'[c].stage = "put" =>
            call'[c].attempt = 1 /\ call'[c].name.partition \in call[c].todo
    BY <1>1, <1>4 DEF FlushEach, FlushCall, NoCall, ObjectName
  <2> QED
    BY <2>1, <2>2
<1> QED
  BY <1>2, <1>3, <1>4 DEF PutOk, Return

LEMMA AnswerEndsUpload ==
    ASSUME IInv, IInv', Counted, NEW c \in Consumers, PutOk(c), owner' = owner, OthersKept(c),
           NEW name \in Names
    PROVE  [Put(name)!Next]_(Put(name)!vars)
<1>1. /\ owner[Target(c)] = c /\ objects' = Overwritten(call[c].name, Current(c).records)
      /\ call[c].stage = "put" /\ call[c] \in Calls
  BY BusyFacts DEF PutOk, Ready, IInv, TypeOK, PipelineTypeOK
<1>2. CASE name # call[c].name
  <2>1. Under(name)' = Under(name)
    BY <1>1, <1>2, UnderOverwritten
  <2>2. ~ (UploadsNow(name) /\ owner[name.partition] = c)
    BY <1>2 DEF UploadsNow
  <2> QED
    BY <2>1, <2>2, OtherName, NextUpload
<1>3. CASE name = call[c].name
  <2>1. /\ owner[name.partition] = c /\ UploadsNow(name) /\ ~ UploadsNow(name)'
        /\ c # NoOwner
    BY <1>1, <1>3, OtherName, LogAssumption DEF UploadsNow, Target
  <2>2. Under(name)' = {batchers[c][name.partition].records}
    BY <1>1, <1>3, UnderOverwritten DEF Current, Target
  <2>3. call[c].attempt > 0
    BY <1>1 DEF Counted, Calls
  <2> QED
    BY <2>1, <2>2, <2>3 DEF Put!Next, Put!Succeed, Put!Over, Under
<1> QED
  BY <1>2, <1>3

LEMMA RetryIsRetry ==
    ASSUME IInv, Counted, NEW c \in Consumers, PutRetried(c), owner' = owner, OthersKept(c),
           NEW name \in Names
    PROVE  [Put(name)!Next]_(Put(name)!vars)
<1>1. /\ owner[Target(c)] = c /\ c # NoOwner /\ call \in [Consumers -> Calls]
      /\ call[c].stage = "put" /\ batchers' = batchers
      /\ call[c].attempt \in 1 .. MaxAttempts - 1
      /\ call' = [call EXCEPT ![c].attempt = @ + 1]
  BY BusyFacts, LogAssumption, PipelineAssumption
     DEF PutRetried, AttemptsLeft, Counted, Calls, Ready, IInv, TypeOK, PipelineTypeOK
<1>2. call'[c].stage = "put" /\ call'[c].name = call[c].name
      /\ call'[c].attempt = call[c].attempt + 1
  BY <1>1 DEF Calls
<1>3. CASE name # call[c].name
  <2>1. Under(name)' = Under(name)
    BY <1>3, UnderOverwritten DEF PutRetried, Under
  <2>2. CASE owner[name.partition] = c
    <3>1. ~ UploadsNow(name) /\ ~ UploadsNow(name)'
      BY <1>2, <1>3, <2>2 DEF UploadsNow
    <3> QED
      BY <2>1, <3>1, UploadUnseen
  <2>3. CASE owner[name.partition] # c
    <3>1. owner[name.partition] \in Consumers \union {NoOwner}
      BY DEF Names, IInv, TypeOK
    <3> QED
      BY <2>1, <2>3, <3>1, UploadUnseen DEF OthersKept
  <2> QED
    BY <2>2, <2>3
<1>4. CASE name = call[c].name
  <2>1. owner[name.partition] = c /\ UploadsNow(name) /\ UploadsNow(name)'
    BY <1>1, <1>2, <1>4 DEF UploadsNow, Target
  <2>2. \/ Under(name)' = Under(name)
        \/ Under(name)' = {batchers[c][name.partition].records}
    BY <1>1, <1>4, UnderOverwritten DEF PutRetried, Under, Current, Target
  <2> QED
    BY <1>1, <1>2, <2>1, <2>2 DEF Put!Next, Put!Retry, Put!MayStore, Under
<1> QED
  BY <1>3, <1>4

LEMMA LastIsFail ==
    ASSUME IInv, Counted, NEW c \in Consumers, LastStep(c), NEW name \in Names
    PROVE  [Put(name)!Next]_(Put(name)!vars)
<1> DEFINE p == name.partition
<1>1. /\ p \in Partitions /\ owner[p] \in Consumers \union {NoOwner} /\ NoOwner \notin Consumers
      /\ MaxAttempts \in Nat
  BY LogAssumption, PipelineAssumption DEF Names, IInv, TypeOK
<1>2. PutFailed(c) => /\ owner[Target(c)] = c
                      /\ objects' # objects =>
                            /\ ~ (call[c].attempt < MaxAttempts)
                            /\ objects' = Overwritten(call[c].name, Current(c).records)
  BY BusyFacts DEF PutFailed, Ready, AttemptsLeft
<1>3. CASE owner[p] = c /\ UploadsNow(name)
  <2>1. /\ call[c].stage = "put" /\ call[c].name = name /\ call[c].attempt > 0
        /\ owner'[p] = NoOwner /\ ~ UploadsNow(name)'
    BY <1>1, <1>3 DEF UploadsNow, Counted, LastStep
  <2>2. Put(name)!Over
    BY <1>3, <2>1 DEF Put!Over
  <2>3. CASE objects' = objects
    <3>1. Under(name)' = Under(name)
      BY <2>3 DEF Under
    <3> QED
      BY <2>2, <3>1 DEF Put!Next, Put!Fail, Put!MayStore, Under
  <2>4. CASE objects' # objects
    <3>1. ~ (call[c].attempt < MaxAttempts)
          /\ Under(name)' = {batchers[c][p].records}
      BY <1>2, <2>1, <2>4, UnderOverwritten DEF LastStep, Current, Target
    <3> QED
      BY <1>3, <2>2, <3>1 DEF Put!Next, Put!Fail, Put!MayStore, Under
  <2> QED
    BY <2>3, <2>4
<1>4. CASE ~ (owner[p] = c /\ UploadsNow(name))
  <2>1. Under(name)' = Under(name)
    <3>1. CASE objects' = objects
      BY <3>1 DEF Under
    <3>2. CASE objects' # objects
      <4>1. call[c].name # name
        BY <1>1, <1>2, <1>4, <3>2 DEF LastStep, PutFailed, UploadsNow, Target
      <4> QED
        BY <1>2, <3>2, <4>1, UnderOverwritten DEF LastStep
    <3> QED
      BY <3>1, <3>2
  <2>2. CASE owner[p] = c
    <3>1. ~ UploadsNow(name)'
      BY <1>1, <2>2 DEF LastStep, UploadsNow
    <3> QED
      BY <1>4, <2>1, <2>2, <3>1, UploadUnseen
  <2>3. CASE owner[p] # c
    <3>1. owner'[p] = owner[p]
      BY <1>1, <2>3 DEF LastStep
    <3> QED
      BY <1>1, <2>1, <2>3, <3>1, UploadUnseen DEF LastStep, OthersKept
  <2> QED
    BY <2>2, <2>3
<1> QED
  BY <1>3, <1>4

LEMMA QuietIsUnseen ==
    ASSUME TypeOK, TypeOK', QuietStep, NEW name \in Names
    PROVE  UNCHANGED Put(name)!vars
<1> DEFINE p == name.partition
<1>1. /\ p \in Partitions /\ NoOwner \notin Consumers
      /\ owner[p] \in Consumers \union {NoOwner} /\ owner'[p] \in Consumers \union {NoOwner}
  BY LogAssumption DEF Names, TypeOK
<1>2. Under(name)' = Under(name)
  BY DEF QuietStep, Under
<1>3. CASE owner'[p] = owner[p]
  <2>1. owner[p] # NoOwner => call'[owner[p]] = call[owner[p]]
    BY DEF QuietStep
  <2>2. owner[p] # NoOwner /\ UploadsNow(name) => batchers'[owner[p]] = batchers[owner[p]]
    BY <1>1 DEF QuietStep, Ready, UploadsNow
  <2> QED
    BY <1>2, <1>3, <2>1, <2>2, UploadUnseen
<1>4. CASE owner'[p] # owner[p]
  <2>1. /\ owner[p] \in Consumers => Ready(owner[p])
        /\ owner'[p] \in Consumers => Ready(owner'[p])
        /\ call' = call
    BY <1>1, <1>4 DEF QuietStep
  <2>2. ~ UploadsNow(name) /\ ~ UploadsNow(name)'
    BY <1>1, <2>1 DEF Ready, UploadsNow
  <2> QED
    BY <1>2, <2>2, UploadUnseen
<1> QED
  BY <1>3, <1>4

(* While one owner at a time has a partition, the uploads of a name behave   *)
(* as one process's would: one after the other, each with one content, also *)
(* over crashes, changes of the owner and lost answers.                     *)
THEOREM UploadsTakeTurnsAlways == Spec => UploadsTakeTurns
<1> DEFINE Turns == \A name \in InUse \union InUse' : [Put(name)!Next]_(Put(name)!vars)
<1>1. Init => Counted
  BY DEF Init, PipelineInit, NoCall, Counted
<1>2. IInv /\ Counted /\ [Next]_vars => Counted'
  BY CountedStep DEF IInv
<1>3. IInv /\ Counted /\ [Next]_vars => [Turns]_vars
  <2> SUFFICES ASSUME IInv, Counted, [Next]_vars, NEW name \in InUse \union InUse'
               PROVE  [Put(name)!Next]_(Put(name)!vars)
    OBVIOUS
  <2>1. IInv'
    BY InvStep
  <2>2. name \in Names
    BY <2>1 DEF InUse, IInv, TypeOK, PipelineTypeOK, Calls
  <2>3. ASSUME NEW c \in Consumers, OtherStep(c)
        PROVE  [Put(name)!Next]_(Put(name)!vars)
    <3>1. Under(name)' = Under(name)
      BY <2>3 DEF OtherStep, Under
    <3>2. ~ (UploadsNow(name) /\ owner[name.partition] = c)
      BY <2>3 DEF OtherStep, UploadsNow
    <3> QED
      BY <2>1, <2>2, <2>3, <3>1, <3>2, NextUpload DEF OtherStep
  <2>4. ASSUME NEW c \in Consumers, AnswerStep(c)
        PROVE  [Put(name)!Next]_(Put(name)!vars)
    BY <2>1, <2>2, <2>4, AnswerEndsUpload, RetryIsRetry DEF AnswerStep
  <2> QED
    BY <2>1, <2>2, <2>3, <2>4, QuietIsUnseen, LastIsFail, UploadStep DEF IInv
<1> QED
  BY <1>1, <1>2, <1>3, InvariantHolds, PTL DEF Spec, UploadsTakeTurns

-------------------------------------------------------------------------------
(* Objects and their names. *)

UniqueNames == \A a, b \in objects : a.name = b.name => a = b

LEMMA UniqueStep ==
    ASSUME UniqueNames, [Next]_vars
    PROVE  UniqueNames'
<1>1. ASSUME NEW c \in Consumers, PutStep(c)
      PROVE  UniqueNames'
  BY <1>1 DEF PutStep, Overwritten, UniqueNames
<1> QED
  BY <1>1, StepEffect DEF CommitStep, UniqueNames

(* batching.rs's claim that retries and reassignments converge on one object *)
(* is true of what is flushed within one UTC day: the date in the name is   *)
(* the only thing that multiplies the objects of a range.                   *)
THEOREM OneObjectPerRangeInADay ==
    ASSUME LastDay = 0
    PROVE  Spec => []OneObjectPerRange
<1>1. Init => UniqueNames
  BY DEF Init, PipelineInit, UniqueNames
<1>2. UniqueNames /\ [Next]_vars => UniqueNames'
  BY UniqueStep
<1>3. TypeOK /\ UniqueNames => OneObjectPerRange
  <2> SUFFICES ASSUME TypeOK, UniqueNames, NEW a \in objects, NEW b \in objects,
                      a.name.partition = b.name.partition, a.name.range = b.name.range
               PROVE  a = b
    BY DEF OneObjectPerRange
  <2>1. a.name \in Names /\ b.name \in Names
    BY DEF TypeOK, PipelineTypeOK
  <2>2. a.name.date = b.name.date
    BY <2>1 DEF Names, Days
  <2>3. a.name = b.name
    BY <2>1, <2>2 DEF Names
  <2> QED
    BY <2>3 DEF UniqueNames
<1> QED
  BY <1>1, <1>2, <1>3, TypeCorrect, PTL DEF Spec
===============================================================================
