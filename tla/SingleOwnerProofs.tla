--------------------------- MODULE SingleOwnerProofs ---------------------------
(***************************************************************************)
(* Proofs about SingleOwner, for every set of processes and partitions,    *)
(* every log with or without gaps, every range size, retry limit and clock. *)
(***************************************************************************)
EXTENDS SingleOwner, PipelineProofs

-------------------------------------------------------------------------------
(* Type correctness. *)

LEMMA TypeInit ==
    ASSUME Init
    PROVE  TypeOK
<1>1. 0 \in Offsets /\ 0 \in Days /\ 0 \in 0 .. MaxI64 + 1
  BY WordAssumption, PipelineAssumption DEF Offsets, Days
<1>2. PipelineTypeOK
  BY <1>1, BatcherTypes, CallTypes DEF Init, PipelineInit, PipelineTypeOK
<1> QED
  BY <1>1, <1>2 DEF Init, TypeOK

LEMMA TypeStep ==
    ASSUME TypeOK, [Next]_vars
    PROVE  TypeOK'
<1> USE DEF TypeOK
<1>0. \A o \in Offsets : o \in 0 .. MaxI64 + 1 /\ o + 1 \in 0 .. MaxI64 + 1
  BY WordAssumption DEF Offsets
<1>1. ASSUME NEW ps \in SUBSET Partitions, Release(ps)
      PROVE  /\ owner' \in [Partitions -> Consumers \union {NoOwner}]
             /\ position' \in [Partitions -> 0 .. MaxI64 + 1]
  BY <1>1, WordAssumption DEF Release
<1>2. ASSUME NEW c \in Consumers, Leave(c)
      PROVE  /\ owner' \in [Partitions -> Consumers \union {NoOwner}]
             /\ position' \in [Partitions -> 0 .. MaxI64 + 1]
             /\ closing' \subseteq Consumers
  BY <1>1, <1>2 DEF Leave, Owned
<1>3. ASSUME NEW c \in Consumers, NEW ps \in SUBSET Partitions, Assign(c, ps)
      PROVE  TypeOK'
  BY <1>0, <1>3 DEF Assign, PipelineTypeOK, pipelineVars
<1>4. ASSUME NEW c \in Consumers, NEW ps \in SUBSET Partitions, TakeAway(c, ps)
      PROVE  TypeOK'
  BY <1>1, <1>4, PipelineTypes DEF TakeAway
<1>5. ASSUME NEW c \in Consumers, NEW p \in Partitions, NEW o \in Log[p], Deliver(c, p, o)
      PROVE  TypeOK'
  <2>1. o \in Offsets
    BY LogAssumption
  <2> QED
    BY <1>0, <1>5, <2>1, PipelineTypes DEF Deliver
<1>6. ASSUME NEW c \in Consumers, IdleCheck(c)
      PROVE  TypeOK'
  BY <1>6, PipelineTypes DEF IdleCheck, callerVars
<1>7. ASSUME NEW c \in Consumers, Shutdown(c)
      PROVE  TypeOK'
  BY <1>7, PipelineTypes DEF Shutdown
<1>8. ASSUME NEW c \in Consumers, Stopped(c) \/ Crash(c)
      PROVE  TypeOK'
  BY <1>2, <1>8, ExitTypes DEF Stopped, Crash, PipelineTypeOK
<1>9. ASSUME NEW c \in Consumers, Answered(c)
      PROVE  TypeOK'
  BY <1>9, PipelineTypes DEF Answered, callerVars
<1>10. ASSUME NEW c \in Consumers, UploadError(c) \/ CommitError(c)
       PROVE  TypeOK'
  BY <1>2, <1>10, PipelineTypes DEF UploadError, CommitError
<1>11. ASSUME ClockStep
       PROVE  TypeOK'
  <2>1. CASE NewDay
    BY <1>11, <2>1, PipelineAssumption DEF NewDay, PipelineTypeOK, Days, ClockStep, callerVars
  <2>2. CASE \E c \in Consumers : Elapse(c)
    BY <1>11, <2>2, PipelineTypes DEF ClockStep, callerVars
  <2> QED
    BY <1>11, <2>1, <2>2 DEF ClockStep
<1>12. ASSUME UNCHANGED vars
       PROVE  TypeOK'
  BY <1>12 DEF vars, pipelineVars, PipelineTypeOK
<1> QED
  BY <1>3, <1>4, <1>5, <1>6, <1>7, <1>8, <1>9, <1>10, <1>11, <1>12 DEF Next

(* Every state of the system has the types of TypeOK: in particular an       *)
(* upload is attempted at most MaxAttempts times, a commit fits i64 and an   *)
(* object is named by a range that BatchRange::containing can return.        *)
THEOREM TypeCorrect == Spec => []TypeOK
<1>1. Init => TypeOK
  BY TypeInit
<1>2. TypeOK /\ [Next]_vars => TypeOK'
  BY TypeStep
<1> QED
  BY <1>1, <1>2, PTL DEF Spec
-------------------------------------------------------------------------------
(* Facts about one buffer. *)

LEMMA FreshFacts ==
    /\ Fresh(0)
    /\ \A r \in Ranges : Fresh(r.end + 1)
<1>1. Fresh(0)
  BY RangeFacts, OffsetFacts DEF Fresh, BatchRanges, U64
<1>2. ASSUME NEW r \in Ranges, NEW o \in Offsets, o >= r.end + 1
      PROVE  RangeOf(o).start >= r.end + 1
  <2>1. r.end \in Nat /\ o \in Nat /\ r.end < o
    BY <1>2, RangesFacts, OffsetFacts
  <2>2. r.end < RangeOf(o).start
    BY <2>1, RangesFacts
  <2>3. RangeOf(o).start \in Nat
    BY RangeFacts DEF BatchRanges, U64
  <2> QED
    BY <2>1, <2>2, <2>3
<1> QED
  BY <1>1, <1>2 DEF Fresh

(* offer without a boundary flush: the buffer stays good. *)
LEMMA GoodPush ==
    ASSUME NEW p \in Partitions, NEW b \in Batchers, NEW n \in Nat, NEW acked \in Nat,
           NEW o \in Log[p], o >= n, \A u \in Log[p] : u >= n => o <= u,
           acked <= n, GoodBatch(b, p, n, {}, acked)
    PROVE  GoodBatch(Pushed(b, o), p, o + 1, {}, acked)
<1> DEFINE r == RangeOf(o)
           d == Pushed(b, o)
<1>0. o \in Offsets /\ o \in Nat /\ Log[p] \subseteq Offsets /\ Log[p] \subseteq Nat
  BY LogAssumption, OffsetFacts
<1>1. r \in Ranges /\ r.start \in Nat /\ r.end \in Nat /\ r.start <= o /\ o <= r.end
  BY <1>0, RangeFacts, RangesFacts DEF Contains
<1>2. /\ d.range = r /\ Held(d) /\ d.records[Len(d.records)] = o
      /\ b.range = r => Rows(d) = Rows(b) \union {o}
      /\ b.range # r => Rows(d) = {o}
  BY <1>0, PushedFacts
<1>3. b.range \in Ranges /\ Rows(b) \subseteq Nat /\ (~ Held(b) => Rows(b) = {})
  BY BatcherFacts, OffsetFacts
<1> SUFFICES GoodBatch(d, p, o + 1, {}, acked)
  OBVIOUS
<1> HIDE DEF r, d
<1>4. CASE ~ Held(b)
  <2>1. Fresh(n) /\ r.start >= n
    BY <1>0, <1>4 DEF GoodBatch, Fresh, r
  <2>2. Rows(d) = {o}
    BY <1>2, <1>3, <1>4
  <2> QED
    BY <1>0, <1>1, <1>2, <2>1, <2>2 DEF GoodBatch, Contains
<1>5. CASE Held(b) /\ b.range = r
  BY <1>0, <1>1, <1>2, <1>3, <1>5 DEF GoodBatch, Contains
<1>6. CASE Held(b) /\ b.range # r
  <2>1. PICK x \in Rows(b) : x \in Offsets /\ Contains(b.range, x) /\ x < n
    BY <1>6, BatcherFacts DEF GoodBatch
  <2>2. ~ Contains(b.range, o)
    BY <1>0, <1>3, <1>6, RangesFacts DEF r
  <2>3. b.range.start \in Nat /\ b.range.end \in Nat /\ x \in Nat
    BY <1>3, <2>1, RangesFacts
  <2>4. b.range.end < o
    BY <1>0, <2>1, <2>2, <2>3 DEF Contains
  <2>5. b.range.end < r.start
    BY <1>0, <1>3, <2>4, RangesFacts DEF r
  <2>6. ASSUME NEW u \in Log[p], r.start <= u, u < o + 1
        PROVE  u = o
    <3>1. u \in Nat /\ b.range.start <= u /\ b.range.end < u
      BY <1>0, <1>1, <2>1, <2>3, <2>5, <2>6 DEF Contains
    <3>2. ~ (u < n)
      BY <1>6, <3>1, <2>3 DEF GoodBatch, Contains
    <3> QED
      BY <1>0, <2>6, <3>1, <3>2
  <2>7. acked <= r.start
    BY <1>1, <1>6, <2>1, <2>3, <2>5 DEF GoodBatch, Contains
  <2>8. Rows(d) = {o}
    BY <1>2, <1>6
  <2> QED
    BY <1>0, <1>1, <1>2, <2>6, <2>7, <2>8 DEF GoodBatch, Contains
<1> QED
  BY <1>4, <1>5, <1>6

(* offer with a boundary flush: the record lies past the buffered range and  *)
(* waits.                                                                    *)
LEMMA GoodWait ==
    ASSUME NEW p \in Partitions, NEW b \in Batchers, NEW n \in Nat, NEW acked \in Nat,
           NEW o \in Log[p], o >= n, \A u \in Log[p] : u >= n => o <= u,
           Held(b), b.range # RangeOf(o), GoodBatch(b, p, n, {}, acked)
    PROVE  GoodBatch(b, p, o + 1, {o}, acked) /\ b.range.end < o
<1>0. o \in Offsets /\ o \in Nat /\ Log[p] \subseteq Offsets /\ Log[p] \subseteq Nat
  BY LogAssumption, OffsetFacts
<1>1. PICK x \in Rows(b) : x \in Offsets /\ x \in Nat /\ Contains(b.range, x) /\ x < n
  BY BatcherFacts, OffsetFacts DEF GoodBatch
<1>2. b.range.start \in Nat /\ b.range.end \in Nat /\ ~ Contains(b.range, o)
  BY <1>0, BatcherFacts, RangesFacts
<1>3. b.range.end < o
  BY <1>0, <1>1, <1>2 DEF Contains
<1>4. Rows(b) \subseteq Nat
  BY BatcherFacts, OffsetFacts
<1> QED
  BY <1>0, <1>3, <1>4 DEF GoodBatch

(* The waiting record is pushed once its predecessor's range is flushed: in  *)
(* part (then the buffer is replaced) or in full (then it is gone).          *)
LEMMA GoodPushWaiting ==
    ASSUME NEW p \in Partitions, NEW b \in Batchers, NEW acked \in Nat, NEW o \in Offsets,
           Held(b), b.range.end < o, GoodBatch(b, p, o + 1, {o}, acked)
    PROVE  /\ GoodBatch(Pushed(Flushed(b), o), p, o + 1, {}, acked)
           /\ GoodBatch(Pushed(NoBatcher, o), p, o + 1, {}, b.range.end + 1)
           /\ Rows(Pushed(Flushed(b), o)) = {o}
           /\ Rows(Pushed(NoBatcher, o)) = {o}
<1> DEFINE r == RangeOf(o)
<1>0. o \in Nat /\ Log[p] \subseteq Nat
  BY LogAssumption, OffsetFacts
<1>1. r \in Ranges /\ r.start \in Nat /\ r.end \in Nat /\ r.start <= o /\ o <= r.end
  BY RangeFacts, RangesFacts DEF Contains
<1>2. b.range \in Ranges /\ b.range.start \in Nat /\ b.range.end \in Nat
  BY BatcherFacts, RangesFacts
<1>3. b.range.end < r.start
  BY <1>2, RangesFacts
<1>4. PICK x \in Rows(b) : x \in Nat /\ Contains(b.range, x)
  BY BatcherFacts, OffsetFacts DEF GoodBatch
<1>5. b.range.start <= b.range.end
  BY <1>2, <1>4 DEF Contains
<1> HIDE DEF r
<1>6. ASSUME NEW u \in Log[p], r.start <= u, u < o + 1
      PROVE  u = o
  <2>1. u \in Nat /\ b.range.start <= u /\ ~ Contains(b.range, u)
    BY <1>0, <1>1, <1>2, <1>3, <1>5, <1>6 DEF Contains
  <2> QED
    BY <1>6, <2>1 DEF GoodBatch
<1>7. acked <= r.start /\ b.range.end + 1 <= r.start
  BY <1>1, <1>2, <1>3, <1>5 DEF GoodBatch
<1>8. b.range # r
  BY <1>1, <1>2, <1>3, <1>5
<1>9. /\ Pushed(Flushed(b), o) = Pushed(b, o)
      /\ Pushed(b, o).range = r /\ Held(Pushed(b, o))
      /\ Pushed(b, o).records[Len(Pushed(b, o).records)] = o
      /\ Rows(Pushed(b, o)) = {o}
  <2>1. Rows(Pushed(b, o)) = {o}
    BY <1>8, PushedFacts DEF r
  <2>2. /\ Pushed(b, o).range = r /\ Held(Pushed(b, o))
        /\ Pushed(b, o).records[Len(Pushed(b, o).records)] = o
    BY PushedFacts DEF r
  <2> QED
    BY <2>1, <2>2, FlushedFacts
<1>10. /\ Pushed(NoBatcher, o).range = r /\ Held(Pushed(NoBatcher, o))
       /\ Pushed(NoBatcher, o).records[Len(Pushed(NoBatcher, o).records)] = o
       /\ Rows(Pushed(NoBatcher, o)) = {o}
  <2>1. NoBatcher \in Batchers /\ Rows(NoBatcher) \union {o} = {o}
    BY NoBatcherFacts
  <2>2. Rows(Pushed(NoBatcher, o)) = {o}
    BY <2>1, PushedFacts
  <2>3. /\ Pushed(NoBatcher, o).range = r /\ Held(Pushed(NoBatcher, o))
        /\ Pushed(NoBatcher, o).records[Len(Pushed(NoBatcher, o).records)] = o
    BY <2>1, PushedFacts DEF r
  <2> QED
    BY <2>2, <2>3
<1>11. GoodBatch(Pushed(Flushed(b), o), p, o + 1, {}, acked)
  BY <1>0, <1>1, <1>6, <1>7, <1>9 DEF GoodBatch, Contains
<1>12. GoodBatch(Pushed(NoBatcher, o), p, o + 1, {}, b.range.end + 1)
  BY <1>0, <1>1, <1>6, <1>7, <1>10 DEF GoodBatch, Contains
<1> QED
  BY <1>9, <1>10, <1>11, <1>12

(* A full buffer has been read up to the end of its range. *)
LEMMA FullAtItsEnd ==
    ASSUME NEW p \in Partitions, NEW b \in Batchers, NEW n \in Nat, NEW acked \in Nat,
           NEW pend, IsFull(b), GoodBatch(b, p, n, pend, acked)
    PROVE  /\ b.range.end \in Offsets
           /\ CommitOffset(b.range) = b.range.end + 1
           /\ b.range.end + 1 <= n
           /\ pend = {} => n = b.range.end + 1
<1> DEFINE x == b.records[Len(b.records)]
<1>1. x \in Rows(b) /\ x \in Offsets /\ x \in Nat /\ x >= b.range.end
  BY BatcherFacts, OffsetFacts DEF IsFull, IsComplete
<1>2. Held(b) /\ x <= b.range.end /\ x < n
  BY <1>1 DEF IsFull, GoodBatch, Contains
<1>3. b.range \in BatchRanges /\ b.range.end \in Nat
  BY BatcherFacts, RangesFacts
<1>4. x = b.range.end
  BY <1>1, <1>2, <1>3
<1>5. b.range.end \in Offsets
  BY <1>1, <1>4
<1>6. pend = {} => n = x + 1
  BY <1>2 DEF GoodBatch
<1> QED
  BY <1>2, <1>3, <1>4, <1>5, <1>6, CommitOffsetIsNext
-------------------------------------------------------------------------------
(* What the invariant says about one process and one partition. *)

LEMMA TypeFacts ==
    ASSUME TypeOK
    PROVE  /\ \A c \in Consumers, p \in Partitions : batchers[c][p] \in Batchers
           /\ \A p \in Partitions : committed[p] \in Nat /\ position[p] \in Nat
           /\ \A p \in Partitions : Log[p] \subseteq Offsets /\ Log[p] \subseteq Nat
           /\ \A c \in Consumers : Target(c) \in Partitions /\ Current(c) \in Batchers
           /\ NoOwner \notin Consumers
<1>1. \A c \in Consumers, p \in Partitions : batchers[c][p] \in Batchers
  BY DEF TypeOK, PipelineTypeOK
<1>2. \A p \in Partitions : committed[p] \in Nat /\ position[p] \in Nat
  <2>1. \A p \in Partitions : committed[p] \in Offsets /\ position[p] \in 0 .. MaxI64 + 1
    BY DEF TypeOK, PipelineTypeOK
  <2>2. \A n \in 0 .. MaxI64 + 1 : n \in Nat
    BY WordAssumption
  <2> QED
    BY <2>1, <2>2, OffsetFacts
<1>3. \A p \in Partitions : Log[p] \subseteq Offsets /\ Log[p] \subseteq Nat
  BY LogAssumption, OffsetFacts
<1>4. \A c \in Consumers : Target(c) \in Partitions /\ Current(c) \in Batchers
  BY OverwrittenTypes DEF TypeOK
<1> QED
  BY <1>1, <1>2, <1>3, <1>4, LogAssumption

(* A dirty buffer belongs to the owner of its partition and is not empty. *)
LEMMA DirtyFacts ==
    ASSUME IInv, NEW c \in Consumers, NEW p \in Partitions, batchers[c][p].dirty
    PROVE  owner[p] = c /\ Held(batchers[c][p])
<1>1. batchers[c][p] # NoBatcher
  BY NoBatcherFacts
<1> QED
  BY <1>1 DEF IInv, BatchInv, GoodBatch

(* Between two calls no record waits. *)
LEMMA ReadyFacts ==
    ASSUME IInv, NEW c \in Consumers, Ready(c)
    PROVE  /\ call[c] = NoCall
           /\ \A p \in Partitions : Pending(c, p) = {}
  BY DEF IInv, CallInv, GoodCall, NoCall, Pending

(* In a call, the waiting record is the last one read; no other partition    *)
(* has one.                                                                  *)
LEMMA BusyFacts ==
    ASSUME IInv, NEW c \in Consumers, ~ Ready(c)
    PROVE  /\ owner[Target(c)] = c
           /\ Current(c).dirty /\ Held(Current(c))
           /\ Current(c) = batchers[c][Target(c)]
           /\ call[c].name.range = Current(c).range
           /\ call[c].name.partition = Target(c)
           /\ Pending(c, Target(c)) = call[c].pending
           /\ \A p \in Partitions : p # Target(c) => Pending(c, p) = {}
           /\ \A o \in call[c].pending :
                 /\ call[c].pending = {o}
                 /\ o \in Offsets /\ o \in Nat
                 /\ Current(c).range.end < o
                 /\ position[Target(c)] = o + 1
           /\ GoodBatch(Current(c), Target(c), position[Target(c)],
                        call[c].pending, committed[Target(c)])
<1> DEFINE p == Target(c)
<1>1. /\ p \in Partitions
      /\ owner[p] = c /\ batchers[c][p].dirty
      /\ call[c].name.range = Current(c).range
      /\ \A o \in call[c].pending : Current(c).range.end < o /\ position[p] = o + 1
  BY TypeFacts DEF IInv, CallInv, GoodCall, Current
<1>2. call[c].pending \subseteq Offsets /\ call[c].pending \subseteq Nat
  BY OverwrittenTypes, OffsetFacts DEF IInv, TypeOK
<1>3. \A o, u \in call[c].pending : o = u
  BY <1>1, <1>2
<1>4. Pending(c, p) = call[c].pending
  BY DEF Pending
<1>5. GoodBatch(Current(c), p, position[p], call[c].pending, committed[p])
  BY <1>1, <1>4 DEF IInv, BatchInv, Current
<1> QED
  BY <1>1, <1>2, <1>3, <1>4, <1>5, DirtyFacts DEF Current, Pending, Target

-------------------------------------------------------------------------------
(* What a step does to the bucket. *)

(* All that is acknowledged, read by an owner or in a buffer stays stored. *)
StoredStays ==
    /\ \A p \in Partitions : \A o \in Log[p] :
          (Stored(p, o) /\ (o < committed[p] \/ (owner[p] # NoOwner /\ o < position[p])))
             => Stored(p, o)'
    /\ \A c \in Consumers, p \in Partitions : \A o \in Rows(batchers[c][p]) :
          Stored(p, o) => Stored(p, o)'

LEMMA BucketUnchanged ==
    ASSUME IInv, UNCHANGED objects
    PROVE  StoredStays /\ ObjectsHoldTheirRange' /\ \A p, o : Stored(p, o)' = Stored(p, o)
  BY DEF StoredStays, Stored, IInv, ObjectsHoldTheirRange

(* A PUT replaces one object by the rows of the buffer.  What it takes away  *)
(* has been neither acknowledged nor read by the owner of the partition.     *)
LEMMA BucketOverwritten ==
    ASSUME IInv, NEW c \in Consumers, ~ Ready(c), NEW p \in Partitions, p = Target(c),
           objects' = Overwritten(call[c].name, Current(c).records)
    PROVE  /\ StoredStays
           /\ \A o \in Rows(Current(c)) : Stored(p, o)'
           /\ ObjectsHoldTheirRange'
<1> DEFINE b == Current(c)
           new == [name |-> call[c].name, records |-> b.records]
<1>1. /\ new \in objects'
      /\ new.name = call[c].name /\ new.records = b.records
      /\ \A obj \in objects : obj.name # call[c].name => obj \in objects'
      /\ \A obj \in objects' : obj \in objects \/ obj = new
  BY DEF Overwritten
<1>2. \A o \in Rows(b) : Stored(p, o)'
  BY <1>1 DEF Stored, Rows, Target
<1>3. ASSUME NEW q, NEW o, Stored(q, o),
             (q = p /\ Contains(b.range, o)) => o \in Rows(b)
      PROVE  Stored(q, o)'
  <2>1. PICK obj \in objects : obj.name.partition = q /\ o \in Range(obj.records)
    BY <1>3 DEF Stored
  <2>2. CASE obj.name # call[c].name
    BY <1>1, <2>1, <2>2 DEF Stored
  <2>3. CASE obj.name = call[c].name
    <3>1. q = p /\ Contains(b.range, o)
      BY <2>1, <2>3, BusyFacts DEF IInv, ObjectsHoldTheirRange
    <3> QED
      BY <1>2, <1>3, <3>1
  <2> QED
    BY <2>2, <2>3
<1>4. /\ p \in Partitions /\ b \in Batchers /\ NoOwner \notin Consumers
      /\ committed[p] \in Nat /\ position[p] \in Nat /\ Log[p] \subseteq Nat
      /\ b.range.start \in Nat /\ b.range.end \in Nat
  BY TypeFacts, BatcherFacts, RangesFacts DEF IInv
<1>5. /\ owner[p] = c /\ Held(b)
      /\ GoodBatch(b, p, position[p], call[c].pending, committed[p])
      /\ \A o \in call[c].pending : o \in Nat /\ b.range.end < o
  BY BusyFacts
<1>6. ASSUME NEW o \in Log[p], Contains(b.range, o),
             o < committed[p] \/ o < position[p]
      PROVE  o \in Rows(b)
  <2>1. b.range.start <= o /\ o <= b.range.end /\ o \in Nat
    BY <1>4, <1>6 DEF Contains
  <2>2. committed[p] <= b.range.start
    BY <1>5 DEF GoodBatch
  <2>3. o < position[p]
    BY <1>4, <1>6, <2>1, <2>2
  <2>4. o \in Rows(b) \union call[c].pending
    BY <1>5, <2>1, <2>3 DEF GoodBatch
  <2> QED
    BY <1>4, <1>5, <2>1, <2>4
<1>7. ASSUME NEW q \in Partitions, NEW o \in Log[q], Stored(q, o),
             o < committed[q] \/ (owner[q] # NoOwner /\ o < position[q])
      PROVE  Stored(q, o)'
  BY <1>3, <1>6, <1>7
<1>8. ASSUME NEW d \in Consumers, NEW q \in Partitions, NEW o \in Rows(batchers[d][q]),
             Stored(q, o)
      PROVE  Stored(q, o)'
  <2>1. CASE q # p
    BY <1>3, <1>8, <2>1
  <2>2. CASE q = p /\ d = c
    BY <1>2, <1>8, <2>2 DEF Current
  <2>3. CASE q = p /\ d # c
    BY <1>5, <1>8, <2>3, NoBatcherFacts DEF IInv, BatchInv
  <2> QED
    BY <2>1, <2>2, <2>3
<1>9. \A o \in Rows(b) : Contains(b.range, o)
  BY <1>5 DEF GoodBatch
<1>10. ObjectsHoldTheirRange'
  BY <1>1, <1>9, BusyFacts DEF IInv, ObjectsHoldTheirRange, Rows
<1> QED
  BY <1>2, <1>7, <1>8, <1>10 DEF StoredStays
-------------------------------------------------------------------------------
(* The frame of a step.                                                     *)

LEMMA InvariantKept ==
    ASSUME IInv, TypeOK',
           UNCHANGED <<batchers, call, objects, committed, owner, position>>
    PROVE  IInv'
<1>1. \A p, o : Stored(p, o)' = Stored(p, o)
  BY DEF Stored
<1>2. \A c, p : Pending(c, p)' = Pending(c, p)
  BY DEF Pending, Target
<1>3. AckedIsStored' /\ ReadIsHeldOrStored'
  BY <1>1, <1>2 DEF IInv, AckedIsStored, ReadIsHeldOrStored, InFlight
<1>4. BatchInv' /\ PositionInv'
  BY <1>1, <1>2 DEF IInv, BatchInv, PositionInv
<1>5. CallInv'
  BY <1>1 DEF IInv, CallInv, GoodCall, Ready, Current, Target
<1>6. ObjectsHoldTheirRange'
  BY DEF IInv, ObjectsHoldTheirRange
<1> QED
  BY <1>3, <1>4, <1>5, <1>6 DEF IInv

(* A call is not disturbed by a step of another process that leaves the      *)
(* partition it works on alone.                                              *)
LEMMA OtherCallKept ==
    ASSUME IInv, NEW d \in Consumers,
           batchers'[d] = batchers[d], call'[d] = call[d], StoredStays,
           owner[Target(d)] = d =>
               \A q \in Partitions : q = Target(d) =>
                   owner'[q] = owner[q] /\ position'[q] = position[q]
    PROVE  GoodCall(d)'
<1>1. CASE Ready(d)
  BY <1>1, ReadyFacts DEF GoodCall, Ready, NoCall
<1>2. CASE ~ Ready(d)
  <2>1. PICK q \in Partitions : q = Target(d)
    BY TypeFacts DEF IInv
  <2>2. owner[q] = d /\ owner'[q] = d /\ position'[q] = position[q]
    BY <1>2, <2>1, BusyFacts
  <2>3. Target(d)' = q /\ Current(d)' = Current(d) /\ Ready(d)' = Ready(d)
    BY <2>1 DEF Target, Current, Ready
  <2>4. Rows(Current(d)) = Rows(batchers[d][q])
    BY <2>1 DEF Current
  <2>5. \A o \in Rows(Current(d)) : Stored(q, o) => Stored(q, o)'
    BY <2>4 DEF StoredStays
  <2>6. GoodCall(d)
    BY DEF IInv, CallInv
  <2>7. call[d].stage = "commit" =>
           IsFull(Current(d)) /\ \A o \in Rows(Current(d)) : Stored(q, o)
    BY <2>1, <2>6 DEF GoodCall
  <2>8. call'[d].stage = "commit" =>
           (IsFull(Current(d)) /\ \A o \in Rows(Current(d)) : Stored(Target(d), o))'
    BY <2>3, <2>5, <2>7 DEF Stored
  <2>9. /\ Current(d).dirty
        /\ call[d].name.range = Current(d).range
        /\ \A o \in call[d].pending : Current(d).range.end < o /\ position[q] = o + 1
        /\ \A r \in call[d].todo : r # q /\ batchers[d][r].dirty
    BY <1>2, <2>1, <2>6 DEF GoodCall
  <2> QED
    BY <1>2, <2>2, <2>3, <2>8, <2>9 DEF GoodCall
<1> QED
  BY <1>1, <1>2

(* A step of process c on a partition p that it owns keeps the invariant if  *)
(* what is stored stays stored and p and the call of c are as they should    *)
(* be; nothing else is disturbed.                                            *)
LEMMA HandlerStep ==
    ASSUME IInv, TypeOK',
           NEW c \in Consumers, NEW p \in Partitions, owner[p] = c, UNCHANGED owner,
           \A d \in Consumers : d # c => batchers'[d] = batchers[d] /\ call'[d] = call[d],
           \A q \in Partitions : q # p =>
               /\ batchers'[c][q] = batchers[c][q]
               /\ position'[q] = position[q] /\ committed'[q] = committed[q]
               /\ Pending(c, q) = {} /\ Pending(c, q)' = {},
           StoredStays, ObjectsHoldTheirRange', GoodCall(c)',
           Fresh(committed'[p]), committed'[p] <= position'[p],
           \A o \in Log[p] : o < committed'[p] => Stored(p, o)',
           \A o \in Log[p] : o < position'[p] => Stored(p, o)' \/ o \in InFlight(c, p)',
           GoodBatch(batchers'[c][p], p, position'[p], Pending(c, p)', committed'[p]),
           ~ batchers'[c][p].dirty => \A o \in Rows(batchers'[c][p]) : Stored(p, o)'
    PROVE  IInv'
<1>1. \A d \in Consumers, q \in Partitions : d # c => Pending(d, q)' = Pending(d, q)
  BY DEF Pending, Target
<1>2. c # NoOwner
  BY LogAssumption
<1>3. AckedIsStored'
  <2> SUFFICES ASSUME NEW q \in Partitions, NEW o \in Log[q], o < committed'[q]
               PROVE  Stored(q, o)'
    BY DEF AckedIsStored
  <2>1. CASE q = p
    BY <2>1
  <2>2. CASE q # p
    BY <2>2 DEF IInv, AckedIsStored, StoredStays
  <2> QED
    BY <2>1, <2>2
<1>4. ReadIsHeldOrStored'
  <2> SUFFICES ASSUME NEW q \in Partitions, owner'[q] # NoOwner,
                      NEW o \in Log[q], o < position'[q]
               PROVE  Stored(q, o)' \/ o \in (InFlight(owner[q], q))'
    BY DEF ReadIsHeldOrStored
  <2>1. CASE q = p
    BY <2>1 DEF InFlight
  <2>2. CASE q # p
    <3>1. Stored(q, o) \/ o \in InFlight(owner[q], q)
      BY <2>2 DEF IInv, ReadIsHeldOrStored
    <3>2. owner[q] \in Consumers
      BY DEF IInv, TypeOK
    <3>3. Stored(q, o) => Stored(q, o)'
      BY <2>2 DEF StoredStays
    <3>4. owner'[q] = owner[q]
      OBVIOUS
    <3>5. PICK d \in Consumers : d = owner[q]
      BY <3>2
    <3>6. InFlight(d, q)' = InFlight(d, q)
      BY <1>1, <2>2 DEF InFlight
    <3> QED
      BY <3>1, <3>3, <3>4, <3>5, <3>6 DEF InFlight, Pending
  <2> QED
    BY <2>1, <2>2
<1>5. BatchInv'
  <2> SUFFICES ASSUME NEW d \in Consumers, NEW q \in Partitions
               PROVE  /\ owner'[q] = d =>
                            GoodBatch(batchers'[d][q], q, position'[q], Pending(d, q)',
                                      committed'[q])
                      /\ owner'[q] # d => batchers'[d][q] = NoBatcher
                      /\ ~ batchers'[d][q].dirty =>
                            \A o \in Rows(batchers'[d][q]) : Stored(q, o)'
    BY DEF BatchInv, GoodBatch, Held, Rows, Fresh
  <2>1. CASE q = p /\ d = c
    BY <2>1
  <2>2. CASE q # p
    <3>1. /\ batchers'[d][q] = batchers[d][q] /\ Pending(d, q)' = Pending(d, q)
          /\ position'[q] = position[q] /\ committed'[q] = committed[q]
      BY <1>1, <2>2
    <3> QED
      BY <3>1 DEF IInv, BatchInv, StoredStays
  <2>3. CASE q = p /\ d # c
    BY <2>3, NoBatcherFacts DEF IInv, BatchInv
  <2> QED
    BY <2>1, <2>2, <2>3
<1>6. PositionInv'
  <2> SUFFICES ASSUME NEW q \in Partitions
               PROVE  /\ Fresh(committed'[q])
                      /\ owner'[q] # NoOwner => committed'[q] <= position'[q]
    BY DEF PositionInv, Fresh
  <2> QED
    BY DEF IInv, PositionInv
<1>7. CallInv'
  <2> SUFFICES ASSUME NEW d \in Consumers, d # c
               PROVE  GoodCall(d)'
    BY DEF CallInv
  <2>1. \A q \in Partitions : (q = Target(d) /\ owner[q] = d) =>
            q # p /\ owner'[q] = owner[q] /\ position'[q] = position[q]
    OBVIOUS
  <2> QED
    BY <2>1, OtherCallKept
<1> QED
  BY <1>3, <1>4, <1>5, <1>6, <1>7 DEF IInv

(* Process c gives up the partitions ps, with all it holds of them, between  *)
(* two calls or with all its partitions.                                     *)
LEMMA DropStep ==
    ASSUME IInv, TypeOK', NEW c \in Consumers, NEW ps \in SUBSET Partitions,
           ps \subseteq Owned(c), Ready(c) \/ ps = Owned(c), Release(ps),
           call'[c] = NoCall,
           \A d \in Consumers : d # c => batchers'[d] = batchers[d] /\ call'[d] = call[d],
           \A q \in Partitions : batchers'[c][q] = IF q \in ps THEN NoBatcher ELSE batchers[c][q],
           StoredStays, ObjectsHoldTheirRange',
           \A q \in Partitions : committed'[q] # committed[q] =>
               q \in ps /\ Fresh(committed'[q]) /\ \A o \in Log[q] : o < committed'[q] => Stored(q, o)'
    PROVE  IInv'
<1>1. /\ \A q \in ps : owner[q] = c /\ owner'[q] = NoOwner
      /\ \A q \in Partitions \ ps : owner'[q] = owner[q] /\ position'[q] = position[q]
                                    /\ committed'[q] = committed[q]
      /\ NoOwner \notin Consumers
  BY LogAssumption DEF Release, Owned
<1>2. \A d \in Consumers, q \in Partitions :
          (q \notin ps /\ owner[q] = d) => Pending(d, q)' = Pending(d, q)
  <2> SUFFICES ASSUME NEW d \in Consumers, NEW q \in Partitions, q \notin ps, owner[q] = d
               PROVE  Pending(d, q)' = Pending(d, q)
    OBVIOUS
  <2>1. CASE d # c
    BY <2>1 DEF Pending, Target
  <2>2. CASE d = c
    <3>1. Ready(c)
      BY <2>2 DEF Owned
    <3> QED
      BY <2>2, <3>1, ReadyFacts DEF Pending, Target
  <2> QED
    BY <2>1, <2>2
<1>3. AckedIsStored'
  <2> SUFFICES ASSUME NEW q \in Partitions, NEW o \in Log[q], o < committed'[q]
               PROVE  Stored(q, o)'
    BY DEF AckedIsStored
  <2>1. CASE committed'[q] = committed[q]
    BY <2>1 DEF IInv, AckedIsStored, StoredStays
  <2> QED
    BY <2>1
<1>4. ReadIsHeldOrStored'
  <2> SUFFICES ASSUME NEW q \in Partitions, owner'[q] # NoOwner,
                      NEW o \in Log[q], o < position'[q]
               PROVE  Stored(q, o)' \/ o \in (InFlight(owner[q], q))'
    BY DEF ReadIsHeldOrStored
  <2>1. q \notin ps /\ owner'[q] = owner[q] /\ position'[q] = position[q]
    BY <1>1
  <2>2. PICK d \in Consumers : d = owner[q]
    BY <2>1 DEF IInv, TypeOK
  <2>3. Stored(q, o) \/ o \in InFlight(d, q)
    BY <2>1, <2>2 DEF IInv, ReadIsHeldOrStored
  <2>4. Stored(q, o) => Stored(q, o)'
    BY <2>1 DEF StoredStays
  <2>5. InFlight(d, q)' = InFlight(d, q)
    BY <1>2, <2>1, <2>2 DEF InFlight
  <2> QED
    BY <2>1, <2>2, <2>3, <2>4, <2>5 DEF InFlight, Pending
<1>5. BatchInv'
  <2> SUFFICES ASSUME NEW d \in Consumers, NEW q \in Partitions
               PROVE  /\ owner'[q] = d =>
                            GoodBatch(batchers'[d][q], q, position'[q], Pending(d, q)',
                                      committed'[q])
                      /\ owner'[q] # d => batchers'[d][q] = NoBatcher
                      /\ ~ batchers'[d][q].dirty =>
                            \A o \in Rows(batchers'[d][q]) : Stored(q, o)'
    BY DEF BatchInv, GoodBatch, Held, Rows, Fresh
  <2>1. CASE q \in ps
    <3>1. batchers'[d][q] = NoBatcher
      BY <1>1, <2>1 DEF IInv, BatchInv
    <3> QED
      BY <1>1, <2>1, <3>1, NoBatcherFacts
  <2>2. CASE q \notin ps
    <3>1. batchers'[d][q] = batchers[d][q]
      BY <2>2
    <3> QED
      BY <1>1, <1>2, <2>2, <3>1 DEF IInv, BatchInv, StoredStays
  <2> QED
    BY <2>1, <2>2
<1>6. PositionInv'
  <2> SUFFICES ASSUME NEW q \in Partitions
               PROVE  /\ Fresh(committed'[q])
                      /\ owner'[q] # NoOwner => committed'[q] <= position'[q]
    BY DEF PositionInv, Fresh
  <2> QED
    BY <1>1 DEF IInv, PositionInv
<1>7. CallInv'
  <2> SUFFICES ASSUME NEW d \in Consumers
               PROVE  GoodCall(d)'
    BY DEF CallInv
  <2>1. CASE d = c
    BY <2>1 DEF GoodCall, Ready, NoCall
  <2>2. CASE d # c
    <3>1. \A q \in Partitions : owner[q] = d =>
              owner'[q] = owner[q] /\ position'[q] = position[q]
      BY <1>1, <2>2
    <3> QED
      BY <2>2, <3>1, OtherCallKept
  <2> QED
    BY <2>1, <2>2
<1> QED
  BY <1>3, <1>4, <1>5, <1>6, <1>7 DEF IInv

-------------------------------------------------------------------------------
(* Starting a flush, and ending a call. *)

(* A call in its put stage, as FlushCall makes it, is as it should be.       *)
LEMMA FlushStarts ==
    ASSUME NEW c \in Consumers, NEW p \in Partitions,
           call'[c].stage = "put", call'[c].name.partition = p,
           call'[c].name.range = batchers'[c][p].range,
           batchers'[c][p].dirty, owner'[p] = c,
           \A o \in call'[c].pending : batchers'[c][p].range.end < o /\ position'[p] = o + 1,
           \A q \in call'[c].todo : q # p /\ batchers'[c][q].dirty
    PROVE  /\ GoodCall(c)'
           /\ Pending(c, p)' = call'[c].pending
           /\ \A q : q # p => Pending(c, q)' = {}
<1>1. Target(c)' = p /\ Current(c)' = batchers'[c][p] /\ ~ Ready(c)'
  BY DEF Target, Current, Ready
<1>2. GoodCall(c)'
  BY <1>1 DEF GoodCall
<1> QED
  BY <1>1, <1>2 DEF Pending

LEMMA FlushCallFacts ==
    ASSUME NEW p, NEW b, NEW pending, NEW todo
    PROVE  /\ FlushCall(p, b, pending, todo).stage = "put"
           /\ FlushCall(p, b, pending, todo).name.partition = p
           /\ FlushCall(p, b, pending, todo).name.range = b.range
           /\ FlushCall(p, b, pending, todo).pending = pending
           /\ FlushCall(p, b, pending, todo).todo = todo
  BY DEF FlushCall, ObjectName

LEMMA CallEnds ==
    ASSUME NEW c \in Consumers, call \in [Consumers -> Calls],
           call' = [call EXCEPT ![c] = NoCall]
    PROVE  GoodCall(c)' /\ \A q : Pending(c, q)' = {}
<1>1. call'[c] = NoCall
  OBVIOUS
<1> QED
  BY <1>1 DEF GoodCall, NoCall, Ready, Pending, Target

(* The end of offer for a partition that c owns. *)
LEMMA PushRecordGood ==
    ASSUME TypeOK, NEW c \in Consumers, NEW p \in Partitions, NEW o \in Offsets,
           NEW bs \in [Partitions -> Batchers], owner'[p] = c,
           PushRecord(c, bs, p, o)
    PROVE  /\ GoodCall(c)'
           /\ \A q : Pending(c, q)' = {}
           /\ batchers'[c][p] = Pushed(bs[p], o)
           /\ batchers'[c][p].dirty
           /\ o \in Rows(batchers'[c][p])
           /\ \A q \in Partitions : q # p => batchers'[c][q] = bs[q]
           /\ \A d \in Consumers : d # c => batchers'[d] = batchers[d] /\ call'[d] = call[d]
<1> DEFINE b == Pushed(bs[p], o)
<1>0. /\ call \in [Consumers -> Calls]
      /\ batchers \in [Consumers -> [Partitions -> Batchers]]
  BY DEF TypeOK, PipelineTypeOK
<1>1. b.dirty /\ o \in Rows(b)
  BY PushedFacts
<1>2. /\ batchers' = [batchers EXCEPT ![c] = [bs EXCEPT ![p] = b]]
      /\ \/ call' = [call EXCEPT ![c] = FlushCall(p, b, {}, {})]
         \/ call' = [call EXCEPT ![c] = NoCall]
  BY DEF PushRecord
<1> HIDE DEF b
<1>3. /\ batchers'[c][p] = b
      /\ \A q \in Partitions : q # p => batchers'[c][q] = bs[q]
      /\ \A d \in Consumers : d # c => batchers'[d] = batchers[d] /\ call'[d] = call[d]
  BY <1>0, <1>2
<1>4. GoodCall(c)' /\ \A q : Pending(c, q)' = {}
  <2>1. CASE call' = [call EXCEPT ![c] = FlushCall(p, b, {}, {})]
    <3>1. call'[c] = FlushCall(p, b, {}, {})
      BY <1>0, <2>1
    <3>2. /\ call'[c].stage = "put" /\ call'[c].name.partition = p
          /\ call'[c].name.range = b.range /\ call'[c].pending = {} /\ call'[c].todo = {}
      BY <3>1, FlushCallFacts
    <3> QED
      BY <1>1, <1>3, <3>2, FlushStarts
  <2>2. CASE call' = [call EXCEPT ![c] = NoCall]
    BY <1>0, <2>2, CallEnds
  <2> QED
    BY <1>2, <2>1, <2>2
<1> QED
  BY <1>1, <1>3, <1>4 DEF b

(* The loop of tick and flush_all, over dirty buffers. *)
LEMMA FlushEachGood ==
    ASSUME TypeOK, NEW c \in Consumers, NEW bs \in [Partitions -> Batchers],
           NEW todo \in SUBSET Partitions,
           \A q \in todo : bs[q].dirty /\ owner'[q] = c,
           FlushEach(c, bs, todo)
    PROVE  /\ GoodCall(c)'
           /\ \A q : Pending(c, q)' = {}
           /\ \A q \in Partitions : batchers'[c][q] = bs[q]
           /\ \A d \in Consumers : d # c => batchers'[d] = batchers[d] /\ call'[d] = call[d]
<1>0. /\ call \in [Consumers -> Calls]
      /\ batchers \in [Consumers -> [Partitions -> Batchers]]
  BY DEF TypeOK, PipelineTypeOK
<1>1. batchers' = [batchers EXCEPT ![c] = bs]
  BY DEF FlushEach
<1>2. \A q \in Partitions : batchers'[c][q] = bs[q]
  BY <1>0, <1>1
<1>3. CASE call' = [call EXCEPT ![c] = NoCall]
  BY <1>0, <1>1, <1>2, <1>3, CallEnds
<1>4. CASE \E p \in todo : call' = [call EXCEPT ![c] = FlushCall(p, bs[p], {}, todo \ {p})]
  <2>1. PICK p \in todo : call' = [call EXCEPT ![c] = FlushCall(p, bs[p], {}, todo \ {p})]
    BY <1>4
  <2>2. GoodCall(c)' /\ Pending(c, p)' = {} /\ \A q : q # p => Pending(c, q)' = {}
    <3>1. call'[c] = FlushCall(p, bs[p], {}, todo \ {p})
      BY <1>0, <2>1
    <3>2. /\ call'[c].stage = "put" /\ call'[c].name.partition = p
          /\ call'[c].name.range = bs[p].range
          /\ call'[c].pending = {} /\ call'[c].todo = todo \ {p}
      BY <3>1, FlushCallFacts
    <3>3. p \in Partitions /\ batchers'[c][p] = bs[p] /\ bs[p].dirty /\ owner'[p] = c
      BY <1>2
    <3>4. /\ \A q \in call'[c].todo : q # p /\ batchers'[c][q].dirty
          /\ \A o \in call'[c].pending : batchers'[c][p].range.end < o /\ position'[p] = o + 1
      BY <1>2, <3>2
    <3> QED
      BY <3>2, <3>3, <3>4, FlushStarts
  <2> QED
    BY <1>0, <1>1, <1>2, <2>1, <2>2
<1> QED
  BY <1>3, <1>4 DEF FlushEach

-------------------------------------------------------------------------------
(* The invariant holds initially, and each action keeps it.                 *)

LEMMA InvInit ==
    ASSUME Init
    PROVE  IInv
<1>1. TypeOK
  BY TypeInit
<1>2. /\ \A c \in Consumers, p \in Partitions : batchers[c][p] = NoBatcher
      /\ \A c \in Consumers : call[c] = NoCall
      /\ \A p \in Partitions : committed[p] = 0 /\ owner[p] = NoOwner
      /\ objects = {}
  BY DEF Init, PipelineInit
<1>3. AckedIsStored /\ ReadIsHeldOrStored
  BY <1>1, <1>2, TypeFacts DEF AckedIsStored, ReadIsHeldOrStored
<1>4. BatchInv
  BY <1>2, NoBatcherFacts, LogAssumption DEF BatchInv
<1>5. PositionInv
  BY <1>2, FreshFacts DEF PositionInv
<1>6. CallInv
  BY <1>2 DEF CallInv, GoodCall, NoCall, Ready
<1>7. ObjectsHoldTheirRange
  BY <1>2 DEF ObjectsHoldTheirRange
<1> QED
  BY <1>1, <1>3, <1>4, <1>5, <1>6, <1>7 DEF IInv

LEMMA AssignStep ==
    ASSUME IInv, TypeOK', NEW c \in Consumers, NEW ps \in SUBSET Partitions, Assign(c, ps)
    PROVE  IInv'
<1>0. /\ UNCHANGED <<batchers, call, objects, committed>>
      /\ ps \subseteq Free
      /\ \A p \in Partitions : /\ owner'[p] = IF p \in ps THEN c ELSE owner[p]
                               /\ position'[p] = IF p \in ps THEN committed[p] ELSE position[p]
  BY DEF Assign, pipelineVars
<1>1. \A p, o : Stored(p, o)' = Stored(p, o)
  BY <1>0 DEF Stored
<1>2. \A d, p : Pending(d, p)' = Pending(d, p)
  BY <1>0 DEF Pending, Target
<1>3. \A d \in Consumers, p \in ps : owner[p] = NoOwner /\ batchers[d][p] = NoBatcher
  BY <1>0, LogAssumption DEF Free, IInv, BatchInv
<1>4. AckedIsStored'
  BY <1>0, <1>1 DEF IInv, AckedIsStored
<1>5. ReadIsHeldOrStored'
  <2> SUFFICES ASSUME NEW p \in Partitions, owner'[p] # NoOwner,
                      NEW o \in Log[p], o < position'[p]
               PROVE  Stored(p, o)' \/ o \in InFlight(owner[p], p)'
    BY DEF ReadIsHeldOrStored
  <2>1. CASE p \in ps
    BY <1>0, <1>1, <2>1 DEF IInv, AckedIsStored
  <2>2. CASE p \notin ps
    BY <1>0, <1>1, <1>2, <2>2 DEF IInv, ReadIsHeldOrStored, InFlight, Pending, Target
  <2> QED
    BY <2>1, <2>2
<1>6. BatchInv'
  <2> SUFFICES ASSUME NEW d \in Consumers, NEW p \in Partitions
               PROVE  /\ owner'[p] = d =>
                            GoodBatch(batchers[d][p], p, position'[p], Pending(d, p), committed[p])
                      /\ owner'[p] # d => batchers[d][p] = NoBatcher
                      /\ ~ batchers[d][p].dirty =>
                            \A o \in Rows(batchers[d][p]) : Stored(p, o)
    BY <1>0, <1>1, <1>2 DEF BatchInv
  <2>1. CASE p \in ps
    <3>1. GoodBatch(batchers[d][p], p, committed[p], Pending(d, p), committed[p])
      BY <1>3, <2>1, NoBatcherFacts DEF GoodBatch, IInv, PositionInv
    <3> QED
      BY <1>0, <1>3, <2>1, <3>1, NoBatcherFacts
  <2>2. CASE p \notin ps
    BY <1>0, <2>2 DEF IInv, BatchInv
  <2> QED
    BY <2>1, <2>2
<1>7. PositionInv'
  BY <1>0, TypeFacts DEF IInv, PositionInv
<1>8. CallInv'
  <2> SUFFICES ASSUME NEW d \in Consumers PROVE GoodCall(d)'
    BY DEF CallInv
  <2>1. Target(d)' = Target(d) /\ Current(d)' = Current(d) /\ Ready(d)' = Ready(d)
    BY <1>0 DEF Target, Current, Ready
  <2>2. Target(d) \in Partitions /\ d # NoOwner
    BY TypeFacts DEF IInv
  <2>3. ~ Ready(d) => Target(d) \notin ps
    BY <1>3, <2>2, BusyFacts
  <2> QED
    BY <1>0, <1>1, <2>1, <2>2, <2>3 DEF IInv, CallInv, GoodCall
<1>9. ObjectsHoldTheirRange'
  BY <1>0 DEF IInv, ObjectsHoldTheirRange
<1> QED
  BY <1>4, <1>5, <1>6, <1>7, <1>8, <1>9 DEF IInv

LEMMA TakeAwayStep ==
    ASSUME IInv, TypeOK', NEW c \in Consumers, NEW ps \in SUBSET Partitions, TakeAway(c, ps)
    PROVE  IInv'
<1>1. /\ ps \subseteq Owned(c) /\ Ready(c) /\ Release(ps)
      /\ batchers' = [batchers EXCEPT ![c] = WithoutBatchers(c, ps)]
      /\ UNCHANGED <<call, objects, committed>>
  BY DEF TakeAway, Revoke
<1>2. batchers \in [Consumers -> [Partitions -> Batchers]]
  BY DEF IInv, TypeOK, PipelineTypeOK
<1>3. /\ \A d \in Consumers : d # c => batchers'[d] = batchers[d] /\ call'[d] = call[d]
      /\ \A q \in Partitions : batchers'[c][q] = IF q \in ps THEN NoBatcher ELSE batchers[c][q]
  BY <1>1, <1>2 DEF WithoutBatchers
<1>4. call'[c] = NoCall
  BY <1>1, ReadyFacts
<1>5. StoredStays /\ ObjectsHoldTheirRange'
  BY <1>1, BucketUnchanged
<1> QED
  BY <1>1, <1>3, <1>4, <1>5, DropStep

(* The commit of a complete range covers only what is in the bucket.         *)
LEMMA CommitFacts ==
    ASSUME IInv, NEW c \in Consumers, call[c].stage = "commit",
           NEW p \in Partitions, p = Target(c)
    PROVE  /\ NextToRead(c) = Current(c).range.end + 1
           /\ NextToRead(c) <= position[p]
           /\ Fresh(NextToRead(c))
           /\ \A o \in Log[p] : o < NextToRead(c) => Stored(p, o)
           /\ call[c].pending = {} => position[p] = NextToRead(c)
           /\ committed[p] <= NextToRead(c)
<1> DEFINE b == Current(c)
<1>1. ~ Ready(c)
  BY DEF Ready
<1>2. IsFull(b) /\ \A o \in Rows(b) : Stored(p, o)
  BY DEF IInv, CallInv, GoodCall
<1>3. /\ b \in Batchers /\ committed[p] \in Nat /\ position[p] \in Nat
      /\ Log[p] \subseteq Nat /\ b.range \in Ranges
      /\ b.range.start \in Nat /\ b.range.end \in Nat
  BY TypeFacts, BatcherFacts, RangesFacts DEF IInv
<1>4. /\ owner[p] = c /\ Held(b)
      /\ call[c].name.range = b.range
      /\ GoodBatch(b, p, position[p], call[c].pending, committed[p])
      /\ \A o \in call[c].pending : o \in Nat /\ b.range.end < o
  BY <1>1, BusyFacts
<1>5. /\ CommitOffset(b.range) = b.range.end + 1
      /\ b.range.end + 1 <= position[p]
      /\ call[c].pending = {} => position[p] = b.range.end + 1
  BY <1>2, <1>3, <1>4, FullAtItsEnd
<1>6. NextToRead(c) = b.range.end + 1
  BY <1>4, <1>5 DEF NextToRead
<1>7. Fresh(b.range.end + 1)
  BY <1>3, FreshFacts
<1>8. b.range.start <= b.range.end /\ committed[p] <= b.range.start
  <2>1. PICK x \in Rows(b) : x \in Nat /\ Contains(b.range, x)
    BY <1>3, <1>4, BatcherFacts, OffsetFacts DEF GoodBatch
  <2> QED
    BY <1>3, <1>4, <2>1 DEF GoodBatch, Contains
<1>9. \A o \in Log[p] : o < b.range.end + 1 => Stored(p, o)
  <2> SUFFICES ASSUME NEW o \in Log[p], o < b.range.end + 1
               PROVE  Stored(p, o)
    OBVIOUS
  <2>0. o \in Nat /\ o < position[p] /\ o <= b.range.end
    BY <1>3, <1>5
  <2>1. Stored(p, o) \/ o \in InFlight(c, p)
    BY <1>4, <2>0, TypeFacts DEF IInv, ReadIsHeldOrStored
  <2>2. o \notin call[c].pending
    BY <1>3, <1>4, <2>0
  <2>3. o \in InFlight(c, p) => o \in Rows(b)
    BY <1>1, <2>2, BusyFacts DEF InFlight
  <2> QED
    BY <1>2, <2>1, <2>3
<1>10. committed[p] <= b.range.end + 1
  BY <1>3, <1>8
<1> QED
  BY <1>5, <1>6, <1>7, <1>9, <1>10

LEMMA ExitStep ==
    ASSUME IInv, TypeOK', NEW c \in Consumers, Exit(c), Leave(c),
           StoredStays, ObjectsHoldTheirRange',
           \A q \in Partitions : committed'[q] # committed[q] =>
               /\ q \in Owned(c) /\ Fresh(committed'[q])
               /\ \A o \in Log[q] : o < committed'[q] => Stored(q, o)'
    PROVE  IInv'
<1>1. /\ batchers \in [Consumers -> [Partitions -> Batchers]]
      /\ call \in [Consumers -> Calls]
  BY DEF IInv, TypeOK, PipelineTypeOK
<1>2. /\ call'[c] = NoCall
      /\ \A d \in Consumers : d # c => batchers'[d] = batchers[d] /\ call'[d] = call[d]
      /\ \A q \in Partitions : batchers'[c][q] = NoBatcher
  BY <1>1 DEF Exit
<1>3. \A q \in Partitions : q \notin Owned(c) => batchers[c][q] = NoBatcher
  BY DEF IInv, BatchInv, Owned
<1>4. \A q \in Partitions :
          batchers'[c][q] = IF q \in Owned(c) THEN NoBatcher ELSE batchers[c][q]
  BY <1>2, <1>3
<1>5. Owned(c) \in SUBSET Partitions /\ Release(Owned(c))
  BY DEF Owned, Leave
<1> QED
  BY <1>2, <1>4, <1>5, DropStep

LEMMA GoneStep ==
    ASSUME IInv, TypeOK', NEW c \in Consumers, Stopped(c) \/ Crash(c)
    PROVE  IInv'
<1>1. Exit(c) /\ Leave(c) /\ UNCHANGED <<objects, committed>>
  BY DEF Stopped, Crash
<1> QED
  BY <1>1, BucketUnchanged, ExitStep

LEMMA UploadErrorStep ==
    ASSUME IInv, TypeOK', NEW c \in Consumers, UploadError(c)
    PROVE  IInv'
<1>1. Exit(c) /\ Leave(c) /\ UNCHANGED committed /\ ~ Ready(c)
  BY DEF UploadError, PutFailed, Ready
<1>2. StoredStays /\ ObjectsHoldTheirRange'
  <2>1. PICK p \in Partitions : p = Target(c)
    BY TypeFacts DEF IInv
  <2> QED
    BY <1>1, <2>1, BucketUnchanged, BucketOverwritten DEF UploadError, PutFailed
<1> QED
  BY <1>1, <1>2, ExitStep

LEMMA CommitErrorStep ==
    ASSUME IInv, TypeOK', NEW c \in Consumers, CommitError(c)
    PROVE  IInv'
<1>1. /\ Exit(c) /\ Leave(c) /\ UNCHANGED objects /\ ~ Ready(c) /\ call[c].stage = "commit"
      /\ \/ UNCHANGED committed
         \/ committed' = [committed EXCEPT ![Target(c)] = NextToRead(c)]
  BY DEF CommitError, CommitFailed, Ready
<1>2. StoredStays /\ ObjectsHoldTheirRange' /\ \A p, o : Stored(p, o)' = Stored(p, o)
  BY <1>1, BucketUnchanged
<1>3. PICK p \in Partitions : p = Target(c)
  BY TypeFacts DEF IInv
<1>4. committed \in [Partitions -> Offsets]
  BY DEF IInv, TypeOK, PipelineTypeOK
<1>5. \A q \in Partitions : committed'[q] # committed[q] => q = p /\ committed'[q] = NextToRead(c)
  BY <1>1, <1>3, <1>4
<1>6. p \in Owned(c)
  BY <1>1, <1>3, BusyFacts DEF Owned
<1>7. Fresh(NextToRead(c)) /\ \A o \in Log[p] : o < NextToRead(c) => Stored(p, o)'
  BY <1>1, <1>2, <1>3, CommitFacts
<1>8. \A q \in Partitions : committed'[q] # committed[q] =>
         /\ q \in Owned(c) /\ Fresh(committed'[q])
         /\ \A o \in Log[q] : o < committed'[q] => Stored(q, o)'
  BY <1>5, <1>6, <1>7
<1> QED
  BY <1>1, <1>2, <1>8, ExitStep

LEMMA DeliverStep ==
    ASSUME IInv, TypeOK', NEW c \in Consumers, NEW p \in Partitions, NEW o \in Log[p],
           Deliver(c, p, o)
    PROVE  IInv'
<1> DEFINE b == batchers[c][p]
           n == position[p]
<1>1. /\ owner[p] = c /\ Ready(c) /\ UNCHANGED <<owner, objects, committed>>
      /\ position' = [position EXCEPT ![p] = o + 1]
      /\ o >= n /\ \A u \in Log[p] : u >= n => o <= u
  BY DEF Deliver, Offer, IsNext, Unread
<1>2. /\ b \in Batchers /\ n \in Nat /\ committed[p] \in Nat
      /\ o \in Offsets /\ o \in Nat /\ Log[p] \subseteq Nat
      /\ c # NoOwner
  BY TypeFacts DEF IInv
<1>3. /\ \A q \in Partitions : q # p => position'[q] = position[q]
      /\ position'[p] = o + 1
      /\ batchers \in [Consumers -> [Partitions -> Batchers]]
      /\ call \in [Consumers -> Calls]
  BY <1>1 DEF IInv, TypeOK, PipelineTypeOK
<1>4. \A q \in Partitions : Pending(c, q) = {}
  BY <1>1, ReadyFacts
<1>5. /\ GoodBatch(b, p, n, {}, committed[p])
      /\ ~ b.dirty => \A u \in Rows(b) : Stored(p, u)
      /\ committed[p] <= n /\ Fresh(committed[p])
  BY <1>1, <1>2, <1>4 DEF IInv, BatchInv, PositionInv
<1>6. StoredStays /\ ObjectsHoldTheirRange' /\ \A q, u : Stored(q, u)' = Stored(q, u)
  BY <1>1, BucketUnchanged
<1>7. \A u \in Log[p] : u < o + 1 => Stored(p, u) \/ u \in Rows(b) \/ u = o
  <2> SUFFICES ASSUME NEW u \in Log[p], u < o + 1
               PROVE  Stored(p, u) \/ u \in Rows(b) \/ u = o
    OBVIOUS
  <2>1. CASE u < n
    BY <1>1, <1>2, <1>4, <2>1 DEF IInv, ReadIsHeldOrStored, InFlight
  <2>2. CASE ~ (u < n)
    <3>1. u \in Nat /\ o <= u
      BY <1>1, <1>2, <2>2
    <3> QED
      BY <1>2, <3>1
  <2> QED
    BY <2>1, <2>2
<1>8. committed[p] <= o + 1 /\ \A u \in Log[p] : u < committed[p] => Stored(p, u)
  BY <1>1, <1>2, <1>5 DEF IInv, AckedIsStored
<1>9. CASE /\ MustFlushFirst(b, o) /\ UNCHANGED batchers
           /\ call' = [call EXCEPT ![c] = FlushCall(p, b, {o}, {})]
  <2>1. Held(b) /\ b.range # RangeOf(o) /\ b.dirty
    BY <1>9 DEF MustFlushFirst
  <2>2. GoodBatch(b, p, o + 1, {o}, committed[p]) /\ b.range.end < o
    BY <1>1, <1>2, <1>5, <2>1, GoodWait
  <2>3. call'[c] = FlushCall(p, b, {o}, {})
    BY <1>3, <1>9
  <2>4. /\ call'[c].stage = "put" /\ call'[c].name.partition = p
        /\ call'[c].name.range = b.range /\ call'[c].pending = {o} /\ call'[c].todo = {}
    BY <2>3, FlushCallFacts
  <2>5. GoodCall(c)' /\ Pending(c, p)' = {o} /\ \A q : q # p => Pending(c, q)' = {}
    <3>1. /\ batchers'[c][p] = b /\ batchers'[c][p].dirty /\ owner'[p] = c
          /\ call'[c].name.range = batchers'[c][p].range
      BY <1>1, <1>9, <2>1, <2>4
    <3>2. /\ \A u \in call'[c].pending : batchers'[c][p].range.end < u /\ position'[p] = u + 1
          /\ \A q \in call'[c].todo : q # p /\ batchers'[c][q].dirty
      BY <1>3, <2>2, <2>4, <3>1
    <3> HIDE DEF b
    <3> QED
      BY <2>4, <3>1, <3>2, FlushStarts
  <2>6. InFlight(c, p)' = Rows(b) \union {o}
    BY <1>9, <2>5 DEF InFlight
  <2>7. \A d \in Consumers : d # c => batchers'[d] = batchers[d] /\ call'[d] = call[d]
    BY <1>3, <1>9
  <2>8. \A u \in Log[p] : u < position'[p] => Stored(p, u)' \/ u \in InFlight(c, p)'
    BY <1>3, <1>6, <1>7, <2>6
  <2> HIDE DEF b
  <2>9. batchers'[c][p] = b /\ \A q \in Partitions : batchers'[c][q] = batchers[c][q]
    BY <1>9 DEF b
  <2>10. /\ \A q \in Partitions : committed'[q] = committed[q]
         /\ \A u \in Log[p] : u < committed'[p] => Stored(p, u)'
    BY <1>1, <1>6, <1>8
  <2>11. GoodBatch(batchers'[c][p], p, position'[p], Pending(c, p)', committed'[p])
    BY <1>3, <2>2, <2>5, <2>9, <2>10
  <2>12. /\ Fresh(committed'[p]) /\ committed'[p] <= position'[p]
         /\ batchers'[c][p].dirty
    BY <1>3, <1>5, <1>8, <2>1, <2>9, <2>10
  <2>13. \A q \in Partitions : q # p =>
             /\ batchers'[c][q] = batchers[c][q]
             /\ position'[q] = position[q] /\ committed'[q] = committed[q]
             /\ Pending(c, q) = {} /\ Pending(c, q)' = {}
    BY <1>3, <1>4, <2>5, <2>9, <2>10
  <2> QED
    BY <1>1, <1>6, <2>5, <2>7, <2>8, <2>10, <2>11, <2>12, <2>13, HandlerStep
<1>10. CASE ~ MustFlushFirst(b, o) /\ PushRecord(c, batchers[c], p, o)
  <2>0. batchers[c] \in [Partitions -> Batchers] /\ TypeOK /\ owner'[p] = c
    BY <1>1, <1>3 DEF IInv
  <2>1. /\ GoodCall(c)' /\ \A q : Pending(c, q)' = {}
        /\ batchers'[c][p] = Pushed(b, o) /\ batchers'[c][p].dirty
        /\ \A q \in Partitions : q # p => batchers'[c][q] = batchers[c][q]
        /\ \A d \in Consumers : d # c => batchers'[d] = batchers[d] /\ call'[d] = call[d]
    BY <1>2, <1>10, <2>0, PushRecordGood
  <2>2. GoodBatch(Pushed(b, o), p, o + 1, {}, committed[p])
    BY <1>1, <1>2, <1>5, GoodPush
  <2>3. \A u \in Rows(b) : Stored(p, u) \/ u \in Rows(Pushed(b, o))
    <3>1. CASE b.range = RangeOf(o)
      BY <1>2, <3>1, PushedFacts
    <3>2. CASE ~ Held(b)
      BY <1>2, <3>2, BatcherFacts
    <3>3. CASE ~ b.dirty
      BY <1>5, <3>3
    <3> QED
      BY <1>10, <3>1, <3>2, <3>3 DEF MustFlushFirst
  <2>4. o \in Rows(Pushed(b, o))
    BY <1>2, PushedFacts
  <2>5. InFlight(c, p)' = Rows(Pushed(b, o))
    BY <2>1 DEF InFlight
  <2>6. \A u \in Log[p] : u < position'[p] => Stored(p, u)' \/ u \in InFlight(c, p)'
    BY <1>3, <1>6, <1>7, <2>3, <2>4, <2>5
  <2>7. /\ \A q \in Partitions : committed'[q] = committed[q]
        /\ \A u \in Log[p] : u < committed'[p] => Stored(p, u)'
    BY <1>1, <1>6, <1>8
  <2>8. GoodBatch(batchers'[c][p], p, position'[p], Pending(c, p)', committed'[p])
    BY <1>3, <2>1, <2>2, <2>7
  <2> HIDE DEF b
  <2> QED
    BY <1>1, <1>3, <1>4, <1>5, <1>6, <1>8, <2>1, <2>6, <2>7, <2>8, HandlerStep
<1> QED
  BY <1>9, <1>10 DEF Deliver, Offer

(* tick and flush_all start on buffers that their process owns.              *)
LEMMA FlushStep ==
    ASSUME IInv, TypeOK', NEW c \in Consumers, NEW todo \in SUBSET DirtyKeys(c),
           Ready(c), FlushEach(c, batchers[c], todo),
           UNCHANGED <<objects, committed, owner, position>>
    PROVE  IInv'
<1>1. /\ batchers \in [Consumers -> [Partitions -> Batchers]]
      /\ call \in [Consumers -> Calls] /\ TypeOK
  BY DEF IInv, TypeOK, PipelineTypeOK
<1>2. CASE todo = {}
  <2>1. call' = [call EXCEPT ![c] = NoCall] /\ batchers' = [batchers EXCEPT ![c] = batchers[c]]
    BY <1>2 DEF FlushEach
  <2>2. UNCHANGED <<batchers, call>>
    BY <1>1, <2>1, ReadyFacts
  <2> QED
    BY <2>2, InvariantKept
<1>3. CASE todo # {}
  <2>1. PICK p \in todo : TRUE
    BY <1>3
  <2>2. /\ todo \in SUBSET Partitions /\ p \in Partitions
        /\ \A q \in todo : batchers[c][q].dirty /\ owner[q] = c
    BY <2>1, DirtyFacts DEF DirtyKeys
  <2>3. /\ GoodCall(c)' /\ \A q : Pending(c, q)' = {}
        /\ \A q \in Partitions : batchers'[c][q] = batchers[c][q]
        /\ \A d \in Consumers : d # c => batchers'[d] = batchers[d] /\ call'[d] = call[d]
    BY <1>1, <2>2, FlushEachGood
  <2>4. StoredStays /\ ObjectsHoldTheirRange' /\ \A q, u : Stored(q, u)' = Stored(q, u)
    BY BucketUnchanged
  <2>5. /\ \A q \in Partitions : Pending(c, q) = {}
        /\ c # NoOwner
    BY ReadyFacts, TypeFacts DEF IInv
  <2>6. /\ owner[p] = c
        /\ Fresh(committed[p]) /\ committed[p] <= position[p]
        /\ GoodBatch(batchers[c][p], p, position[p], {}, committed[p])
        /\ batchers[c][p].dirty
    BY <2>1, <2>2, <2>5 DEF IInv, BatchInv, PositionInv
  <2>7. \A u \in Log[p] : u < position'[p] => Stored(p, u)' \/ u \in InFlight(c, p)'
    <3>1. InFlight(c, p)' = InFlight(c, p)
      BY <2>2, <2>3, <2>5 DEF InFlight
    <3> QED
      BY <2>2, <2>4, <2>5, <2>6, <3>1 DEF IInv, ReadIsHeldOrStored
  <2>8. \A u \in Log[p] : u < committed'[p] => Stored(p, u)'
    BY <2>2, <2>4 DEF IInv, AckedIsStored
  <2>9. GoodBatch(batchers'[c][p], p, position'[p], Pending(c, p)', committed'[p])
    BY <2>2, <2>3, <2>6
  <2> QED
    BY <2>2, <2>3, <2>4, <2>5, <2>6, <2>7, <2>8, <2>9, HandlerStep
<1> QED
  BY <1>2, <1>3

(* flush_partition returns, leaving nb of the buffer it has flushed: its     *)
(* caller pushes the waiting record or goes on with the next partition.      *)
LEMMA ReturnStep ==
    ASSUME IInv, TypeOK', NEW c \in Consumers, ~ Ready(c),
           NEW p \in Partitions, p = Target(c), NEW nb \in Batchers,
           Return(c, [batchers[c] EXCEPT ![p] = nb]),
           UNCHANGED <<owner, position>>,
           \A q \in Partitions : q # p => committed'[q] = committed[q],
           StoredStays, ObjectsHoldTheirRange',
           \A u \in Rows(Current(c)) : Stored(p, u)',
           Fresh(committed'[p]), committed'[p] <= position[p],
           \A u \in Log[p] : u < committed'[p] => Stored(p, u)',
           Rows(nb) \subseteq Rows(Current(c)),
           \A o \in call[c].pending : GoodBatch(Pushed(nb, o), p, o + 1, {}, committed'[p]),
           call[c].pending = {} => GoodBatch(nb, p, position[p], {}, committed'[p])
    PROVE  IInv'
<1> DEFINE bs == [batchers[c] EXCEPT ![p] = nb]
<1>1. /\ owner[p] = c /\ c # NoOwner /\ TypeOK
      /\ \A q \in Partitions : q # p => Pending(c, q) = {}
      /\ Pending(c, p) = call[c].pending
      /\ Current(c) = batchers[c][p]
  BY BusyFacts, TypeFacts DEF IInv
<1>2. /\ bs \in [Partitions -> Batchers] /\ bs[p] = nb
      /\ \A q \in Partitions : q # p => bs[q] = batchers[c][q]
  BY <1>1 DEF TypeOK, PipelineTypeOK
<1>3. \A u \in Log[p] : u < position[p] => Stored(p, u)' \/ u \in call[c].pending
  <2> SUFFICES ASSUME NEW u \in Log[p], u < position[p]
               PROVE  Stored(p, u)' \/ u \in call[c].pending
    OBVIOUS
  <2>1. Stored(p, u) \/ u \in Rows(batchers[c][p]) \/ u \in call[c].pending
    BY <1>1 DEF IInv, ReadIsHeldOrStored, InFlight
  <2>2. Stored(p, u) => Stored(p, u)'
    BY <1>1 DEF StoredStays
  <2> QED
    BY <1>1, <2>1, <2>2
<1> HIDE DEF bs
<1>4. ASSUME NEW o \in call[c].pending, PushRecord(c, bs, p, o)
      PROVE  IInv'
  <2>1. o \in Offsets /\ call[c].pending = {o} /\ position[p] = o + 1
    BY <1>4, BusyFacts
  <2>2. /\ GoodCall(c)' /\ \A q : Pending(c, q)' = {}
        /\ batchers'[c][p] = Pushed(nb, o) /\ batchers'[c][p].dirty
        /\ o \in Rows(batchers'[c][p])
        /\ \A q \in Partitions : q # p => batchers'[c][q] = bs[q]
        /\ \A d \in Consumers : d # c => batchers'[d] = batchers[d] /\ call'[d] = call[d]
    BY <1>1, <1>2, <1>4, <2>1, PushRecordGood
  <2>3. InFlight(c, p)' = Rows(batchers'[c][p])
    BY <2>2 DEF InFlight, Rows
  <2>4. \A u \in Log[p] : u < position'[p] => Stored(p, u)' \/ u \in InFlight(c, p)'
    BY <1>3, <2>1, <2>2, <2>3
  <2>5. GoodBatch(batchers'[c][p], p, position'[p], Pending(c, p)', committed'[p])
    BY <1>4, <2>1, <2>2
  <2>6. \A q \in Partitions : q # p =>
             /\ batchers'[c][q] = batchers[c][q]
             /\ position'[q] = position[q] /\ committed'[q] = committed[q]
             /\ Pending(c, q) = {} /\ Pending(c, q)' = {}
    BY <1>1, <1>2, <2>2
  <2> QED
    BY <1>1, <2>2, <2>4, <2>5, <2>6, HandlerStep
<1>5. ASSUME call[c].pending = {}, FlushEach(c, bs, call[c].todo)
      PROVE  IInv'
  <2>1. call[c].todo \in SUBSET Partitions
    BY OverwrittenTypes DEF IInv, TypeOK
  <2>2. \A q \in call[c].todo : q # p /\ batchers[c][q].dirty
    BY DEF IInv, CallInv, GoodCall
  <2>3. \A q \in call[c].todo : bs[q].dirty /\ owner'[q] = c
    BY <1>2, <2>1, <2>2, DirtyFacts
  <2>4. /\ GoodCall(c)' /\ \A q : Pending(c, q)' = {}
        /\ \A q \in Partitions : batchers'[c][q] = bs[q]
        /\ \A d \in Consumers : d # c => batchers'[d] = batchers[d] /\ call'[d] = call[d]
    BY <1>1, <1>2, <1>5, <2>1, <2>3, FlushEachGood
  <2>5. batchers'[c][p] = nb
    BY <1>2, <2>4
  <2>6. \A u \in Log[p] : u < position'[p] => Stored(p, u)' \/ u \in InFlight(c, p)'
    BY <1>3, <1>5
  <2>7. GoodBatch(batchers'[c][p], p, position'[p], Pending(c, p)', committed'[p])
    BY <1>5, <2>4, <2>5
  <2>8. \A q \in Partitions : q # p =>
             /\ batchers'[c][q] = batchers[c][q]
             /\ position'[q] = position[q] /\ committed'[q] = committed[q]
             /\ Pending(c, q) = {} /\ Pending(c, q)' = {}
    BY <1>1, <1>2, <2>4
  <2>9. ~ batchers'[c][p].dirty => \A u \in Rows(batchers'[c][p]) : Stored(p, u)'
    BY <2>5
  <2> QED
    BY <1>1, <2>4, <2>6, <2>7, <2>8, <2>9, HandlerStep
<1> QED
  BY <1>4, <1>5 DEF Return, bs

LEMMA PutRetriedStep ==
    ASSUME IInv, TypeOK', NEW c \in Consumers, PutRetried(c), UNCHANGED <<owner, position>>
    PROVE  IInv'
<1>1. PICK p \in Partitions : p = Target(c)
  BY TypeFacts DEF IInv
<1>2. /\ ~ Ready(c) /\ call[c].stage = "put" /\ UNCHANGED <<batchers, committed>>
      /\ \A d \in Consumers : d # c => call'[d] = call[d]
      /\ call' = [call EXCEPT ![c].attempt = @ + 1]
      /\ call \in [Consumers -> Calls] /\ call[c] \in Calls
  BY DEF PutRetried, Ready, IInv, TypeOK, PipelineTypeOK
<1>3. /\ call'[c].stage = "put" /\ call'[c].name = call[c].name
      /\ call'[c].pending = call[c].pending /\ call'[c].todo = call[c].todo
  BY <1>2 DEF Calls
<1>4. StoredStays /\ ObjectsHoldTheirRange'
  BY <1>1, <1>2, BucketUnchanged, BucketOverwritten DEF PutRetried
<1>5. /\ owner[p] = c /\ c # NoOwner /\ Current(c) = batchers[c][p] /\ Current(c).dirty
      /\ \A q \in Partitions : q # p => Pending(c, q) = {}
      /\ \A q \in Partitions : Pending(c, q)' = Pending(c, q)
      /\ Target(c)' = p /\ Current(c)' = Current(c)
      /\ Fresh(committed[p]) /\ committed[p] <= position[p]
  BY <1>1, <1>2, <1>3, BusyFacts, TypeFacts
     DEF IInv, Pending, Target, Current, PositionInv
<1>6. GoodCall(c)'
  BY <1>1, <1>2, <1>3, <1>5 DEF IInv, CallInv, GoodCall, Ready
<1>7. \A u \in Log[p] : u < committed'[p] => Stored(p, u)'
  BY <1>2, <1>4 DEF StoredStays, IInv, AckedIsStored
<1>8. \A u \in Log[p] : u < position'[p] => Stored(p, u)' \/ u \in InFlight(c, p)'
  <2>1. InFlight(c, p)' = InFlight(c, p)
    BY <1>2, <1>5 DEF InFlight
  <2> QED
    BY <1>4, <1>5, <2>1 DEF StoredStays, IInv, ReadIsHeldOrStored
<1>9. GoodBatch(batchers'[c][p], p, position'[p], Pending(c, p)', committed'[p])
  BY <1>2, <1>5 DEF IInv, BatchInv
<1> QED
  BY <1>2, <1>4, <1>5, <1>6, <1>7, <1>8, <1>9, HandlerStep

LEMMA PutOkStep ==
    ASSUME IInv, TypeOK', NEW c \in Consumers, PutOk(c), UNCHANGED <<owner, position>>
    PROVE  IInv'
<1> DEFINE b == Current(c)
<1>1. PICK p \in Partitions : p = Target(c)
  BY TypeFacts DEF IInv
<1>2. /\ ~ Ready(c) /\ call[c].stage = "put" /\ UNCHANGED committed
      /\ objects' = Overwritten(call[c].name, b.records)
  BY DEF PutOk, Ready
<1>3. /\ StoredStays /\ ObjectsHoldTheirRange'
      /\ \A u \in Rows(b) : Stored(p, u)'
  BY <1>1, <1>2, BucketOverwritten
<1>4. /\ owner[p] = c /\ c # NoOwner /\ b = batchers[c][p] /\ b \in Batchers
      /\ b.dirty /\ Held(b) /\ call[c].name.range = b.range
      /\ \A q \in Partitions : q # p => Pending(c, q) = {}
      /\ Pending(c, p) = call[c].pending
      /\ \A o \in call[c].pending :
            call[c].pending = {o} /\ o \in Offsets /\ b.range.end < o /\ position[p] = o + 1
      /\ GoodBatch(b, p, position[p], call[c].pending, committed[p])
      /\ committed[p] \in Nat
  BY <1>1, <1>2, BusyFacts, TypeFacts DEF IInv
<1>5. Fresh(committed[p]) /\ committed[p] <= position[p]
  BY <1>4 DEF IInv, PositionInv
<1>6. \A u \in Log[p] : u < committed'[p] => Stored(p, u)'
  BY <1>2, <1>3 DEF StoredStays, IInv, AckedIsStored
<1>7. CASE /\ IsFull(b) /\ UNCHANGED batchers
           /\ call' = [call EXCEPT ![c].stage = "commit"]
  <2>1. call \in [Consumers -> Calls] /\ call[c] \in Calls
    BY DEF IInv, TypeOK, PipelineTypeOK
  <2>2. /\ call'[c].stage = "commit" /\ call'[c].name = call[c].name
        /\ call'[c].pending = call[c].pending /\ call'[c].todo = call[c].todo
        /\ \A d \in Consumers : d # c => call'[d] = call[d]
    BY <1>7, <2>1 DEF Calls
  <2>3. /\ \A q \in Partitions : Pending(c, q)' = Pending(c, q)
        /\ Target(c)' = p /\ Current(c)' = b
    BY <1>1, <1>7, <2>2 DEF Pending, Target, Current
  <2>4. /\ \A o \in call[c].pending : b.range.end < o /\ position[p] = o + 1
        /\ \A q \in call[c].todo : q # p /\ batchers[c][q].dirty
    BY <1>1, <1>2 DEF IInv, CallInv, GoodCall, Ready
  <2>5. GoodCall(c)'
    <3>1. ~ Ready(c)' /\ (call[c].stage = "commit")' /\ owner'[p] = c
      BY <1>4, <2>2 DEF Ready
    <3>2. (\A u \in Rows(Current(c)) : Stored(Target(c), u))'
      BY <1>3, <2>3 DEF Stored
    <3>3. IsFull(Current(c))'
      BY <1>7, <2>3
    <3> QED
      BY <1>4, <1>7, <2>2, <2>3, <2>4, <3>1, <3>2, <3>3 DEF GoodCall
  <2>6. \A u \in Log[p] : u < position'[p] => Stored(p, u)' \/ u \in InFlight(c, p)'
    <3>1. InFlight(c, p)' = InFlight(c, p)
      BY <1>7, <2>3 DEF InFlight
    <3> QED
      BY <1>3, <1>4, <3>1 DEF StoredStays, IInv, ReadIsHeldOrStored
  <2>7. GoodBatch(batchers'[c][p], p, position'[p], Pending(c, p)', committed'[p])
    BY <1>2, <1>4, <1>7, <2>3
  <2>8. batchers'[c][p].dirty
    BY <1>4, <1>7
  <2> HIDE DEF b
  <2> QED
    BY <1>2, <1>3, <1>4, <1>5, <1>6, <1>7, <2>2, <2>3, <2>5, <2>6, <2>7, <2>8, HandlerStep
<1>8. CASE Return(c, [batchers[c] EXCEPT ![Target(c)] = Flushed(@)])
  <2>1. Return(c, [batchers[c] EXCEPT ![p] = Flushed(b)])
    BY <1>1, <1>4, <1>8
  <2>2. Flushed(b) \in Batchers /\ Rows(Flushed(b)) = Rows(b)
    BY <1>4, BatcherTypes, FlushedFacts
  <2>3. \A o \in call[c].pending : GoodBatch(Pushed(Flushed(b), o), p, o + 1, {}, committed'[p])
    BY <1>2, <1>4, GoodPushWaiting
  <2>4. call[c].pending = {} => GoodBatch(Flushed(b), p, position[p], {}, committed'[p])
    <3>1. Flushed(b).range = b.range /\ Flushed(b).records = b.records /\ Held(Flushed(b))
      BY <1>4, FlushedFacts
    <3> QED
      BY <1>2, <1>4, <2>2, <3>1 DEF GoodBatch
  <2>5. \A q \in Partitions : q # p => committed'[q] = committed[q]
    BY <1>2
  <2>6. Fresh(committed'[p]) /\ committed'[p] <= position[p]
    BY <1>2, <1>5
  <2> QED
    BY <1>1, <1>2, <1>3, <1>6, <2>1, <2>2, <2>3, <2>4, <2>5, <2>6, ReturnStep
<1> QED
  BY <1>7, <1>8 DEF PutOk, CommitsAfterUpload

LEMMA CommitOkStep ==
    ASSUME IInv, TypeOK', NEW c \in Consumers, CommitOk(c), UNCHANGED <<owner, position>>
    PROVE  IInv'
<1> DEFINE b == Current(c)
<1>1. PICK p \in Partitions : p = Target(c)
  BY TypeFacts DEF IInv
<1>2. /\ ~ Ready(c) /\ call[c].stage = "commit" /\ UNCHANGED objects
      /\ committed' = [committed EXCEPT ![p] = NextToRead(c)]
      /\ Return(c, [batchers[c] EXCEPT ![p] = NoBatcher])
  BY <1>1 DEF CommitOk, Ready
<1>3. /\ StoredStays /\ ObjectsHoldTheirRange' /\ \A q, u : Stored(q, u)' = Stored(q, u)
  BY <1>2, BucketUnchanged
<1>4. /\ committed'[p] = NextToRead(c)
      /\ \A q \in Partitions : q # p => committed'[q] = committed[q]
  BY <1>2 DEF IInv, TypeOK, PipelineTypeOK
<1>5. /\ NextToRead(c) = b.range.end + 1
      /\ NextToRead(c) <= position[p]
      /\ Fresh(NextToRead(c))
      /\ \A o \in Log[p] : o < NextToRead(c) => Stored(p, o)
      /\ call[c].pending = {} => position[p] = NextToRead(c)
  BY <1>1, <1>2, CommitFacts
<1>6. /\ b \in Batchers /\ Held(b) /\ committed[p] \in Nat
      /\ \A o \in call[c].pending :
            call[c].pending = {o} /\ o \in Offsets /\ b.range.end < o /\ position[p] = o + 1
      /\ GoodBatch(b, p, position[p], call[c].pending, committed[p])
  BY <1>1, <1>2, BusyFacts, TypeFacts DEF IInv
<1>7. \A u \in Rows(b) : Stored(p, u)
  BY <1>1, <1>2 DEF IInv, CallInv, GoodCall
<1>8. \A o \in call[c].pending : GoodBatch(Pushed(NoBatcher, o), p, o + 1, {}, committed'[p])
  BY <1>4, <1>5, <1>6, GoodPushWaiting
<1>9. call[c].pending = {} => GoodBatch(NoBatcher, p, position[p], {}, committed'[p])
  BY <1>5, NoBatcherFacts DEF GoodBatch
<1>10. /\ NoBatcher \in Batchers /\ Rows(NoBatcher) \subseteq Rows(b)
       /\ Fresh(committed'[p]) /\ committed'[p] <= position[p]
       /\ \A u \in Log[p] : u < committed'[p] => Stored(p, u)'
       /\ \A u \in Rows(b) : Stored(p, u)'
  BY <1>3, <1>4, <1>5, <1>7, NoBatcherFacts
<1> QED
  BY <1>1, <1>2, <1>3, <1>4, <1>8, <1>9, <1>10, ReturnStep

LEMMA ElapseStep ==
    ASSUME IInv, TypeOK', NEW c \in Consumers, Elapse(c), UNCHANGED <<owner, position>>
    PROVE  IInv'
<1>1. /\ Ready(c) /\ UNCHANGED <<call, objects, committed>>
      /\ \A d \in Consumers : d # c => batchers'[d] = batchers[d]
      /\ \A q \in Partitions : batchers'[c][q] = Aged(batchers[c][q])
  BY DEF Elapse, IInv, TypeOK, PipelineTypeOK
<1>2. StoredStays /\ ObjectsHoldTheirRange' /\ \A q, u : Stored(q, u)' = Stored(q, u)
  BY <1>1, BucketUnchanged
<1>3. \A d, q : Pending(d, q)' = Pending(d, q)
  BY <1>1 DEF Pending, Target
<1>4. ASSUME NEW d \in Consumers, NEW q \in Partitions
      PROVE  /\ batchers'[d][q].range = batchers[d][q].range
             /\ batchers'[d][q].records = batchers[d][q].records
             /\ batchers'[d][q].dirty = batchers[d][q].dirty
             /\ batchers[d][q] = NoBatcher => batchers'[d][q] = NoBatcher
  <2>1. batchers[d][q] \in Batchers
    BY TypeFacts DEF IInv
  <2>2. CASE d = c
    BY <1>1, <2>1, <2>2, FlushedFacts
  <2>3. CASE d # c
    BY <1>1, <2>3
  <2> QED
    BY <2>2, <2>3
<1>5. AckedIsStored'
  BY <1>1, <1>2 DEF IInv, AckedIsStored
<1>6. ReadIsHeldOrStored'
  <2> SUFFICES ASSUME NEW q \in Partitions, owner[q] # NoOwner,
                      NEW o \in Log[q], o < position[q]
               PROVE  Stored(q, o) \/ o \in (InFlight(owner[q], q))'
    BY <1>2 DEF ReadIsHeldOrStored
  <2>1. PICK d \in Consumers : d = owner[q]
    BY DEF IInv, TypeOK
  <2>2. Stored(q, o) \/ o \in InFlight(d, q)
    BY <2>1 DEF IInv, ReadIsHeldOrStored
  <2>3. Rows(batchers[d][q])' = Rows(batchers[d][q])
    BY <1>4 DEF Rows
  <2>4. owner'[q] = d
    BY <2>1
  <2> QED
    BY <1>3, <2>1, <2>2, <2>3, <2>4 DEF InFlight, Rows, Pending
<1>7. BatchInv'
  <2> SUFFICES ASSUME NEW d \in Consumers, NEW q \in Partitions
               PROVE  /\ owner[q] = d =>
                            GoodBatch(batchers'[d][q], q, position[q], Pending(d, q),
                                      committed[q])
                      /\ owner[q] # d => batchers'[d][q] = NoBatcher
                      /\ ~ batchers'[d][q].dirty =>
                            \A o \in Rows(batchers'[d][q]) : Stored(q, o)
    BY <1>1, <1>2, <1>3 DEF BatchInv, GoodBatch, Held, Rows, Fresh
  <2> DEFINE b == batchers[d][q]
             a == batchers'[d][q]
  <2>1. /\ a.range = b.range /\ a.records = b.records /\ a.dirty = b.dirty
        /\ b = NoBatcher => a = NoBatcher
    BY <1>4
  <2>2. Held(a) = Held(b) /\ Rows(a) = Rows(b)
    BY <2>1 DEF Held, Rows
  <2>3. /\ owner[q] = d => GoodBatch(b, q, position[q], Pending(d, q), committed[q])
        /\ owner[q] # d => b = NoBatcher
        /\ ~ b.dirty => \A o \in Rows(b) : Stored(q, o)
    BY DEF IInv, BatchInv
  <2> HIDE DEF a, b
  <2>4. owner[q] = d => GoodBatch(a, q, position[q], Pending(d, q), committed[q])
    BY <2>1, <2>2, <2>3 DEF GoodBatch
  <2> QED
    BY <2>1, <2>2, <2>3, <2>4 DEF a
<1>8. PositionInv'
  BY <1>1 DEF IInv, PositionInv
<1>9. CallInv'
  <2> SUFFICES ASSUME NEW d \in Consumers
               PROVE  GoodCall(d)'
    BY DEF CallInv
  <2>1. CASE d = c
    BY <1>1, <2>1, ReadyFacts DEF GoodCall, Ready, NoCall
  <2>2. CASE d # c
    BY <1>1, <1>2, <2>2, OtherCallKept
  <2> QED
    BY <2>1, <2>2
<1> QED
  BY <1>2, <1>5, <1>6, <1>7, <1>8, <1>9 DEF IInv

LEMMA InvStep ==
    ASSUME IInv, [Next]_vars
    PROVE  IInv'
<1>0. TypeOK'
  BY TypeStep DEF IInv
<1>1. ASSUME NEW c \in Consumers, NEW ps \in SUBSET Partitions, Assign(c, ps) \/ TakeAway(c, ps)
      PROVE  IInv'
  BY <1>0, <1>1, AssignStep, TakeAwayStep
<1>2. ASSUME NEW c \in Consumers, NEW p \in Partitions, NEW o \in Log[p], Deliver(c, p, o)
      PROVE  IInv'
  BY <1>0, <1>2, DeliverStep
<1>3. ASSUME NEW c \in Consumers, IdleCheck(c)
      PROVE  IInv'
  <2>1. IdleKeys(c) \in SUBSET DirtyKeys(c)
    BY DEF IdleKeys, DirtyKeys, IsIdle
  <2> QED
    BY <1>0, <1>3, <2>1, FlushStep DEF IdleCheck, Tick, callerVars
<1>4. ASSUME NEW c \in Consumers, Shutdown(c)
      PROVE  IInv'
  <2>1. DirtyKeys(c) \in SUBSET DirtyKeys(c)
    OBVIOUS
  <2> QED
    BY <1>0, <1>4, <2>1, FlushStep DEF Shutdown, FlushAll
<1>5. ASSUME NEW c \in Consumers, Stopped(c) \/ Crash(c) \/ UploadError(c) \/ CommitError(c)
      PROVE  IInv'
  BY <1>0, <1>5, GoneStep, UploadErrorStep, CommitErrorStep
<1>6. ASSUME NEW c \in Consumers, Answered(c)
      PROVE  IInv'
  BY <1>0, <1>6, PutOkStep, PutRetriedStep, CommitOkStep DEF Answered, callerVars
<1>7. ASSUME ClockStep
      PROVE  IInv'
  <2>1. CASE NewDay
    BY <1>0, <1>7, <2>1, InvariantKept DEF NewDay, ClockStep, callerVars
  <2>2. CASE \E c \in Consumers : Elapse(c)
    BY <1>0, <1>7, <2>2, ElapseStep DEF ClockStep, callerVars
  <2> QED
    BY <1>7, <2>1, <2>2 DEF ClockStep
<1>8. ASSUME UNCHANGED vars
      PROVE  IInv'
  BY <1>0, <1>8, InvariantKept DEF vars, pipelineVars
<1> QED
  BY <1>1, <1>2, <1>3, <1>4, <1>5, <1>6, <1>7, <1>8 DEF Next

THEOREM InvariantHolds == Spec => []IInv
<1>1. Init => IInv
  BY InvInit
<1>2. IInv /\ [Next]_vars => IInv'
  BY InvStep
<1> QED
  BY <1>1, <1>2, PTL DEF Spec

-------------------------------------------------------------------------------
(* What the service promises.                                               *)

(* Every record below the committed offset is in the bucket, whatever        *)
(* crashes, retries, lost answers and reassignments there are, as long as    *)
(* the caller keeps the contract of pipeline.rs.                             *)
THEOREM AckedIsStoredAlways == Spec => []AckedIsStored
<1>1. IInv => AckedIsStored
  BY DEF IInv
<1> QED
  BY <1>1, InvariantHolds, PTL

(* What an owner has read is in the bucket, in its buffer, or the record     *)
(* that waits for a boundary flush.                                          *)
THEOREM ReadIsHeldOrStoredAlways == Spec => []ReadIsHeldOrStored
<1>1. IInv => ReadIsHeldOrStored
  BY DEF IInv
<1> QED
  BY <1>1, InvariantHolds, PTL
===============================================================================
