----------------------------- MODULE PipelineProofs -----------------------------
(***************************************************************************)
(* Facts about Pipeline whoever calls it: the ranges and types of batchers  *)
(* and calls, and what the operators on one batcher do.                     *)
(***************************************************************************)
EXTENDS Pipeline, BatchingProofs, SequenceTheorems

-------------------------------------------------------------------------------
(* Ranges of the offsets that a broker can hand out. *)

LEMMA OffsetFacts ==
    /\ Offsets \subseteq U64 /\ Offsets \subseteq Nat
    /\ RangeSize \in Sizes
    /\ MaxI64 \in Nat /\ MaxU64 \in Nat
  BY WordAssumption, PipelineAssumption DEF Offsets, U64

LEMMA RangeFacts ==
    ASSUME NEW o \in Offsets
    PROVE  /\ RangeOf(o) \in Ranges
           /\ RangeOf(o) \in BatchRanges
           /\ Contains(RangeOf(o), o)
           /\ \A u \in Offsets : Contains(RangeOf(o), u) => RangeOf(u) = RangeOf(o)
           /\ \A u \in Offsets : RangeOf(o).end < u => RangeOf(o).end < RangeOf(u).start
<1>1. RangeOf(o) \in Ranges
  BY DEF Ranges
<1>2. RangeOf(o) \in BatchRanges /\ Contains(RangeOf(o), o)
  BY OffsetFacts, ContainingHoldsOffset DEF RangeOf
<1>3. \A u \in Offsets : Contains(RangeOf(o), u) => RangeOf(u) = RangeOf(o)
  BY OffsetFacts, ContainingIsCanonical DEF RangeOf
<1>4. \A u \in Offsets : RangeOf(o).end < u => RangeOf(o).end < RangeOf(u).start
  BY OffsetFacts, RangesDoNotOverlap DEF RangeOf
<1> QED
  BY <1>1, <1>2, <1>3, <1>4

(* The same facts for a range that is known to be one. *)
LEMMA RangesFacts ==
    ASSUME NEW r \in Ranges
    PROVE  /\ r \in BatchRanges
           /\ r.start \in Nat /\ r.end \in Nat
           /\ \A u \in Offsets : Contains(r, u) => RangeOf(u) = r
           /\ \A u \in Offsets : r.end < u => r.end < RangeOf(u).start
<1>1. PICK o \in Offsets : r = RangeOf(o)
  BY DEF Ranges
<1>2. r \in BatchRanges
  BY <1>1, RangeFacts
<1> QED
  BY <1>1, <1>2, RangeFacts DEF BatchRanges, U64

-------------------------------------------------------------------------------
(* Type correctness. *)

LEMMA BatcherTypes ==
    /\ NoBatcher \in Batchers
    /\ \A b \in Batchers : /\ \A o \in Offsets : Pushed(b, o) \in Batchers
                           /\ Flushed(b) \in Batchers
                           /\ Aged(b) \in Batchers
<1>1. 0 \in Offsets /\ IdleMs \in Nat /\ 0 \in 0 .. IdleMs
  BY WordAssumption, PipelineAssumption DEF Offsets
<1>2. NoBatcher \in Batchers
  BY <1>1, RangeFacts DEF NoBatcher, Batchers
<1>3. ASSUME NEW b \in Batchers, NEW o \in Offsets PROVE Pushed(b, o) \in Batchers
  <2>1. Append(b.records, o) \in Seq(Offsets) /\ << o >> \in Seq(Offsets)
    BY DEF Batchers
  <2> QED
    BY <1>1, <2>1, RangeFacts DEF Pushed, Batchers
<1>4. ASSUME NEW b \in Batchers PROVE Flushed(b) \in Batchers
  BY <1>1 DEF Flushed, Batchers
<1>5. ASSUME NEW b \in Batchers PROVE Aged(b) \in Batchers
  BY <1>1 DEF Aged, Batchers
<1> QED
  BY <1>2, <1>3, <1>4, <1>5

LEMMA CallTypes ==
    ASSUME today \in Days
    PROVE  /\ NoCall \in Calls
           /\ \A p \in Partitions, b \in Batchers :
                 \A pending \in SUBSET Offsets, todo \in SUBSET Partitions :
                    FlushCall(p, b, pending, todo) \in Calls
<1>1. 0 \in Offsets /\ MaxAttempts \in Nat \ {0} /\ LastDay \in Nat
  BY WordAssumption, PipelineAssumption DEF Offsets
<1>2. (CHOOSE p \in Partitions : TRUE) \in Partitions
  BY PipelineAssumption
<1>3. NoName \in Names
  BY <1>1, <1>2, RangeFacts DEF NoName, Names, Days
<1>4. NoCall \in Calls
  BY <1>1, <1>3 DEF NoCall, Calls
<1>5. ASSUME NEW p \in Partitions, NEW b \in Batchers,
             NEW pending \in SUBSET Offsets, NEW todo \in SUBSET Partitions
      PROVE  FlushCall(p, b, pending, todo) \in Calls
  <2>1. ObjectName(p, today, b.range) \in Names
    BY DEF ObjectName, Names, Batchers
  <2> QED
    BY <1>1, <2>1 DEF FlushCall, Calls
<1> QED
  BY <1>4, <1>5

(* The operators that end a call keep the types of batchers and of call. *)
LEMMA ReturnTypes ==
    ASSUME PipelineTypeOK, NEW c \in Consumers, NEW bs \in [Partitions -> Batchers]
    PROVE  /\ \A p \in Partitions, o \in Offsets : PushRecord(c, bs, p, o) =>
                 /\ batchers' \in [Consumers -> [Partitions -> Batchers]]
                 /\ call' \in [Consumers -> Calls]
           /\ \A todo \in SUBSET Partitions : FlushEach(c, bs, todo) =>
                 /\ batchers' \in [Consumers -> [Partitions -> Batchers]]
                 /\ call' \in [Consumers -> Calls]
           /\ Return(c, bs) =>
                 /\ batchers' \in [Consumers -> [Partitions -> Batchers]]
                 /\ call' \in [Consumers -> Calls]
<1>1. ASSUME NEW p \in Partitions, NEW o \in Offsets, PushRecord(c, bs, p, o)
      PROVE  /\ batchers' \in [Consumers -> [Partitions -> Batchers]]
             /\ call' \in [Consumers -> Calls]
  <2>1. Pushed(bs[p], o) \in Batchers
    BY BatcherTypes
  <2>2. FlushCall(p, Pushed(bs[p], o), {}, {}) \in Calls /\ NoCall \in Calls
    BY <2>1, CallTypes DEF PipelineTypeOK
  <2> QED
    BY <1>1, <2>1, <2>2 DEF PushRecord, PipelineTypeOK
<1>2. ASSUME NEW todo \in SUBSET Partitions, FlushEach(c, bs, todo)
      PROVE  /\ batchers' \in [Consumers -> [Partitions -> Batchers]]
             /\ call' \in [Consumers -> Calls]
  <2>1. NoCall \in Calls
    BY CallTypes DEF PipelineTypeOK
  <2>2. \A p \in todo : FlushCall(p, bs[p], {}, todo \ {p}) \in Calls
    BY CallTypes DEF PipelineTypeOK
  <2> QED
    BY <1>2, <2>1, <2>2 DEF FlushEach, PipelineTypeOK
<1>3. ASSUME Return(c, bs)
      PROVE  /\ batchers' \in [Consumers -> [Partitions -> Batchers]]
             /\ call' \in [Consumers -> Calls]
  <2>1. call[c] \in Calls
    BY DEF PipelineTypeOK
  <2>2. /\ Target(c) \in Partitions
        /\ call[c].pending \in SUBSET Offsets
        /\ call[c].todo \in SUBSET Partitions
    BY <2>1 DEF Calls, Names, Target
  <2> QED
    BY <1>1, <1>2, <1>3, <2>2 DEF Return
<1> QED
  BY <1>1, <1>2, <1>3

(* What an object holds after a PUT is a batch under a name. *)
LEMMA OverwrittenTypes ==
    ASSUME PipelineTypeOK, NEW c \in Consumers
    PROVE  /\ Target(c) \in Partitions
           /\ call[c].pending \in SUBSET Offsets
           /\ call[c].todo \in SUBSET Partitions
           /\ call[c].name \in Names
           /\ call[c].name.range \in Ranges
           /\ Current(c) \in Batchers
           /\ Overwritten(call[c].name, Current(c).records)
                 \subseteq [name : Names, records : Seq(Offsets)]
<1>1. call[c] \in Calls
  BY DEF PipelineTypeOK
<1>2. /\ Target(c) \in Partitions
      /\ call[c].pending \in SUBSET Offsets
      /\ call[c].todo \in SUBSET Partitions
      /\ call[c].name \in Names
      /\ call[c].name.range \in Ranges
  BY <1>1 DEF Calls, Names, Target
<1>3. Current(c) \in Batchers
  BY <1>2 DEF Current, PipelineTypeOK
<1>4. Current(c).records \in Seq(Offsets)
  BY <1>3 DEF Batchers
<1>5. Overwritten(call[c].name, Current(c).records)
          \subseteq [name : Names, records : Seq(Offsets)]
  BY <1>2, <1>4 DEF Overwritten, PipelineTypeOK
<1> QED
  BY <1>2, <1>3, <1>5

LEMMA CommitTypes ==
    ASSUME PipelineTypeOK, NEW c \in Consumers, NextToRead(c) <= MaxI64
    PROVE  [committed EXCEPT ![Target(c)] = NextToRead(c)] \in [Partitions -> Offsets]
<1>1. call[c].name.range \in BatchRanges
  BY OverwrittenTypes, RangesFacts
<1>2. call[c].name.range.end + 1 \in Nat /\ MaxU64 + 1 \in Nat \ {0}
  BY <1>1, WordAssumption DEF BatchRanges, U64
<1>3. NextToRead(c) \in Nat
  BY <1>2 DEF NextToRead, CommitOffset
<1>4. NextToRead(c) \in Offsets
  BY <1>3, WordAssumption DEF Offsets
<1> QED
  BY <1>4 DEF PipelineTypeOK

LEMMA ExitTypes ==
    ASSUME PipelineTypeOK, NEW c \in Consumers, Exit(c)
    PROVE  /\ batchers' \in [Consumers -> [Partitions -> Batchers]]
           /\ call' \in [Consumers -> Calls]
           /\ today' \in Days
  BY BatcherTypes, CallTypes DEF Exit, PipelineTypeOK

(* Every handler of the pipeline keeps the pipeline's types. *)
LEMMA PipelineTypes ==
    ASSUME PipelineTypeOK, NEW c \in Consumers
    PROVE  /\ \A p \in Partitions, o \in Offsets : Offer(c, p, o) => PipelineTypeOK'
           /\ Tick(c) => PipelineTypeOK'
           /\ FlushAll(c) => PipelineTypeOK'
           /\ \A ps \in SUBSET Partitions : Revoke(c, ps) => PipelineTypeOK'
           /\ PutOk(c) => PipelineTypeOK'
           /\ PutRetried(c) => PipelineTypeOK'
           /\ PutFailed(c) => PipelineTypeOK'
           /\ CommitOk(c) => PipelineTypeOK'
           /\ CommitFailed(c) => PipelineTypeOK'
           /\ Elapse(c) => PipelineTypeOK'
           /\ NewDay => PipelineTypeOK'
<1> USE DEF PipelineTypeOK
<1>0. batchers[c] \in [Partitions -> Batchers] /\ call[c] \in Calls
  OBVIOUS
<1>1. ASSUME NEW p \in Partitions, NEW o \in Offsets, Offer(c, p, o)
      PROVE  PipelineTypeOK'
  <2>1. CASE MustFlushFirst(batchers[c][p], o) /\ UNCHANGED batchers
             /\ call' = [call EXCEPT ![c] = FlushCall(p, batchers[c][p], {o}, {})]
    <3>1. FlushCall(p, batchers[c][p], {o}, {}) \in Calls
      BY <1>0, CallTypes
    <3> QED
      BY <1>1, <2>1, <3>1 DEF Offer
  <2>2. CASE PushRecord(c, batchers[c], p, o)
    BY <1>0, <1>1, <2>2, ReturnTypes DEF Offer
  <2> QED
    BY <1>1, <2>1, <2>2 DEF Offer
<1>2. ASSUME Tick(c) PROVE PipelineTypeOK'
  BY <1>0, <1>2, ReturnTypes DEF Tick, IdleKeys
<1>3. ASSUME FlushAll(c) PROVE PipelineTypeOK'
  BY <1>0, <1>3, ReturnTypes DEF FlushAll, DirtyKeys
<1>4. ASSUME NEW ps \in SUBSET Partitions, Revoke(c, ps) PROVE PipelineTypeOK'
  <2>1. WithoutBatchers(c, ps) \in [Partitions -> Batchers]
    BY <1>0, BatcherTypes DEF WithoutBatchers
  <2> QED
    BY <1>4, <2>1 DEF Revoke
<1>5. ASSUME PutOk(c) PROVE PipelineTypeOK'
  <2>1. objects' \subseteq [name : Names, records : Seq(Offsets)]
    BY <1>5, OverwrittenTypes DEF PutOk
  <2>2. /\ batchers' \in [Consumers -> [Partitions -> Batchers]]
        /\ call' \in [Consumers -> Calls]
    <3>1. CASE UNCHANGED batchers /\ call' = [call EXCEPT ![c].stage = "commit"]
      BY <1>0, <3>1 DEF Calls
    <3>2. CASE Return(c, [batchers[c] EXCEPT ![Target(c)] = Flushed(@)])
      <4>1. [batchers[c] EXCEPT ![Target(c)] = Flushed(@)] \in [Partitions -> Batchers]
        BY <1>0, BatcherTypes, OverwrittenTypes
      <4> QED
        BY <3>2, <4>1, ReturnTypes
    <3> QED
      BY <1>5, <3>1, <3>2 DEF PutOk
  <2> QED
    BY <1>5, <2>1, <2>2 DEF PutOk
<1>6. ASSUME PutRetried(c) PROVE PipelineTypeOK'
  <2>1. objects' \subseteq [name : Names, records : Seq(Offsets)]
    BY <1>6, OverwrittenTypes DEF PutRetried
  <2>2. call[c].attempt + 1 \in 0 .. MaxAttempts
    BY <1>0, <1>6, PipelineAssumption DEF PutRetried, AttemptsLeft, Calls
  <2>3. call' \in [Consumers -> Calls]
    BY <1>0, <1>6, <2>2 DEF PutRetried, Calls
  <2> QED
    BY <1>6, <2>1, <2>3 DEF PutRetried
<1>7. ASSUME PutFailed(c) PROVE PipelineTypeOK'
  <2>1. objects' \subseteq [name : Names, records : Seq(Offsets)]
    BY <1>7, OverwrittenTypes DEF PutFailed
  <2> QED
    BY <1>7, <2>1, ExitTypes DEF PutFailed
<1>8. ASSUME CommitOk(c) PROVE PipelineTypeOK'
  <2>1. [batchers[c] EXCEPT ![Target(c)] = NoBatcher] \in [Partitions -> Batchers]
    BY <1>0, BatcherTypes
  <2> QED
    BY <1>8, <2>1, ReturnTypes, CommitTypes DEF CommitOk
<1>9. ASSUME CommitFailed(c) PROVE PipelineTypeOK'
  BY <1>9, ExitTypes, CommitTypes DEF CommitFailed
<1>10. ASSUME Elapse(c) PROVE PipelineTypeOK'
  BY <1>0, <1>10, BatcherTypes DEF Elapse
<1>11. ASSUME NewDay PROVE PipelineTypeOK'
  BY <1>11, PipelineAssumption DEF NewDay, Days
<1> QED
  BY <1>1, <1>2, <1>3, <1>4, <1>5, <1>6, <1>7, <1>8, <1>9, <1>10, <1>11

-------------------------------------------------------------------------------
(* Facts about one batcher. *)

LEMMA BatcherFacts ==
    ASSUME NEW b \in Batchers
    PROVE  /\ b.range \in Ranges
           /\ Rows(b) \subseteq Offsets
           /\ Held(b) => /\ b.records[Len(b.records)] \in Rows(b)
                         /\ Rows(b) # {}
           /\ ~ Held(b) => Rows(b) = {}
<1>1. b.records \in Seq(Offsets) /\ b.range \in Ranges
  BY DEF Batchers
<1>2. Rows(b) \subseteq Offsets
  BY <1>1 DEF Rows, Range
<1>3. ASSUME Held(b) PROVE Len(b.records) \in DOMAIN b.records
  BY <1>1, <1>3, EmptySeq, LenProperties DEF Held
<1>4. ~ Held(b) => Rows(b) = {}
  BY DEF Held, Rows, Range
<1> QED
  BY <1>1, <1>2, <1>3, <1>4 DEF Rows, Range

LEMMA PushedFacts ==
    ASSUME NEW b \in Batchers, NEW o \in Offsets
    PROVE  /\ Pushed(b, o).range = RangeOf(o)
           /\ Pushed(b, o).dirty
           /\ Held(Pushed(b, o))
           /\ Pushed(b, o).records[Len(Pushed(b, o).records)] = o
           /\ b.range = RangeOf(o) => Rows(Pushed(b, o)) = Rows(b) \union {o}
           /\ b.range # RangeOf(o) => Rows(Pushed(b, o)) = {o}
<1> DEFINE s == b.records
           t == Pushed(b, o).records
<1>1. s \in Seq(Offsets) /\ Len(s) \in Nat
  BY DEF Batchers
<1>2. CASE b.range = RangeOf(o)
  <2>1. t = Append(s, o)
    BY <1>2 DEF Pushed
  <2>2. /\ Len(t) = Len(s) + 1
        /\ DOMAIN t = 1 .. Len(s) + 1
        /\ \A i \in 1 .. Len(s) : t[i] = s[i]
        /\ t[Len(s) + 1] = o
    BY <1>1, <2>1
  <2>3. Range(t) = Range(s) \union {o}
    <3>1. DOMAIN s = 1 .. Len(s)
      BY <1>1
    <3>2. ASSUME NEW x \in Range(t) PROVE x \in Range(s) \union {o}
      BY <1>1, <2>2, <3>1 DEF Range
    <3>3. ASSUME NEW x \in Range(s) PROVE x \in Range(t)
      BY <1>1, <2>2, <3>1 DEF Range
    <3>4. o \in Range(t)
      BY <1>1, <2>2 DEF Range
    <3> QED
      BY <3>2, <3>3, <3>4
  <2>4. t # << >>
    BY <1>1, <2>2
  <2> QED
    BY <1>1, <1>2, <2>2, <2>3, <2>4 DEF Pushed, Held, Rows
<1>3. CASE b.range # RangeOf(o)
  <2>1. t = << o >>
    BY <1>3 DEF Pushed
  <2>2. Len(t) = 1 /\ t[1] = o /\ DOMAIN t = {1} /\ t # << >>
    BY <2>1
  <2> QED
    BY <1>3, <2>2 DEF Pushed, Held, Rows, Range
<1> QED
  BY <1>2, <1>3

(* Marking a batcher clean, or letting it age, leaves range and records. *)
LEMMA FlushedFacts ==
    ASSUME NEW b \in Batchers
    PROVE  /\ Flushed(b).range = b.range /\ Flushed(b).records = b.records
           /\ Flushed(b).dirty = FALSE
           /\ Held(Flushed(b)) = Held(b) /\ Rows(Flushed(b)) = Rows(b)
           /\ Aged(b).range = b.range /\ Aged(b).records = b.records
           /\ Aged(b).dirty = b.dirty
           /\ Held(Aged(b)) = Held(b) /\ Rows(Aged(b)) = Rows(b)
           /\ \A o \in Offsets : Pushed(Flushed(b), o) = Pushed(b, o)
           /\ Aged(NoBatcher) = NoBatcher
<1>1. Flushed(b).range = b.range /\ Flushed(b).records = b.records /\ Flushed(b).dirty = FALSE
  BY DEF Flushed, Batchers
<1>2. Aged(b).range = b.range /\ Aged(b).records = b.records /\ Aged(b).dirty = b.dirty
  BY DEF Aged, Batchers
<1>3. Aged(NoBatcher) = NoBatcher
  BY DEF Aged, NoBatcher
<1> QED
  BY <1>1, <1>2, <1>3 DEF Held, Rows, Pushed

LEMMA NoBatcherFacts ==
    /\ NoBatcher \in Batchers
    /\ ~ Held(NoBatcher)
    /\ NoBatcher.dirty = FALSE
    /\ Rows(NoBatcher) = {}
  BY BatcherTypes DEF NoBatcher, Held, Rows, Range
===============================================================================
