---------------------------- MODULE ContractProofs ----------------------------
(***************************************************************************)
(* ConsumerGroup implements SingleOwner under the two rules of CarefulSpec, *)
(* with any number of rebalances and evictions, and so inherits what is     *)
(* proved there.                                                            *)
(***************************************************************************)
EXTENDS ConsumerGroupProofs

-------------------------------------------------------------------------------
(* The state of SingleOwner, in terms of the group's. *)

(* Of buffers bs, those that process c has of its own. *)
Seen(c, bs) == [p \in Partitions |-> IF Shown(c, p) THEN bs[p] ELSE NoBatcher]

seenBatchers == [c \in Consumers |-> Seen(c, batchers[c])]
seenCall     == [c \in Consumers |-> IF c \in evicted THEN NoCall ELSE call[c]]
readAt       == [p \in Partitions |-> IF owner[p] = NoOwner THEN 0 ELSE position[owner[p]][p]]
leaving      == {c \in Consumers : phase[c] = "closing" /\ c \notin evicted}

(* Contract, together with the theorems about it. *)
Promise == INSTANCE StagingProofs WITH
    batchers <- seenBatchers, call <- seenCall, position <- readAt, closing <- leaving

(* A step that Promise does not see. *)
Stutter ==
    UNCHANGED <<seenBatchers, seenCall, objects, committed, today, owner, readAt, leaving>>

LEMMA StutterIsOne ==
    ASSUME Stutter
    PROVE  UNCHANGED Promise!vars
  BY DEF Stutter, Promise!vars, Promise!pipelineVars

-------------------------------------------------------------------------------
(* Promise's pipeline is the same program. *)

LEMMA SameBatchers ==
    /\ Promise!NoBatcher = NoBatcher
    /\ \A o : Promise!RangeOf(o) = RangeOf(o)
    /\ \A b : /\ Promise!Held(b) = Held(b)
              /\ Promise!IsFull(b) = IsFull(b)
              /\ Promise!IsIdle(b) = IsIdle(b)
              /\ Promise!CommitsAfterUpload(b) = CommitsAfterUpload(b)
              /\ Promise!Flushed(b) = Flushed(b)
              /\ Promise!Aged(b) = Aged(b)
              /\ \A o : /\ Promise!Pushed(b, o) = Pushed(b, o)
                        /\ Promise!MustFlushFirst(b, o) = MustFlushFirst(b, o)
<1>1. \A o : Promise!RangeOf(o) = RangeOf(o)
  BY DEF RangeOf, Promise!RangeOf, Containing, Promise!Containing, SaturatingAdd,
         Promise!SaturatingAdd
<1>2. \A b : Promise!Held(b) = Held(b)
  BY DEF Held, Promise!Held
<1>3. \A b : Promise!IsFull(b) = IsFull(b)
  BY <1>2 DEF IsFull, Promise!IsFull, IsComplete, Promise!IsComplete
<1> QED
  BY <1>1, <1>2, <1>3
     DEF NoBatcher, Promise!NoBatcher, IsIdle, Promise!IsIdle, CommitsAfterUpload,
         Promise!CommitsAfterUpload, Flushed, Promise!Flushed, Aged, Promise!Aged,
         Pushed, Promise!Pushed, MustFlushFirst, Promise!MustFlushFirst

LEMMA SameCalls ==
    /\ Promise!NoCall = NoCall
    /\ \A p, b, pending, todo :
          Promise!FlushCall(p, b, pending, todo) = FlushCall(p, b, pending, todo)
    /\ \A name, records : Promise!Overwritten(name, records) = Overwritten(name, records)
<1>1. Promise!NoCall = NoCall
  BY SameBatchers DEF NoCall, Promise!NoCall, NoName, Promise!NoName
<1> QED
  BY <1>1
     DEF FlushCall, Promise!FlushCall, ObjectName, Promise!ObjectName, Overwritten,
         Promise!Overwritten

-------------------------------------------------------------------------------
(* What the refinement needs besides IInv: a buffer without records is no   *)
(* entry of the map, and a process between two calls keeps nothing of the   *)
(* last one.                                                                *)

TidyBuffers(bs) == \A p \in Partitions : Held(bs[p]) \/ bs[p] = NoBatcher

Tidy(c) == TidyBuffers(batchers[c]) /\ (Ready(c) => call[c] = NoCall)

TidyInv == \A c \in Consumers : Tidy(c)

LEMMA TidyPush ==
    ASSUME TypeOK, NEW c \in Consumers, NEW bs \in [Partitions -> Batchers], TidyBuffers(bs),
           NEW p \in Partitions, NEW o \in Offsets, PushRecord(c, bs, p, o)
    PROVE  Tidy(c)'
<1> DEFINE b == Pushed(bs[p], o)
<1>1. /\ batchers'[c] = [bs EXCEPT ![p] = b]
      /\ call'[c] = IF IsFull(b) THEN FlushCall(p, b, {}, {}) ELSE NoCall
  BY DEF PushRecord, TypeOK, PipelineTypeOK
<1>2. Held(b)
  BY PushedFacts
<1> HIDE DEF b
<1>3. TidyBuffers(batchers'[c])
  BY <1>1, <1>2 DEF TidyBuffers
<1>4. Ready(c)' => call'[c] = NoCall
  BY <1>1 DEF Ready, FlushCall
<1> QED
  BY <1>3, <1>4 DEF Tidy, TidyBuffers

LEMMA TidyFlush ==
    ASSUME TypeOK, NEW c \in Consumers, NEW bs \in [Partitions -> Batchers], TidyBuffers(bs),
           NEW todo \in SUBSET Partitions, FlushEach(c, bs, todo)
    PROVE  Tidy(c)'
<1>1. batchers'[c] = bs
  BY DEF FlushEach, TypeOK, PipelineTypeOK
<1>2. Ready(c)' => call'[c] = NoCall
  BY DEF FlushEach, FlushCall, Ready, TypeOK, PipelineTypeOK
<1> QED
  BY <1>1, <1>2 DEF Tidy, TidyBuffers

LEMMA TidyReturn ==
    ASSUME TypeOK, NEW c \in Consumers, NEW bs \in [Partitions -> Batchers], TidyBuffers(bs),
           Return(c, bs)
    PROVE  Tidy(c)'
<1>1. /\ Target(c) \in Partitions
      /\ call[c].pending \in SUBSET Offsets /\ call[c].todo \in SUBSET Partitions
  BY TypeFacts
<1> QED
  BY <1>1, TidyPush, TidyFlush DEF Return

(* A step that changes the memory of one process. *)
LEMMA TidyKept ==
    ASSUME TidyInv, NEW c \in Consumers, Tidy(c)',
           \A k \in Consumers : k # c => batchers'[k] = batchers[k] /\ call'[k] = call[k]
    PROVE  TidyInv'
<1>1. ASSUME NEW k \in Consumers, k # c PROVE Tidy(k)'
  BY <1>1 DEF TidyInv, Tidy, TidyBuffers, Ready
<1> QED
  BY <1>1 DEF TidyInv

LEMMA TidyUnchanged ==
    ASSUME TidyInv, UNCHANGED <<batchers, call>>
    PROVE  TidyInv'
  BY DEF TidyInv, Tidy, TidyBuffers, Ready

LEMMA TidyLoop ==
    ASSUME IInv, TidyInv, NEW c \in Consumers, LoopStep(c)
    PROVE  TidyInv'
<1>1. TypeOK /\ batchers[c] \in [Partitions -> Batchers] /\ TidyBuffers(batchers[c])
  BY TypeFacts DEF IInv, TidyInv, Tidy
<1>2. CASE RecvError(c) \/ Signal(c)
  BY <1>2, TidyUnchanged DEF RecvError, Signal, pipelineVars
<1>3. CASE Drain(c)
  <2>1. /\ batchers' = [batchers EXCEPT ![c] = WithoutBatchers(c, revoked[c])]
        /\ UNCHANGED call
    BY <1>3 DEF Drain, Revoke
  <2>2. batchers'[c] = WithoutBatchers(c, revoked[c])
    BY <1>1, <2>1 DEF TypeOK, PipelineTypeOK
  <2>3. TidyBuffers(batchers[c])'
    BY <1>1, <2>2 DEF TidyBuffers, WithoutBatchers
  <2>4. Tidy(c)'
    BY <2>1, <2>3 DEF TidyInv, Tidy, Ready
  <2> QED
    BY <2>1, <2>4, TidyKept
<1>4. CASE TickBranch(c) \/ ShutdownBranch(c)
  <2>1. \E todo \in SUBSET Partitions : FlushEach(c, batchers[c], todo)
    <3>1. IdleKeys(c) \in SUBSET Partitions /\ DirtyKeys(c) \in SUBSET Partitions
      BY DEF IdleKeys, DirtyKeys
    <3> QED
      BY <1>4, <3>1 DEF TickBranch, ShutdownBranch, Tick, FlushAll
  <2>2. Tidy(c)'
    BY <1>1, <2>1, TidyFlush
  <2> QED
    BY <1>1, <2>1, <2>2, ReturnKeepsOthers, TidyKept
<1>5. ASSUME NEW p \in Partitions, NEW o \in Log[p], RecvBranch(c, p, o)
      PROVE  TidyInv'
  <2>1. o \in Offsets
    BY TypeFacts DEF IInv
  <2>2. CASE PushRecord(c, batchers[c], p, o)
    BY <1>1, <2>1, <2>2, TidyPush, ReturnKeepsOthers, TidyKept
  <2>3. CASE /\ UNCHANGED batchers
             /\ call' = [call EXCEPT ![c] = FlushCall(p, batchers[c][p], {o}, {})]
    <3>1. call'[c] = FlushCall(p, batchers[c][p], {o}, {})
      BY <1>1, <2>3 DEF TypeOK, PipelineTypeOK
    <3>2. Tidy(c)'
      BY <1>1, <2>3, <3>1 DEF Tidy, TidyBuffers, Ready, FlushCall
    <3> QED
      BY <2>3, <3>2, TidyKept
  <2> QED
    BY <1>5, <2>2, <2>3 DEF RecvBranch, Offer
<1> QED
  BY <1>2, <1>3, <1>4, <1>5 DEF LoopStep

LEMMA TidyExit ==
    ASSUME IInv, TidyInv, NEW c \in Consumers, Exit(c)
    PROVE  TidyInv'
<1>1. /\ batchers'[c] = [p \in Partitions |-> NoBatcher] /\ call'[c] = NoCall
      /\ \A k \in Consumers : k # c => batchers'[k] = batchers[k] /\ call'[k] = call[k]
  BY DEF Exit, IInv, TypeOK, PipelineTypeOK
<1>2. Tidy(c)'
  BY <1>1 DEF Tidy, TidyBuffers
<1> QED
  BY <1>1, <1>2, TidyKept

LEMMA TidyAnswered ==
    ASSUME IInv, TidyInv, NEW c \in Consumers, Answered(c)
    PROVE  TidyInv'
<1>1. /\ TypeOK /\ batchers[c] \in [Partitions -> Batchers] /\ TidyBuffers(batchers[c])
      /\ Target(c) \in Partitions /\ Current(c) = batchers[c][Target(c)]
  BY TypeFacts DEF IInv, TidyInv, Tidy
<1>2. ASSUME NEW bs \in [Partitions -> Batchers], TidyBuffers(bs), Return(c, bs)
      PROVE  TidyInv'
  BY <1>1, <1>2, TidyReturn, ReturnKeepsOthers, TidyKept
<1>3. ASSUME NEW stage \in {"put", "commit"}, UNCHANGED batchers, call'[c].stage = stage,
             \A k \in Consumers : k # c => call'[k] = call[k]
      PROVE  TidyInv'
  <2>1. Tidy(c)'
    BY <1>1, <1>3 DEF Tidy, TidyBuffers, Ready
  <2> QED
    BY <1>3, <2>1, TidyKept
<1>4. CASE PutOk(c)
  <2>1. CASE call' = [call EXCEPT ![c].stage = "commit"] /\ UNCHANGED batchers
    <3>1. call'[c].stage = "commit" /\ \A k \in Consumers : k # c => call'[k] = call[k]
      BY <1>1, <2>1 DEF TypeOK, PipelineTypeOK, Calls
    <3> QED
      BY <1>3, <2>1, <3>1
  <2>2. CASE Return(c, [batchers[c] EXCEPT ![Target(c)] = Flushed(@)])
    <3> DEFINE bs == [batchers[c] EXCEPT ![Target(c)] = Flushed(@)]
    <3>1. bs \in [Partitions -> Batchers]
      BY <1>1, BatcherTypes
    <3>2. Held(Flushed(Current(c)))
      BY <1>1, <1>4, TypeFacts, FlushedFacts DEF IInv, GoodCall, PutOk, Ready
    <3>3. TidyBuffers(bs)
      BY <1>1, <3>2 DEF TidyBuffers
    <3> QED
      BY <1>2, <2>2, <3>1, <3>3
  <2> QED
    BY <1>4, <2>1, <2>2 DEF PutOk
<1>5. CASE PutRetried(c)
  <2>1. call'[c].stage = "put" /\ \A k \in Consumers : k # c => call'[k] = call[k]
    BY <1>1, <1>5 DEF PutRetried, TypeOK, PipelineTypeOK, Calls
  <2> QED
    BY <1>3, <1>5, <2>1 DEF PutRetried
<1>6. CASE CommitOk(c)
  <2> DEFINE bs == [batchers[c] EXCEPT ![Target(c)] = NoBatcher]
  <2>1. bs \in [Partitions -> Batchers] /\ TidyBuffers(bs)
    BY <1>1, NoBatcherFacts DEF TidyBuffers
  <2> QED
    BY <1>2, <1>6, <2>1 DEF CommitOk
<1> QED
  BY <1>4, <1>5, <1>6 DEF Answered

LEMMA TidyStep ==
    ASSUME IInv, TidyInv, [Next]_vars
    PROVE  TidyInv'
<1>1. ASSUME NEW c \in Consumers, LoopStep(c) PROVE TidyInv'
  BY <1>1, TidyLoop
<1>2. ASSUME NEW c \in Consumers, CallStep(c) PROVE TidyInv'
  BY <1>2, TidyAnswered, TidyExit DEF CallStep, UploadError, CommitError, PutFailed, CommitFailed
<1>3. ASSUME NEW c \in Consumers, Stopped(c) \/ Crash(c) PROVE TidyInv'
  BY <1>3, TidyExit DEF Stopped, Crash
<1>4. ASSUME NEW c \in Consumers, GroupStep(c) \/ Restart(c) PROVE TidyInv'
  BY <1>4, TidyUnchanged DEF GroupStep, Revocation, Eviction, Assignment, Restart, pipelineVars
<1>5. ASSUME NEW c \in Consumers, Elapse(c) PROVE TidyInv'
  <2>1. /\ \A p \in Partitions : batchers'[c][p] = Aged(batchers[c][p])
        /\ \A k \in Consumers : k # c => batchers'[k] = batchers[k]
        /\ UNCHANGED call
    BY <1>5 DEF Elapse, IInv, TypeOK, PipelineTypeOK
  <2>2. \A p \in Partitions : batchers[c][p] \in Batchers
    BY TypeFacts DEF IInv
  <2>3. TidyBuffers(batchers[c])'
    BY <2>1, <2>2, FlushedFacts DEF TidyInv, Tidy, TidyBuffers
  <2>4. Tidy(c)'
    BY <2>1, <2>3 DEF TidyInv, Tidy, Ready
  <2> QED
    BY <2>1, <2>4, TidyKept
<1>6. CASE NewDay \/ UNCHANGED vars
  BY <1>6, TidyUnchanged DEF NewDay, vars, pipelineVars
<1> QED
  BY <1>1, <1>2, <1>3, <1>4, <1>5, <1>6 DEF Next, ClockStep

-------------------------------------------------------------------------------
(* What a process that was not evicted does with its own partitions is seen. *)

(* Between two calls, and in a call, nothing is done for a partition whose  *)
(* revocation waits to be drained.                                          *)
BusyIsOwn == \A c \in Consumers : Busy(c) \intersect revoked[c] = {}

GroupStays == UNCHANGED <<owner, revoked, evicted>>

LEMMA OwnFacts ==
    ASSUME IInv, NEW c \in Consumers, c \notin evicted, NEW p \in Partitions
    PROVE  /\ owner[p] = c <=> p \in assigned[c]
           /\ Shown(c, p) => seenBatchers[c][p] = batchers[c][p] /\ readAt[p] = position[c][p]
           /\ Held(batchers[c][p]) /\ p \notin revoked[c] => Shown(c, p)
<1>1. owner[p] = c <=> p \in assigned[c]
  BY DEF IInv, OwnerInv
<1>2. Held(batchers[c][p]) => p \in assigned[c] \union revoked[c]
  BY DEF IInv, GoodBuffer
<1> QED
  BY <1>1, <1>2, GroupAssumption DEF Shown, seenBatchers, Seen, readAt

LEMMA BusyFacts ==
    ASSUME IInv, BusyIsOwn, NEW c \in Consumers, c \notin evicted, ~ Ready(c)
    PROVE  Shown(c, Target(c)) /\ \A p \in call[c].todo : Shown(c, p)
<1>1. Target(c) \in Partitions /\ call[c].todo \in SUBSET Partitions
  BY TypeFacts DEF IInv
<1>2. Held(batchers[c][Target(c)]) /\ \A p \in call[c].todo : Held(batchers[c][p])
  BY DEF IInv, GoodCall, Current
<1>3. Target(c) \notin revoked[c] /\ \A p \in call[c].todo : p \notin revoked[c]
  BY DEF BusyIsOwn, Busy
<1> QED
  BY <1>1, <1>2, <1>3, OwnFacts

LEMMA SeenCalls ==
    ASSUME NEW c \in Consumers, c \notin evicted
    PROVE  /\ seenCall[c] = call[c]
           /\ Promise!Ready(c) = Ready(c)
           /\ Promise!Target(c) = Target(c)
           /\ Promise!AttemptsLeft(c) = AttemptsLeft(c)
           /\ Promise!NextToRead(c) = NextToRead(c)
<1>1. seenCall[c] = call[c]
  BY DEF seenCall
<1> QED
  BY <1>1 DEF Ready, Promise!Ready, Target, Promise!Target, AttemptsLeft,
              Promise!AttemptsLeft, NextToRead, Promise!NextToRead, CommitOffset,
              Promise!CommitOffset

LEMMA SeenMemory ==
    ASSUME TypeOK, NEW c \in Consumers, NEW bs, batchers' = [batchers EXCEPT ![c] = bs],
           UNCHANGED <<owner, revoked>>
    PROVE  seenBatchers' = [seenBatchers EXCEPT ![c] = Seen(c, bs)]
<1>1. batchers'[c] = bs /\ \A k \in Consumers : k # c => batchers'[k] = batchers[k]
  BY DEF TypeOK, PipelineTypeOK
<1>2. \A k \in Consumers, p \in Partitions : Shown(k, p)' = Shown(k, p)
  BY DEF Shown
<1>3. seenBatchers' = [k \in Consumers |-> Seen(k, batchers'[k])]
  BY <1>2 DEF seenBatchers, Seen
<1>4. \A k \in Consumers : Seen(k, batchers'[k]) = IF k = c THEN Seen(c, bs) ELSE seenBatchers[k]
  BY <1>1 DEF seenBatchers
<1>5. seenBatchers = [k \in Consumers |-> seenBatchers[k]]
  BY DEF seenBatchers
<1> QED
  BY <1>3, <1>4, <1>5

LEMMA SeenProgress ==
    ASSUME TypeOK, NEW c \in Consumers, c \notin evicted, NEW k,
           call' = [call EXCEPT ![c] = k], UNCHANGED evicted
    PROVE  seenCall' = [seenCall EXCEPT ![c] = k]
  BY DEF seenCall, TypeOK, PipelineTypeOK

LEMMA FlushIsFlush ==
    ASSUME TypeOK, GroupStays, NEW c \in Consumers, c \notin evicted, NEW bs,
           NEW todo \in SUBSET Partitions, \A p \in todo : Shown(c, p), FlushEach(c, bs, todo)
    PROVE  Promise!FlushEach(c, Seen(c, bs), todo)
<1>1. seenBatchers' = [seenBatchers EXCEPT ![c] = Seen(c, bs)]
  BY SeenMemory DEF FlushEach, GroupStays
<1>2. CASE todo = {} /\ call' = [call EXCEPT ![c] = NoCall]
  BY <1>1, <1>2, SeenProgress, SameCalls DEF GroupStays, Promise!FlushEach
<1>3. ASSUME NEW p \in todo, call' = [call EXCEPT ![c] = FlushCall(p, bs[p], {}, todo \ {p})]
      PROVE  Promise!FlushEach(c, Seen(c, bs), todo)
  <2>1. Seen(c, bs)[p] = bs[p]
    BY DEF Seen
  <2>2. seenCall' = [seenCall EXCEPT ![c] = FlushCall(p, bs[p], {}, todo \ {p})]
    BY <1>3, SeenProgress DEF GroupStays
  <2> QED
    BY <1>1, <2>1, <2>2, SameCalls DEF Promise!FlushEach
<1> QED
  BY <1>2, <1>3 DEF FlushEach

LEMMA PushIsPush ==
    ASSUME TypeOK, GroupStays, NEW c \in Consumers, c \notin evicted,
           NEW bs \in [Partitions -> Batchers], NEW p \in Partitions, NEW o, Shown(c, p),
           PushRecord(c, bs, p, o)
    PROVE  Promise!PushRecord(c, Seen(c, bs), p, o)
<1> DEFINE b == Pushed(bs[p], o)
           k == IF IsFull(b) THEN FlushCall(p, b, {}, {}) ELSE NoCall
<1>1. batchers' = [batchers EXCEPT ![c] = [bs EXCEPT ![p] = b]] /\ call' = [call EXCEPT ![c] = k]
  BY DEF PushRecord
<1>2. Seen(c, bs)[p] = bs[p]
  BY DEF Seen
<1> HIDE DEF b
<1>3. Seen(c, [bs EXCEPT ![p] = b]) = [Seen(c, bs) EXCEPT ![p] = b]
  BY DEF Seen
<1>4. seenBatchers' = [seenBatchers EXCEPT ![c] = [Seen(c, bs) EXCEPT ![p] = b]]
  BY <1>1, <1>3, SeenMemory DEF GroupStays
<1>5. seenCall' = [seenCall EXCEPT ![c] = k]
  <2> HIDE DEF k
  <2> QED
    BY <1>1, SeenProgress DEF GroupStays
<1>6. Promise!Pushed(Seen(c, bs)[p], o) = b /\ Promise!IsFull(b) = IsFull(b)
  BY <1>2, SameBatchers DEF b
<1>7. Promise!FlushCall(p, b, {}, {}) = FlushCall(p, b, {}, {}) /\ Promise!NoCall = NoCall
  BY SameCalls
<1> QED
  BY <1>4, <1>5, <1>6, <1>7 DEF Promise!PushRecord

LEMMA ReturnIsReturn ==
    ASSUME IInv, BusyIsOwn, GroupStays, NEW c \in Consumers, c \notin evicted, ~ Ready(c),
           NEW bs \in [Partitions -> Batchers], Return(c, bs)
    PROVE  Promise!Return(c, Seen(c, bs))
<1>1. /\ TypeOK /\ Target(c) \in Partitions /\ call[c].todo \in SUBSET Partitions
      /\ seenCall[c] = call[c] /\ Promise!Target(c) = Target(c)
  BY TypeFacts, SeenCalls DEF IInv
<1>2. ASSUME NEW o \in call[c].pending, PushRecord(c, bs, Target(c), o)
      PROVE  Promise!Return(c, Seen(c, bs))
  BY <1>1, <1>2, PushIsPush, BusyFacts DEF Promise!Return
<1>3. CASE call[c].pending = {} /\ FlushEach(c, bs, call[c].todo)
  BY <1>1, <1>3, FlushIsFlush, BusyFacts DEF Promise!Return
<1> QED
  BY <1>2, <1>3 DEF Return
-------------------------------------------------------------------------------
(* An evicted process is not seen at all. *)

(* A step of process c changes nothing of another process. *)
StepOf(c) ==
    \A k \in Consumers : k # c =>
        /\ batchers'[k] = batchers[k] /\ call'[k] = call[k]
        /\ position'[k] = position[k] /\ phase'[k] = phase[k]
        /\ revoked'[k] = revoked[k]
        /\ k \in evicted' <=> k \in evicted

LEMMA OwnMemory ==
    ASSUME TypeOK, NEW c \in Consumers,
           \/ Tick(c) \/ FlushAll(c) \/ Revoke(c, revoked[c]) \/ Exit(c) \/ Elapse(c)
           \/ PutOk(c) \/ PutRetried(c) \/ CommitOk(c)
           \/ \E p \in Partitions : \E o \in Log[p] : Offer(c, p, o)
    PROVE  \A k \in Consumers : k # c => batchers'[k] = batchers[k] /\ call'[k] = call[k]
<1>1. /\ batchers[c] \in [Partitions -> Batchers] /\ Target(c) \in Partitions
      /\ \A p \in Partitions : Log[p] \subseteq Offsets
      /\ Current(c) = batchers[c][Target(c)]
  BY TypeFacts DEF Current
<1>2. CASE Revoke(c, revoked[c]) \/ Exit(c) \/ Elapse(c) \/ PutRetried(c)
  BY <1>2 DEF Revoke, Exit, Elapse, PutRetried, TypeOK, PipelineTypeOK
<1>3. CASE Tick(c) \/ FlushAll(c)
  <2>1. IdleKeys(c) \in SUBSET Partitions /\ DirtyKeys(c) \in SUBSET Partitions
    BY DEF IdleKeys, DirtyKeys
  <2> QED
    BY <1>1, <1>3, <2>1, ReturnKeepsOthers DEF Tick, FlushAll
<1>4. ASSUME NEW p \in Partitions, NEW o \in Log[p], Offer(c, p, o)
      PROVE  \A k \in Consumers : k # c => batchers'[k] = batchers[k] /\ call'[k] = call[k]
  <2>1. CASE PushRecord(c, batchers[c], p, o)
    BY <1>1, <2>1, ReturnKeepsOthers
  <2>2. CASE /\ UNCHANGED batchers
             /\ call' = [call EXCEPT ![c] = FlushCall(p, batchers[c][p], {o}, {})]
    BY <2>2 DEF TypeOK, PipelineTypeOK
  <2> QED
    BY <1>4, <2>1, <2>2 DEF Offer
<1>5. CASE PutOk(c)
  <2>1. CASE UNCHANGED batchers /\ call' = [call EXCEPT ![c].stage = "commit"]
    BY <2>1 DEF TypeOK, PipelineTypeOK
  <2>2. CASE Return(c, [batchers[c] EXCEPT ![Target(c)] = Flushed(@)])
    <3>1. [batchers[c] EXCEPT ![Target(c)] = Flushed(@)] \in [Partitions -> Batchers]
      BY <1>1, BatcherTypes
    <3> QED
      BY <2>2, <3>1, ReturnKeepsOthers
  <2> QED
    BY <1>5, <2>1, <2>2 DEF PutOk
<1>6. CASE CommitOk(c)
  <2>1. [batchers[c] EXCEPT ![Target(c)] = NoBatcher] \in [Partitions -> Batchers]
    BY <1>1, BatcherTypes
  <2> QED
    BY <1>6, <2>1, ReturnKeepsOthers DEF CommitOk
<1> QED
  BY <1>2, <1>3, <1>4, <1>5, <1>6

LEMMA GoneOfOne ==
    ASSUME TypeOK, NEW c \in Consumers, Exit(c), Gone(c)
    PROVE  /\ StepOf(c) /\ call'[c] = NoCall /\ phase'[c] = "down"
           /\ Owned(c) = {} => UNCHANGED owner
<1>1. /\ call'[c] = NoCall
      /\ \A k \in Consumers : k # c => batchers'[k] = batchers[k] /\ call'[k] = call[k]
  BY OwnMemory DEF Exit, TypeOK, PipelineTypeOK
<1>2. /\ phase'[c] = "down"
      /\ \A k \in Consumers : k # c =>
            /\ position'[k] = position[k] /\ phase'[k] = phase[k]
            /\ revoked'[k] = revoked[k]
            /\ k \in evicted' <=> k \in evicted
  BY DEF Gone, GoTo, TypeOK
<1>3. Owned(c) = {} => UNCHANGED owner
  BY DEF Gone, Owned, TypeOK
<1> QED
  BY <1>1, <1>2, <1>3 DEF StepOf

LEMMA LoopOfOne ==
    ASSUME TypeOK, NEW c \in Consumers, LoopStep(c)
    PROVE  StepOf(c) /\ UNCHANGED <<objects, committed, today, owner, evicted>>
<1>1. \A k \in Consumers : k # c => batchers'[k] = batchers[k] /\ call'[k] = call[k]
  BY OwnMemory DEF LoopStep, Drain, TickBranch, RecvError, Signal, ShutdownBranch, RecvBranch,
                   pipelineVars
<1>2. UNCHANGED <<objects, committed, today, owner, evicted>>
  BY DEF LoopStep, Drain, TickBranch, RecvError, Signal, ShutdownBranch, RecvBranch,
         Revoke, Tick, FlushAll, Offer, pipelineVars, groupVars
<1>3. \A k \in Consumers : k # c =>
          position'[k] = position[k] /\ phase'[k] = phase[k] /\ revoked'[k] = revoked[k]
  BY DEF LoopStep, Drain, TickBranch, RecvError, Signal, ShutdownBranch, RecvBranch,
         GoTo, groupVars, TypeOK
<1> QED
  BY <1>1, <1>2, <1>3 DEF StepOf

LEMMA UnseenStepOfEvicted ==
    ASSUME IInv, NEW c \in evicted, StepOf(c), UNCHANGED <<objects, committed, today, owner>>,
           c \in evicted' \/ (call'[c] = NoCall /\ phase'[c] # "closing")
    PROVE  Stutter
<1>1. c \in Consumers /\ \A p \in Partitions : owner[p] # c
  BY DEF IInv, OwnerInv, TypeOK
<1>2. \A k \in Consumers, p \in Partitions : Shown(k, p)' = Shown(k, p)
  BY <1>1 DEF Shown, StepOf
<1>3. ASSUME NEW k \in Consumers PROVE Seen(k, batchers[k])' = Seen(k, batchers[k])
  <2>1. CASE k = c
    BY <1>1, <1>2, <2>1 DEF Seen, Shown
  <2>2. CASE k # c
    BY <1>2, <2>2 DEF Seen, StepOf
  <2> QED
    BY <2>1, <2>2
<1>4. UNCHANGED seenBatchers
  BY <1>3 DEF seenBatchers
<1>5. UNCHANGED seenCall /\ UNCHANGED leaving
  BY DEF seenCall, leaving, StepOf
<1>6. UNCHANGED readAt
  BY <1>1, GroupAssumption DEF readAt, StepOf, IInv, TypeOK
<1> QED
  BY <1>4, <1>5, <1>6 DEF Stutter

(* An answer from the bucket is a step of its call, never a stutter. *)
LEMMA AnswerMovesCall ==
    ASSUME IInv, NEW c \in Consumers, PutOk(c) \/ PutRetried(c) \/ PutFailed(c)
    PROVE  call'[c] # call[c]
<1>1. call[c].stage = "put" /\ ~ Ready(c) /\ call[c] \in Calls /\ call \in [Consumers -> Calls]
  BY DEF PutOk, PutRetried, PutFailed, Ready, IInv, TypeOK, PipelineTypeOK
<1>2. CASE PutRetried(c)
  <2>1. call'[c].attempt = call[c].attempt + 1 /\ call[c].attempt \in Nat
    BY <1>1, <1>2, PipelineAssumption DEF PutRetried, Calls
  <2> QED
    BY <2>1
<1>3. CASE PutFailed(c)
  <2>1. call'[c].stage = "idle"
    BY <1>1, <1>3 DEF PutFailed, Exit, NoCall
  <2> QED
    BY <1>1, <2>1
<1>4. CASE PutOk(c)
  <2>1. CASE call' = [call EXCEPT ![c].stage = "commit"]
    <3>1. call'[c].stage = "commit"
      BY <1>1, <2>1 DEF Calls
    <3> QED
      BY <1>1, <3>1
  <2>2. ASSUME NEW bs, NEW o \in call[c].pending, PushRecord(c, bs, Target(c), o)
        PROVE  call'[c] # call[c]
    <3>1. call'[c].pending = {}
      BY <1>1, <2>2 DEF PushRecord, FlushCall, NoCall
    <3> QED
      BY <2>2, <3>1
  <2>3. ASSUME NEW bs, FlushEach(c, bs, call[c].todo)
        PROVE  call'[c] # call[c]
    <3>1. CASE call' = [call EXCEPT ![c] = NoCall]
      BY <1>1, <3>1 DEF NoCall
    <3>2. ASSUME NEW p \in call[c].todo,
                 call' = [call EXCEPT ![c] = FlushCall(p, bs[p], {}, call[c].todo \ {p})]
          PROVE  call'[c] # call[c]
      <4>1. call'[c].name.partition = p
        BY <1>1, <3>2 DEF FlushCall, ObjectName
      <4>2. p # Target(c)
        BY <1>1, <3>2 DEF IInv, GoodCall
      <4> QED
        BY <4>1, <4>2 DEF Target
    <3> QED
      BY <2>3, <3>1, <3>2 DEF FlushEach
  <2> QED
    BY <1>4, <2>1, <2>2, <2>3 DEF PutOk, Return
<1> QED
  BY <1>2, <1>3, <1>4

LEMMA EvictedStep ==
    ASSUME IInv, TidyInv, OwnersWrite, NEW c \in evicted,
           \/ LoopStep(c) \/ CallStep(c) \/ Revocation(c)
           \/ Stopped(c) \/ Crash(c) \/ Restart(c)
           \/ Elapse(c) /\ UNCHANGED <<loopVars, groupVars>>
    PROVE  Stutter
<1>1. c \in Consumers /\ TypeOK /\ Owned(c) = {}
  BY DEF IInv, OwnerInv, TypeOK, Owned
<1>2. CASE LoopStep(c)
  BY <1>1, <1>2, LoopOfOne, UnseenStepOfEvicted
<1>3. ASSUME PutOk(c) \/ PutRetried(c) \/ PutFailed(c)
      PROVE  UNCHANGED objects
  <2>1. owner[Target(c)] # c
    BY <1>1, TypeFacts DEF Owned
  <2> QED
    BY <1>1, <1>3, <2>1, AnswerMovesCall DEF OwnersWrite
<1>4. CASE Answered(c)
  <2>1. PutOk(c) \/ PutRetried(c)
    BY <1>4 DEF Answered, CommitIsTaken
  <2>2. UNCHANGED <<objects, committed, today, owner, evicted>>
    BY <1>3, <1>4, <2>1 DEF Answered, PutOk, PutRetried, groupVars
  <2>3. StepOf(c)
    BY <1>1, <1>4, <2>1, OwnMemory DEF Answered, loopVars, groupVars, StepOf
  <2> QED
    BY <2>2, <2>3, UnseenStepOfEvicted
<1>5. ASSUME Exit(c), Gone(c), UNCHANGED <<objects, committed>>
      PROVE  Stutter
  BY <1>1, <1>5, GoneOfOne, UnseenStepOfEvicted DEF Exit
<1>6. CASE UploadError(c)
  BY <1>3, <1>5, <1>6 DEF UploadError, PutFailed
<1>7. CASE CommitError(c)
  BY <1>5, <1>7 DEF CommitError, CommitFailed, CommitIsTaken
<1>8. CASE Stopped(c) \/ Crash(c)
  BY <1>5, <1>8 DEF Stopped, Crash
<1>9. CASE Revocation(c)
  <2>1. /\ phase[c] = "select" /\ UNCHANGED <<pipelineVars, phase>>
        /\ owner' = [p \in Partitions |-> IF owner[p] = c THEN NoOwner ELSE owner[p]]
    BY <1>9 DEF Revocation, Polls
  <2>2. call'[c] = NoCall /\ phase'[c] # "closing" /\ UNCHANGED <<objects, committed, today>>
    BY <1>1, <2>1, NoCallInSelect DEF TidyInv, Tidy, pipelineVars
  <2>3. UNCHANGED owner
    BY <1>1, <2>1 DEF Owned, TypeOK
  <2>4. StepOf(c)
    BY <1>1, <1>9 DEF Revocation, Forwarded, pipelineVars, StepOf, TypeOK
  <2> QED
    BY <2>2, <2>3, <2>4, UnseenStepOfEvicted
<1>10. CASE Restart(c)
  <2>1. StepOf(c) /\ UNCHANGED <<objects, committed, today, owner, evicted>>
    BY <1>1, <1>10 DEF Restart, GoTo, pipelineVars, groupVars, StepOf, TypeOK
  <2> QED
    BY <2>1, UnseenStepOfEvicted
<1>11. CASE Elapse(c) /\ UNCHANGED <<loopVars, groupVars>>
  <2>1. StepOf(c) /\ UNCHANGED <<objects, committed, today, owner, evicted>>
    BY <1>1, <1>11, OwnMemory DEF Elapse, loopVars, groupVars, StepOf
  <2> QED
    BY <2>1, UnseenStepOfEvicted
<1> QED
  BY <1>2, <1>4, <1>6, <1>7, <1>8, <1>9, <1>10, <1>11 DEF CallStep
-------------------------------------------------------------------------------
(* Refinement: the steps of the loop. *)

(* Where nothing is assigned or read, the positions stay. *)
LEMMA SameReading ==
    ASSUME UNCHANGED <<owner, position>>
    PROVE  UNCHANGED readAt
  BY DEF readAt

LEMMA SameLeaving ==
    ASSUME TypeOK, NEW c \in Consumers, NEW where, GoTo(c, where), UNCHANGED evicted,
           phase[c] # "closing", where # "closing"
    PROVE  UNCHANGED leaving
  BY DEF TypeOK, GoTo, leaving

LEMMA DrainIsUnseen ==
    ASSUME IInv, NEW c \in Consumers, Drain(c)
    PROVE  Stutter
<1>1. /\ batchers' = [batchers EXCEPT ![c] = WithoutBatchers(c, revoked[c])]
      /\ revoked' = [revoked EXCEPT ![c] = {}]
      /\ UNCHANGED <<call, objects, committed, today, owner, position, evicted>>
      /\ GoTo(c, "select") /\ phase[c] = "top"
  BY DEF Drain, Revoke, groupVars
<1>2. /\ \A k \in Consumers : k # c => batchers'[k] = batchers[k] /\ revoked'[k] = revoked[k]
      /\ batchers'[c] = WithoutBatchers(c, revoked[c]) /\ revoked'[c] = {}
  BY <1>1 DEF IInv, TypeOK, PipelineTypeOK
<1>3. ASSUME NEW k \in Consumers PROVE Seen(k, batchers[k])' = Seen(k, batchers[k])
  <2>1. CASE k = c
    <3>1. \A p \in Partitions :
              batchers'[c][p] = IF p \in revoked[c] THEN NoBatcher ELSE batchers[c][p]
      BY <1>2 DEF WithoutBatchers
    <3> QED
      BY <1>1, <1>2, <2>1, <3>1 DEF Seen, Shown
  <2>2. CASE k # c
    BY <1>1, <1>2, <2>2 DEF Seen, Shown
  <2> QED
    BY <2>1, <2>2
<1>4. UNCHANGED seenBatchers
  BY <1>3 DEF seenBatchers
<1>5. UNCHANGED seenCall
  BY <1>1 DEF seenCall
<1> QED
  BY <1>1, <1>4, <1>5, SameReading, SameLeaving DEF Stutter, IInv

LEMMA UnseenStep ==
    ASSUME IInv, NEW c \in Consumers, RecvError(c) \/ Signal(c) \/ Restart(c)
    PROVE  Stutter
<1>1. UNCHANGED <<pipelineVars, owner, position, evicted, revoked>>
  BY DEF RecvError, Signal, Restart, groupVars
<1>2. UNCHANGED leaving
  <2>1. CASE Signal(c)
    BY <1>1, <2>1 DEF Signal, leaving
  <2>2. CASE RecvError(c) \/ Restart(c)
    BY <1>1, <2>2, SameLeaving DEF RecvError, Polls, Restart, IInv
  <2> QED
    BY <2>1, <2>2
<1>3. UNCHANGED seenBatchers
  BY <1>1 DEF seenBatchers, Seen, Shown, pipelineVars
<1>4. UNCHANGED seenCall
  BY <1>1 DEF seenCall, pipelineVars
<1> QED
  BY <1>1, <1>2, <1>3, <1>4, SameReading DEF Stutter, pipelineVars

LEMMA BusyAfterFlush ==
    ASSUME TypeOK, NEW c \in Consumers, NEW bs, NEW todo \in SUBSET Partitions,
           FlushEach(c, bs, todo)
    PROVE  Busy(c)' = todo
<1>1. CASE todo = {} /\ call' = [call EXCEPT ![c] = NoCall]
  BY <1>1 DEF Busy, Ready, NoCall, TypeOK, PipelineTypeOK
<1>2. ASSUME NEW p \in todo, call' = [call EXCEPT ![c] = FlushCall(p, bs[p], {}, todo \ {p})]
      PROVE  Busy(c)' = todo
  <2>1. call'[c] = FlushCall(p, bs[p], {}, todo \ {p})
    BY <1>2 DEF TypeOK, PipelineTypeOK
  <2>2. ~ Ready(c)' /\ Target(c)' = p /\ call'[c].todo = todo \ {p}
    BY <2>1 DEF Ready, Target, FlushCall, ObjectName
  <2> QED
    BY <1>2, <2>2 DEF Busy
<1> QED
  BY <1>1, <1>2 DEF FlushEach

(* Under the rules the loop flushes partitions of its own only. *)
LEMMA FlushesOwn ==
    ASSUME IInv, DrainedFirst, NEW c \in Consumers, c \notin evicted, UNCHANGED revoked,
           NEW todo \in SUBSET DirtyKeys(c), FlushEach(c, batchers[c], todo)
    PROVE  \A p \in todo : Shown(c, p)
<1>1. todo \in SUBSET Partitions /\ \A p \in todo : Held(batchers[c][p])
  BY DEF DirtyKeys, IInv, GoodBuffer
<1>2. Busy(c)' = todo
  BY <1>1, BusyAfterFlush DEF IInv
<1>3. \A p \in todo : p \notin revoked[c]
  BY <1>2 DEF DrainedFirst
<1> QED
  BY <1>1, <1>3, OwnFacts

(* Buffers that are not seen are not flushed. *)
LEMMA SeenKeys ==
    ASSUME IInv, NEW c \in Consumers, c \notin evicted
    PROVE  /\ (\A p \in IdleKeys(c) : Shown(c, p)) => Promise!IdleKeys(c) = IdleKeys(c)
           /\ (\A p \in DirtyKeys(c) : Shown(c, p)) => Promise!DirtyKeys(c) = DirtyKeys(c)
           /\ IdleKeys(c) \subseteq DirtyKeys(c)
<1>1. \A p \in Partitions :
          seenBatchers[c][p] = IF Shown(c, p) THEN batchers[c][p] ELSE NoBatcher
  BY DEF seenBatchers, Seen
<1>2. ~ NoBatcher.dirty /\ ~ IsIdle(NoBatcher)
  BY NoBatcherFacts DEF IsIdle
<1>3. \A p \in Partitions : Promise!IsIdle(seenBatchers[c][p]) = IsIdle(seenBatchers[c][p])
  BY SameBatchers
<1>4. ASSUME \A p \in IdleKeys(c) : Shown(c, p)
      PROVE  Promise!IdleKeys(c) = IdleKeys(c)
  BY <1>1, <1>2, <1>3, <1>4 DEF IdleKeys, Promise!IdleKeys
<1>5. ASSUME \A p \in DirtyKeys(c) : Shown(c, p)
      PROVE  Promise!DirtyKeys(c) = DirtyKeys(c)
  BY <1>1, <1>2, <1>5 DEF DirtyKeys, Promise!DirtyKeys
<1> QED
  BY <1>4, <1>5 DEF IdleKeys, DirtyKeys, IsIdle

LEMMA TickIsIdleCheck ==
    ASSUME IInv, TidyInv, DrainedFirst, NEW c \in Consumers, c \notin evicted, TickBranch(c)
    PROVE  Promise!IdleCheck(c) \/ Stutter
<1>1. /\ FlushEach(c, batchers[c], IdleKeys(c)) /\ Ready(c) /\ c \notin leaving
      /\ UNCHANGED <<objects, committed, today, owner, position, revoked, evicted>>
      /\ UNCHANGED <<readAt, leaving>>
  BY SameReading, SameLeaving
     DEF TickBranch, Polls, Tick, groupVars, leaving, IInv
<1>2. IdleKeys(c) \in SUBSET DirtyKeys(c) /\ IdleKeys(c) \in SUBSET Partitions
  BY SeenKeys DEF IdleKeys
<1>3. \A p \in IdleKeys(c) : Shown(c, p)
  BY <1>1, <1>2, FlushesOwn
<1>4. CASE IdleKeys(c) # {}
  <2>1. Promise!FlushEach(c, Seen(c, batchers[c]), IdleKeys(c))
    BY <1>1, <1>2, <1>3, FlushIsFlush DEF GroupStays, IInv
  <2>2. Seen(c, batchers[c]) = seenBatchers[c] /\ Promise!IdleKeys(c) = IdleKeys(c)
    BY <1>3, SeenKeys DEF seenBatchers
  <2>3. Promise!Tick(c)
    BY <1>1, <2>1, <2>2, SeenCalls DEF Promise!Tick
  <2> QED
    BY <1>1, <1>4, <2>2, <2>3 DEF Promise!IdleCheck, Promise!callerVars
<1>5. CASE IdleKeys(c) = {}
  <2>1. batchers' = [batchers EXCEPT ![c] = batchers[c]] /\ call' = [call EXCEPT ![c] = NoCall]
    BY <1>1, <1>5 DEF FlushEach
  <2>2. call[c] = NoCall
    BY <1>1 DEF TidyInv, Tidy
  <2>3. UNCHANGED <<batchers, call>>
    BY <2>1, <2>2 DEF IInv, TypeOK, PipelineTypeOK
  <2>4. UNCHANGED seenBatchers
    BY <1>1, <2>3 DEF seenBatchers, Seen, Shown
  <2>5. UNCHANGED seenCall
    BY <1>1, <2>3 DEF seenCall
  <2> QED
    BY <1>1, <2>4, <2>5 DEF Stutter
<1> QED
  BY <1>4, <1>5

LEMMA ShutdownIsShutdown ==
    ASSUME IInv, DrainedFirst, NEW c \in Consumers, c \notin evicted, ShutdownBranch(c)
    PROVE  Promise!Shutdown(c)
<1>1. /\ FlushEach(c, batchers[c], DirtyKeys(c)) /\ Ready(c)
      /\ GoTo(c, "closing") /\ phase[c] = "select"
      /\ UNCHANGED <<objects, committed, today, owner, position, revoked, evicted, readAt>>
  BY SameReading DEF ShutdownBranch, FlushAll, AfterShutdown, groupVars
<1>2. DirtyKeys(c) \in SUBSET Partitions /\ \A p \in DirtyKeys(c) : Shown(c, p)
  BY <1>1, FlushesOwn DEF DirtyKeys
<1>3. Promise!FlushEach(c, Seen(c, batchers[c]), DirtyKeys(c))
  BY <1>1, <1>2, FlushIsFlush DEF GroupStays, IInv
<1>4. Seen(c, batchers[c]) = seenBatchers[c] /\ Promise!DirtyKeys(c) = DirtyKeys(c)
  BY <1>2, SeenKeys DEF seenBatchers
<1>5. Promise!FlushAll(c)
  BY <1>1, <1>3, <1>4, SeenCalls DEF Promise!FlushAll
<1>6. c \notin leaving /\ leaving' = leaving \union {c}
  BY <1>1 DEF GoTo, leaving, IInv, TypeOK
<1> QED
  BY <1>1, <1>5, <1>6 DEF Promise!Shutdown

LEMMA RecvIsDeliver ==
    ASSUME IInv, DrainedFirst, NEW c \in Consumers, c \notin evicted,
           NEW p \in Partitions, NEW o \in Log[p], RecvBranch(c, p, o)
    PROVE  Promise!Deliver(c, p, o)
<1>1. /\ p \in assigned[c] /\ c \notin leaving /\ IsNext(c, p, o) /\ Offer(c, p, o)
      /\ position' = [position EXCEPT ![c][p] = o + 1] /\ GroupStays
      /\ UNCHANGED <<assigned, leaving>>
  BY SameLeaving DEF RecvBranch, Polls, leaving, IInv, GroupStays
<1>2. /\ position'[c][p] = o + 1 /\ position'[c][p] # position[c][p]
      /\ \A k \in Consumers, q \in Partitions :
            k # c \/ q # p => position'[k][q] = position[k][q]
      /\ \A q \in Partitions : owner[q] = NoOwner \/ owner[q] \in Consumers
      /\ batchers[c] \in [Partitions -> Batchers]
  <2>1. o \in Nat /\ position[c][p] \in Nat /\ position[c][p] <= o
    BY <1>1, TypeFacts, OffsetFacts DEF IInv, IsNext, Unread
  <2>2. /\ position'[c][p] = o + 1
        /\ \A k \in Consumers, q \in Partitions :
              k # c \/ q # p => position'[k][q] = position[k][q]
    BY <1>1 DEF IInv, TypeOK
  <2> QED
    BY <2>1, <2>2, TypeFacts DEF IInv, TypeOK
<1>3. owner[p] = c /\ Shown(c, p)
  <2>1. p \notin revoked[c]
    BY <1>1, <1>2 DEF DrainedFirst, GroupStays
  <2> QED
    BY <1>1, <2>1, OwnFacts DEF Shown
<1>4. readAt' = [readAt EXCEPT ![p] = o + 1]
  <2>1. \A q \in Partitions : readAt'[q] = IF q = p THEN o + 1 ELSE readAt[q]
    BY <1>1, <1>2, <1>3, GroupAssumption DEF readAt, GroupStays
  <2> QED
    BY <2>1 DEF readAt
<1>5. Promise!IsNext(p, o)
  BY <1>1, <1>3, OwnFacts DEF IsNext, Unread, Promise!IsNext, Promise!Unread
<1>6. seenBatchers[c][p] = batchers[c][p] /\ seenBatchers[c] = Seen(c, batchers[c])
  BY <1>3 DEF seenBatchers, Seen
<1>7. Promise!Offer(c, p, o)
  <2>1. Ready(c) /\ UNCHANGED <<objects, committed, today>>
    BY <1>1 DEF Offer
  <2>2. CASE MustFlushFirst(batchers[c][p], o)
    <3>1. /\ call' = [call EXCEPT ![c] = FlushCall(p, batchers[c][p], {o}, {})]
          /\ UNCHANGED batchers
      BY <1>1, <2>2 DEF Offer
    <3>2. seenCall' = [seenCall EXCEPT ![c] = FlushCall(p, batchers[c][p], {o}, {})]
      BY <1>1, <3>1, SeenProgress DEF IInv, GroupStays
    <3>3. UNCHANGED seenBatchers
      BY <1>1, <3>1 DEF GroupStays, seenBatchers, Seen, Shown
    <3> QED
      BY <1>6, <2>1, <2>2, <3>2, <3>3, SameBatchers, SameCalls, SeenCalls DEF Promise!Offer
  <2>3. CASE ~ MustFlushFirst(batchers[c][p], o)
    <3>1. PushRecord(c, batchers[c], p, o)
      BY <1>1, <2>3 DEF Offer
    <3>2. Promise!PushRecord(c, seenBatchers[c], p, o)
      BY <1>1, <1>2, <1>3, <1>6, <3>1, PushIsPush DEF IInv
    <3> QED
      BY <1>6, <2>1, <2>3, <3>2, SameBatchers, SeenCalls DEF Promise!Offer
  <2> QED
    BY <2>2, <2>3
<1> QED
  BY <1>1, <1>3, <1>4, <1>5, <1>7 DEF Promise!Deliver, GroupStays

-------------------------------------------------------------------------------
(* Refinement: the end of a process, and the steps of the group. *)

(* Losing all partitions, as the group sees it. *)
LEMMA LosesAll ==
    ASSUME IInv, NEW c \in Consumers,
           owner' = [p \in Partitions |-> IF owner[p] = c THEN NoOwner ELSE owner[p]],
           \A k \in Consumers : k # c => position'[k] = position[k]
    PROVE  Promise!Owned(c) = Owned(c) /\ Promise!Release(Owned(c))
<1>1. Promise!Owned(c) = Owned(c)
  BY DEF Promise!Owned, Owned
<1>2. owner' = [p \in Partitions |-> IF p \in Owned(c) THEN NoOwner ELSE owner[p]]
  BY DEF Owned
<1>3. readAt' = [p \in Partitions |-> IF p \in Owned(c) THEN 0 ELSE readAt[p]]
  <2>1. \A q \in Partitions : owner[q] = NoOwner \/ owner[q] \in Consumers
    BY DEF IInv, TypeOK
  <2>2. \A q \in Partitions : readAt'[q] = IF q \in Owned(c) THEN 0 ELSE readAt[q]
    BY <1>2, <2>1, GroupAssumption DEF readAt, Owned
  <2> QED
    BY <2>2 DEF readAt
<1> QED
  BY <1>1, <1>2, <1>3 DEF Promise!Release

(* With its partitions a process loses, as the group sees it, its buffers. *)
LEMMA LosesBuffers ==
    ASSUME IInv, NEW c \in Consumers,
           owner' = [p \in Partitions |-> IF owner[p] = c THEN NoOwner ELSE owner[p]],
           \A k \in Consumers : k # c => batchers'[k] = batchers[k] /\ revoked'[k] = revoked[k]
    PROVE  seenBatchers' = [seenBatchers EXCEPT ![c] = [p \in Partitions |-> NoBatcher]]
<1>1. c # NoOwner /\ \A p \in Partitions : owner'[p] # c
  BY GroupAssumption
<1>2. Seen(c, batchers[c])' = [p \in Partitions |-> NoBatcher]
  BY <1>1 DEF Seen, Shown
<1>3. \A k \in Consumers : k # c => Seen(k, batchers[k])' = Seen(k, batchers[k])
  BY GroupAssumption DEF Seen, Shown
<1>4. seenBatchers' = [k \in Consumers |-> Seen(k, batchers[k])']
  BY DEF seenBatchers
<1>5. seenBatchers' = [k \in Consumers |->
          IF k = c THEN [p \in Partitions |-> NoBatcher] ELSE seenBatchers[k]]
  BY <1>2, <1>3, <1>4 DEF seenBatchers
<1>6. seenBatchers = [k \in Consumers |-> seenBatchers[k]]
  BY DEF seenBatchers
<1> QED
  BY <1>5, <1>6

LEMMA GoneIsLeave ==
    ASSUME IInv, NEW c \in Consumers, c \notin evicted, Exit(c), Gone(c)
    PROVE  Promise!Exit(c) /\ Promise!Leave(c)
<1>1. /\ owner' = [p \in Partitions |-> IF owner[p] = c THEN NoOwner ELSE owner[p]]
      /\ UNCHANGED evicted
  BY DEF Gone
<1>2. StepOf(c) /\ phase'[c] = "down"
  BY GoneOfOne DEF IInv
<1>3. seenBatchers' = [seenBatchers EXCEPT ![c] = [p \in Partitions |-> NoBatcher]]
  BY <1>1, <1>2, LosesBuffers DEF StepOf
<1>4. seenCall' = [seenCall EXCEPT ![c] = NoCall]
  BY <1>1, SeenProgress DEF Exit, IInv
<1>5. Promise!Exit(c)
  BY <1>3, <1>4, SameBatchers, SameCalls DEF Exit, Promise!Exit
<1>6. leaving' = leaving \ {c}
  BY <1>1, <1>2 DEF leaving, StepOf
<1>7. Promise!Owned(c) = Owned(c) /\ Promise!Release(Owned(c))
  BY <1>1, <1>2, LosesAll DEF StepOf
<1> QED
  BY <1>5, <1>6, <1>7 DEF Promise!Leave

LEMMA EvictionIsCrash ==
    ASSUME IInv, NEW c \in Consumers, Eviction(c)
    PROVE  Promise!Crash(c)
<1>1. /\ Owned(c) # {} /\ evicted' = evicted \union {c}
      /\ owner' = [p \in Partitions |-> IF owner[p] = c THEN NoOwner ELSE owner[p]]
      /\ UNCHANGED <<batchers, call, objects, committed, today, phase, revoked, position>>
  BY DEF Eviction, pipelineVars, loopVars
<1>2. seenBatchers' = [seenBatchers EXCEPT ![c] = [p \in Partitions |-> NoBatcher]]
  BY <1>1, LosesBuffers
<1>3. seenCall' = [seenCall EXCEPT ![c] = NoCall]
  BY <1>1 DEF seenCall
<1>4. leaving' = leaving \ {c}
  BY <1>1 DEF leaving
<1>5. Promise!Owned(c) = Owned(c) /\ Promise!Release(Owned(c))
  BY <1>1, LosesAll
<1>6. Promise!Exit(c)
  BY <1>1, <1>2, <1>3, SameBatchers, SameCalls DEF Promise!Exit
<1> QED
  BY <1>1, <1>4, <1>5, <1>6 DEF Promise!Crash, Promise!Leave

LEMMA RevocationIsTakeAway ==
    ASSUME IInv, NEW c \in Consumers, c \notin evicted, Revocation(c)
    PROVE  \E ps \in SUBSET Partitions : Promise!TakeAway(c, ps)
<1>1. /\ Ready(c) /\ c \notin leaving /\ assigned[c] # {}
      /\ owner' = [p \in Partitions |-> IF owner[p] = c THEN NoOwner ELSE owner[p]]
      /\ revoked' = [revoked EXCEPT ![c] = @ \union assigned[c]]
      /\ position' = [position EXCEPT ![c] = [p \in Partitions |-> 0]]
      /\ evicted' = evicted \ {c}
      /\ UNCHANGED <<batchers, call, objects, committed, today, phase>>
  BY NoCallInSelect DEF Revocation, Polls, Forwarded, leaving, pipelineVars
<1>2. \A k \in Consumers : k # c => revoked'[k] = revoked[k] /\ position'[k] = position[k]
  BY <1>1 DEF IInv, TypeOK
<1>3. UNCHANGED seenCall /\ UNCHANGED leaving
  BY <1>1 DEF seenCall, leaving
<1>4. seenBatchers' = [seenBatchers EXCEPT ![c] = [p \in Partitions |-> NoBatcher]]
  BY <1>1, <1>2, LosesBuffers
<1>5. Promise!WithoutBatchers(c, Owned(c)) = [p \in Partitions |-> NoBatcher]
  BY SameBatchers DEF Promise!WithoutBatchers, Owned, seenBatchers, Seen, Shown
<1>6. Promise!Revoke(c, Owned(c))
  BY <1>1, <1>3, <1>4, <1>5, SeenCalls DEF Promise!Revoke
<1>7. Owned(c) # {} /\ Owned(c) \in SUBSET Partitions
  BY <1>1, OwnFacts DEF Owned, IInv, TypeOK
<1>8. Promise!Owned(c) = Owned(c) /\ Promise!Release(Owned(c))
  BY <1>1, <1>2, LosesAll
<1>9. Promise!TakeAway(c, Owned(c))
  BY <1>1, <1>3, <1>6, <1>7, <1>8 DEF Promise!TakeAway
<1> QED
  BY <1>7, <1>9

(* A process without partitions has nothing in memory that is seen: its     *)
(* crash is seen only if it was closing.                                    *)
LEMMA EmptyExit ==
    ASSUME IInv, TidyInv, BusyIsOwn, NEW c \in Consumers, c \notin evicted, Owned(c) = {}
    PROVE  /\ Ready(c) /\ seenCall[c] = NoCall
           /\ seenBatchers[c] = [p \in Partitions |-> NoBatcher]
<1>1. \A p \in Partitions : ~ Shown(c, p)
  BY DEF Owned, Shown
<1>2. Ready(c)
  BY <1>1, BusyFacts, TypeFacts DEF IInv
<1>3. seenCall[c] = NoCall
  BY <1>2, SeenCalls DEF TidyInv, Tidy
<1> QED
  BY <1>1, <1>2, <1>3 DEF seenBatchers, Seen

LEMMA CrashIsCrash ==
    ASSUME IInv, TidyInv, BusyIsOwn, NEW c \in Consumers, c \notin evicted, Crash(c)
    PROVE  Promise!Crash(c) \/ Promise!Stopped(c) \/ Stutter
<1>1. /\ Exit(c) /\ Promise!Exit(c) /\ Promise!Leave(c) /\ Promise!Owned(c) = Owned(c)
      /\ UNCHANGED <<objects, committed>>
  BY GoneIsLeave DEF Crash, Promise!Owned, Owned
<1>2. CASE Owned(c) # {}
  BY <1>1, <1>2 DEF Promise!Crash
<1>3. CASE Owned(c) = {} /\ c \in leaving
  BY <1>1, <1>3, EmptyExit, SeenCalls DEF Promise!Stopped
<1>4. CASE Owned(c) = {} /\ c \notin leaving
  <2>1. /\ readAt' = [p \in Partitions |-> IF p \in Owned(c) THEN 0 ELSE readAt[p]]
        /\ owner' = [p \in Partitions |-> IF p \in Owned(c) THEN NoOwner ELSE owner[p]]
        /\ leaving' = leaving \ {c}
    BY <1>1 DEF Promise!Leave, Promise!Release
  <2>2. UNCHANGED owner
    BY <1>4, <2>1 DEF IInv, TypeOK
  <2>3. UNCHANGED readAt
    BY <1>4, <2>1 DEF readAt
  <2>4. /\ seenBatchers' = [seenBatchers EXCEPT ![c] = [p \in Partitions |-> NoBatcher]]
        /\ seenCall' = [seenCall EXCEPT ![c] = NoCall]
        /\ UNCHANGED today
    BY <1>1, SameBatchers, SameCalls DEF Promise!Exit
  <2>5. UNCHANGED <<seenBatchers, seenCall>>
    BY <1>4, <2>4, EmptyExit DEF seenBatchers, seenCall
  <2> QED
    BY <1>1, <1>4, <2>1, <2>2, <2>3, <2>4, <2>5 DEF Stutter
<1> QED
  BY <1>2, <1>3, <1>4

LEMMA StoppedIsStopped ==
    ASSUME IInv, NEW c \in Consumers, c \notin evicted, Stopped(c)
    PROVE  Promise!Stopped(c)
<1>1. Promise!Exit(c) /\ Promise!Leave(c) /\ Promise!Ready(c) /\ c \in leaving
  BY GoneIsLeave, SeenCalls DEF Stopped, leaving
<1> QED
  BY <1>1 DEF Stopped, Promise!Stopped

LEMMA AssignmentIsAssign ==
    ASSUME IInv, TidyInv, NEW c \in Consumers, NEW ps \in SUBSET Partitions, Assignment(c, ps)
    PROVE  Promise!Assign(c, ps)
<1>1. /\ ps # {} /\ Ready(c) /\ phase[c] = "select" /\ c \notin evicted /\ assigned[c] = {}
      /\ \A p \in ps : owner[p] = NoOwner
      /\ owner' = [p \in Partitions |-> IF p \in ps THEN c ELSE owner[p]]
      /\ position' = [position EXCEPT ![c] =
                          [p \in Partitions |-> IF p \in ps THEN committed[p] ELSE 0]]
      /\ UNCHANGED <<batchers, call, objects, committed, today, phase, revoked, evicted>>
  BY NoCallInSelect DEF Assignment, Polls, pipelineVars, loopVars
<1>2. c # NoOwner /\ \A p \in Partitions : owner[p] # c
  BY <1>1, GroupAssumption DEF IInv, OwnerInv
<1>3. readAt' = [p \in Partitions |-> IF p \in ps THEN committed[p] ELSE readAt[p]]
  <2>1. /\ \A k \in Consumers : k # c => position'[k] = position[k]
        /\ \A p \in ps : position'[c][p] = committed[p]
        /\ \A q \in Partitions : owner[q] = NoOwner \/ owner[q] \in Consumers
    BY <1>1 DEF IInv, TypeOK
  <2>2. ASSUME NEW q \in ps PROVE readAt'[q] = committed[q]
    <3>1. q \in Partitions /\ owner'[q] = c
      BY <1>1
    <3> QED
      BY <1>2, <2>1, <3>1 DEF readAt
  <2>3. ASSUME NEW q \in Partitions, q \notin ps PROVE readAt'[q] = readAt[q]
    <3>1. owner'[q] = owner[q]
      BY <1>1, <2>3
    <3> QED
      BY <1>2, <2>1, <3>1 DEF readAt
  <2> QED
    BY <2>2, <2>3 DEF readAt
<1>4. UNCHANGED seenCall /\ UNCHANGED leaving
  BY <1>1 DEF seenCall, leaving
<1>5. ASSUME NEW k \in Consumers PROVE Seen(k, batchers[k])' = Seen(k, batchers[k])
  <2>1. CASE k # c
    <3>1. \A p \in Partitions : owner'[p] = k <=> owner[p] = k
      BY <1>1, <2>1, GroupAssumption
    <3> QED
      BY <1>1, <3>1 DEF Seen, Shown
  <2>2. CASE k = c
    <3>1. \A p \in Partitions : p \notin revoked[c] => batchers[c][p] = NoBatcher
      BY <1>1 DEF IInv, GoodBuffer, TidyInv, Tidy, TidyBuffers
    <3>2. Seen(c, batchers[c]) = [p \in Partitions |-> NoBatcher]
      BY <1>2 DEF Seen, Shown
    <3>3. Seen(c, batchers[c])' = [p \in Partitions |-> NoBatcher]
      BY <1>1, <3>1 DEF Seen, Shown
    <3> QED
      BY <2>2, <3>2, <3>3
  <2> QED
    BY <2>1, <2>2
<1>6. UNCHANGED seenBatchers
  BY <1>5 DEF seenBatchers
<1>7. ps \subseteq Promise!Free /\ c \notin leaving
  BY <1>1 DEF Promise!Free, leaving
<1> QED
  BY <1>1, <1>3, <1>4, <1>6, <1>7, SeenCalls DEF Promise!Assign, Promise!pipelineVars
-------------------------------------------------------------------------------
(* Refinement: the answers of the bucket and the broker. *)

LEMMA CurrentIsSeen ==
    ASSUME IInv, BusyIsOwn, NEW c \in Consumers, c \notin evicted, ~ Ready(c)
    PROVE  /\ Target(c) \in Partitions /\ Promise!Target(c) = Target(c) /\ seenCall[c] = call[c]
           /\ Promise!Current(c) = Current(c)
           /\ \A b : Seen(c, [batchers[c] EXCEPT ![Target(c)] = b])
                         = [seenBatchers[c] EXCEPT ![Promise!Target(c)] = b]
           /\ \A b \in Batchers :
                 [batchers[c] EXCEPT ![Target(c)] = b] \in [Partitions -> Batchers]
           /\ Promise!Overwritten(seenCall[c].name, Promise!Current(c).records)
                 = Overwritten(call[c].name, Current(c).records)
<1>1. /\ Target(c) \in Partitions /\ Shown(c, Target(c))
      /\ batchers[c] \in [Partitions -> Batchers]
      /\ Promise!Target(c) = Target(c) /\ seenCall[c] = call[c]
  BY TypeFacts, BusyFacts, SeenCalls DEF IInv
<1>2. Promise!Current(c) = Current(c)
  BY <1>1, OwnFacts DEF Promise!Current, Current
<1>3. \A b : Seen(c, [batchers[c] EXCEPT ![Target(c)] = b])
                = [seenBatchers[c] EXCEPT ![Target(c)] = b]
  BY <1>1 DEF seenBatchers, Seen
<1> QED
  BY <1>1, <1>2, <1>3, SameCalls

LEMMA PutIsPut ==
    ASSUME IInv, BusyIsOwn, GroupStays, NEW c \in Consumers, c \notin evicted, PutOk(c)
    PROVE  Promise!PutOk(c)
<1>1. /\ call[c].stage = "put" /\ ~ Ready(c) /\ UNCHANGED <<committed, today>>
      /\ objects' = Overwritten(call[c].name, Current(c).records)
  BY DEF PutOk, Ready
<1>2. /\ seenCall[c].stage = "put"
      /\ objects' = Promise!Overwritten(seenCall[c].name, Promise!Current(c).records)
      /\ Promise!CommitsAfterUpload(Promise!Current(c)) = CommitsAfterUpload(Current(c))
  BY <1>1, CurrentIsSeen, SameBatchers
<1>3. CASE /\ CommitsAfterUpload(Current(c))
           /\ call' = [call EXCEPT ![c].stage = "commit"] /\ UNCHANGED batchers
  <2>1. UNCHANGED seenBatchers
    BY <1>3 DEF seenBatchers, Seen, Shown, GroupStays
  <2>2. seenCall' = [seenCall EXCEPT ![c] = [call[c] EXCEPT !.stage = "commit"]]
    BY <1>3, SeenProgress DEF GroupStays, IInv
  <2>3. seenCall' = [seenCall EXCEPT ![c].stage = "commit"]
    BY <1>1, <2>2, CurrentIsSeen
  <2> QED
    BY <1>1, <1>2, <1>3, <2>1, <2>3 DEF Promise!PutOk
<1>4. CASE /\ ~ CommitsAfterUpload(Current(c))
           /\ Return(c, [batchers[c] EXCEPT ![Target(c)] = Flushed(@)])
  <2>1. /\ Flushed(Current(c)) \in Batchers
        /\ Promise!Flushed(Promise!Current(c)) = Flushed(Current(c))
    BY <1>1, TypeFacts, BatcherTypes, SameBatchers, CurrentIsSeen DEF IInv
  <2>2. Return(c, [batchers[c] EXCEPT ![Target(c)] = Flushed(Current(c))])
    BY <1>4 DEF Current
  <2>3. Promise!Return(c, Seen(c, [batchers[c] EXCEPT ![Target(c)] = Flushed(Current(c))]))
    BY <1>1, <2>1, <2>2, CurrentIsSeen, ReturnIsReturn
  <2>4. Promise!Return(c, [seenBatchers[c] EXCEPT ![Promise!Target(c)] = Flushed(Current(c))])
    BY <1>1, <2>3, CurrentIsSeen
  <2>5. Promise!Return(c, [seenBatchers[c] EXCEPT ![Promise!Target(c)] = Promise!Flushed(@)])
    BY <2>1, <2>4 DEF Promise!Current
  <2> QED
    BY <1>1, <1>2, <1>4, <2>5 DEF Promise!PutOk
<1> QED
  BY <1>3, <1>4 DEF PutOk

LEMMA RetryIsRetry ==
    ASSUME IInv, BusyIsOwn, GroupStays, NEW c \in Consumers, c \notin evicted, PutRetried(c)
    PROVE  Promise!PutRetried(c)
<1>1. /\ call[c].stage = "put" /\ ~ Ready(c) /\ AttemptsLeft(c)
      /\ UNCHANGED <<batchers, committed, today>>
      /\ call' = [call EXCEPT ![c] = [call[c] EXCEPT !.attempt = @ + 1]]
      /\ \/ UNCHANGED objects
         \/ objects' = Overwritten(call[c].name, Current(c).records)
  BY DEF PutRetried, Ready
<1>2. UNCHANGED seenBatchers
  BY <1>1 DEF seenBatchers, Seen, Shown, GroupStays
<1>3. seenCall' = [seenCall EXCEPT ![c] = [call[c] EXCEPT !.attempt = @ + 1]]
  BY <1>1, SeenProgress DEF GroupStays, IInv
<1>4. seenCall' = [seenCall EXCEPT ![c].attempt = @ + 1]
  BY <1>1, <1>3, CurrentIsSeen
<1> QED
  BY <1>1, <1>2, <1>4, CurrentIsSeen, SeenCalls DEF Promise!PutRetried

LEMMA CommitIsCommit ==
    ASSUME IInv, BusyIsOwn, GroupStays, NEW c \in Consumers, c \notin evicted, CommitOk(c)
    PROVE  Promise!CommitOk(c)
<1>1. /\ call[c].stage = "commit" /\ ~ Ready(c) /\ UNCHANGED <<objects, today>>
      /\ NextToRead(c) <= MaxI64
      /\ committed' = [committed EXCEPT ![Target(c)] = NextToRead(c)]
      /\ Return(c, [batchers[c] EXCEPT ![Target(c)] = NoBatcher])
  BY DEF CommitOk, Ready
<1>2. Promise!Return(c, Seen(c, [batchers[c] EXCEPT ![Target(c)] = NoBatcher]))
  BY <1>1, BatcherTypes, CurrentIsSeen, ReturnIsReturn
<1>3. Promise!Return(c, [seenBatchers[c] EXCEPT ![Promise!Target(c)] = Promise!NoBatcher])
  BY <1>1, <1>2, CurrentIsSeen, SameBatchers
<1> QED
  BY <1>1, <1>3, CurrentIsSeen, SeenCalls DEF Promise!CommitOk

LEMMA CallIsCall ==
    ASSUME IInv, BusyIsOwn, NEW c \in Consumers, c \notin evicted, CallStep(c)
    PROVE  Promise!Answered(c) \/ Promise!UploadError(c) \/ Promise!CommitError(c)
<1>1. CASE Answered(c)
  <2>1. GroupStays /\ UNCHANGED <<owner, readAt, leaving>>
    BY <1>1, SameReading DEF Answered, loopVars, groupVars, leaving, GroupStays
  <2>2. Promise!PutOk(c) \/ Promise!PutRetried(c) \/ Promise!CommitOk(c)
    BY <1>1, <2>1, PutIsPut, RetryIsRetry, CommitIsCommit DEF Answered
  <2> QED
    BY <2>1, <2>2 DEF Promise!Answered, Promise!callerVars
<1>2. CASE UploadError(c)
  <2>1. /\ call[c].stage = "put" /\ ~ Ready(c) /\ UNCHANGED committed
        /\ \/ UNCHANGED objects
           \/ /\ ~ AttemptsLeft(c)
              /\ objects' = Overwritten(call[c].name, Current(c).records)
    BY <1>2 DEF UploadError, PutFailed, Ready
  <2>2. Promise!Exit(c) /\ Promise!Leave(c)
    BY <1>2, GoneIsLeave DEF UploadError, PutFailed
  <2> QED
    BY <2>1, <2>2, CurrentIsSeen, SeenCalls DEF Promise!UploadError, Promise!PutFailed
<1>3. CASE CommitError(c)
  <2>1. /\ call[c].stage = "commit" /\ ~ Ready(c) /\ UNCHANGED objects
        /\ \/ UNCHANGED committed
           \/ /\ NextToRead(c) <= MaxI64
              /\ committed' = [committed EXCEPT ![Target(c)] = NextToRead(c)]
    BY <1>3 DEF CommitError, CommitFailed, Ready
  <2>2. Promise!Exit(c) /\ Promise!Leave(c)
    BY <1>3, GoneIsLeave DEF CommitError, CommitFailed
  <2> QED
    BY <2>1, <2>2, CurrentIsSeen, SeenCalls DEF Promise!CommitError, Promise!CommitFailed
<1> QED
  BY <1>1, <1>2, <1>3 DEF CallStep

LEMMA ElapseIsElapse ==
    ASSUME IInv, NEW c \in Consumers, c \notin evicted, Elapse(c),
           UNCHANGED <<loopVars, groupVars>>
    PROVE  Promise!ClockStep \/ Stutter
<1> DEFINE aged == [p \in Partitions |-> Aged(batchers[c][p])]
<1>1. /\ Ready(c) /\ batchers' = [batchers EXCEPT ![c] = aged]
      /\ UNCHANGED <<call, objects, committed, today, owner, position, revoked, evicted, phase>>
      /\ UNCHANGED <<readAt, leaving>>
  BY SameReading DEF Elapse, loopVars, groupVars, leaving
<1>2. UNCHANGED seenCall
  BY <1>1 DEF seenCall
<1>3. seenBatchers' = [seenBatchers EXCEPT ![c] = Seen(c, aged)]
  <2> HIDE DEF aged
  <2> QED
    BY <1>1, SeenMemory DEF IInv
<1>4. Seen(c, aged) = [p \in Partitions |-> Aged(seenBatchers[c][p])]
  <2>1. Aged(NoBatcher) = NoBatcher
    BY FlushedFacts, BatcherTypes
  <2>2. \A p \in Partitions : Seen(c, aged)[p] = Aged(seenBatchers[c][p])
    BY <2>1 DEF Seen, seenBatchers
  <2> QED
    BY <2>2 DEF Seen
<1>5. CASE \E p \in Promise!DirtyKeys(c) : seenBatchers[c][p].quiet < IdleMs
  <2>1. Promise!Elapse(c)
    BY <1>1, <1>2, <1>3, <1>4, <1>5, SameBatchers, SeenCalls DEF Promise!Elapse
  <2> QED
    BY <1>1, <2>1 DEF Promise!ClockStep, Promise!callerVars
<1>6. CASE \A p \in Promise!DirtyKeys(c) : ~ (seenBatchers[c][p].quiet < IdleMs)
  <2>1. ASSUME NEW p \in Partitions PROVE Aged(seenBatchers[c][p]) = seenBatchers[c][p]
    <3>1. seenBatchers[c][p] \in Batchers
      BY TypeFacts, BatcherTypes DEF seenBatchers, Seen, IInv
    <3>2. ~ (seenBatchers[c][p].dirty /\ seenBatchers[c][p].quiet < IdleMs)
      BY <1>6 DEF Promise!DirtyKeys
    <3> QED
      BY <3>1, <3>2 DEF Aged, Batchers
  <2>2. Seen(c, aged) = seenBatchers[c]
    BY <1>4, <2>1 DEF seenBatchers, Seen
  <2>3. UNCHANGED seenBatchers
    BY <1>3, <2>2 DEF seenBatchers
  <2> QED
    BY <1>1, <1>2, <2>3 DEF Stutter
<1> QED
  BY <1>5, <1>6

LEMMA NewDayIsNewDay ==
    ASSUME NewDay, UNCHANGED <<loopVars, groupVars>>
    PROVE  Promise!ClockStep
<1>1. UNCHANGED <<seenBatchers, seenCall, owner, readAt, leaving>>
  BY DEF NewDay, loopVars, groupVars, seenBatchers, Seen, Shown, seenCall, readAt, leaving
<1> QED
  BY <1>1 DEF NewDay, Promise!NewDay, Promise!ClockStep, Promise!callerVars
-------------------------------------------------------------------------------
(* The refinement. *)

LEMMA SeenStep ==
    ASSUME IInv, TidyInv, BusyIsOwn, [CarefulNext]_vars
    PROVE  [Promise!Next]_(Promise!vars)
<1>1. ASSUME DrainedFirst, NEW c \in Consumers, c \notin evicted, LoopStep(c)
      PROVE  Promise!Next \/ Stutter
  <2>1. CASE Drain(c) \/ RecvError(c) \/ Signal(c)
    BY <2>1, DrainIsUnseen, UnseenStep
  <2>2. CASE TickBranch(c)
    BY <1>1, <2>2, TickIsIdleCheck DEF Promise!Next
  <2>3. CASE ShutdownBranch(c)
    BY <1>1, <2>3, ShutdownIsShutdown DEF Promise!Next
  <2>4. ASSUME NEW p \in Partitions, NEW o \in Log[p], RecvBranch(c, p, o)
        PROVE  Promise!Next
    BY <1>1, <2>4, RecvIsDeliver DEF Promise!Next
  <2> QED
    BY <1>1, <2>1, <2>2, <2>3, <2>4 DEF LoopStep
<1>2. ASSUME NEW c \in Consumers, c \notin evicted, CallStep(c)
      PROVE  Promise!Next
  BY <1>2, CallIsCall DEF Promise!Next
<1>3. ASSUME NEW c \in Consumers, c \notin evicted, Revocation(c)
      PROVE  Promise!Next
  BY <1>3, RevocationIsTakeAway DEF Promise!Next
<1>4. ASSUME NEW c \in Consumers, c \notin evicted, Stopped(c) \/ Crash(c) \/ Restart(c)
      PROVE  Promise!Next \/ Stutter
  BY <1>4, StoppedIsStopped, CrashIsCrash, UnseenStep DEF Promise!Next
<1>5. ASSUME NEW c \in Consumers, Eviction(c)
      PROVE  Promise!Next
  BY <1>5, EvictionIsCrash DEF Promise!Next
<1>6. ASSUME NEW c \in Consumers, NEW ps \in SUBSET Partitions, Assignment(c, ps)
      PROVE  Promise!Next
  BY <1>6, AssignmentIsAssign DEF Promise!Next
<1>7. ASSUME OwnersWrite, ClockStep
      PROVE  Promise!Next \/ Stutter
  <2>1. ASSUME NEW c \in Consumers, Elapse(c), UNCHANGED <<loopVars, groupVars>>
        PROVE  Promise!Next \/ Stutter
    BY <1>7, <2>1, ElapseIsElapse, EvictedStep DEF Promise!Next
  <2>2. ASSUME NewDay, UNCHANGED <<loopVars, groupVars>>
        PROVE  Promise!Next
    BY <2>2, NewDayIsNewDay DEF Promise!Next
  <2> QED
    BY <1>7, <2>1, <2>2 DEF ClockStep
<1>8. ASSUME UNCHANGED vars
      PROVE  Stutter
  BY <1>8 DEF vars, pipelineVars, loopVars, groupVars, Stutter, seenBatchers, Seen, Shown,
              seenCall, readAt, leaving
<1>9. ASSUME CarefulNext
      PROVE  Promise!Next \/ Stutter
  <2>1. ASSUME NEW c \in Consumers,
               \/ LoopStep(c) \/ CallStep(c) \/ Revocation(c)
               \/ Stopped(c) \/ Crash(c) \/ Restart(c)
        PROVE  Promise!Next \/ Stutter
    <3>1. DrainedFirst /\ OwnersWrite
      BY <1>9 DEF CarefulNext
    <3>2. CASE c \in evicted
      BY <2>1, <3>1, <3>2, EvictedStep
    <3>3. CASE c \notin evicted
      BY <2>1, <3>1, <3>3, <1>1, <1>2, <1>3, <1>4
    <3> QED
      BY <3>2, <3>3
  <2> QED
    BY <1>5, <1>6, <1>7, <1>9, <2>1 DEF CarefulNext, Next, GroupStep
<1> QED
  BY <1>8, <1>9, StutterIsOne

LEMMA SeenInit ==
    ASSUME Init
    PROVE  Promise!Init /\ TidyInv /\ BusyIsOwn
<1>1. /\ seenBatchers = [c \in Consumers |-> [p \in Partitions |-> NoBatcher]]
      /\ seenCall = [c \in Consumers |-> NoCall]
      /\ readAt = [p \in Partitions |-> 0] /\ leaving = {}
  BY DEF Init, PipelineInit, seenBatchers, Seen, seenCall, readAt, leaving
<1>2. Promise!Init
  BY <1>1, SameBatchers, SameCalls DEF Init, PipelineInit, Promise!Init, Promise!PipelineInit
<1>3. TidyInv /\ BusyIsOwn
  BY DEF Init, PipelineInit, TidyInv, Tidy, TidyBuffers, BusyIsOwn
<1> QED
  BY <1>2, <1>3

LEMMA BusyStep ==
    ASSUME IInv, BusyIsOwn, [CarefulNext]_vars
    PROVE  BusyIsOwn'
<1>1. CASE UNCHANGED vars
  BY <1>1 DEF BusyIsOwn, Busy, Ready, Target, vars, pipelineVars, loopVars
<1>2. ASSUME NEW c \in Consumers, Revocation(c)
      PROVE  BusyIsOwn'
  <2>1. /\ UNCHANGED call /\ phase[c] = "select"
        /\ \A k \in Consumers : k # c => revoked'[k] = revoked[k]
    BY <1>2 DEF Revocation, Polls, Forwarded, pipelineVars, IInv, TypeOK
  <2>2. Ready(c)' /\ \A k \in Consumers : Busy(k)' = Busy(k)
    BY <2>1, NoCallInSelect DEF Ready, Busy, Target
  <2> QED
    BY <2>1, <2>2 DEF BusyIsOwn, Busy
<1>3. ASSUME Next, \A c \in Consumers : ~ Revocation(c)
      PROVE  \A k \in Consumers : revoked'[k] \subseteq revoked[k]
  <2>1. ASSUME NEW c \in Consumers, LoopStep(c)
        PROVE  \A k \in Consumers : revoked'[k] \subseteq revoked[k]
    BY <2>1 DEF LoopStep, Drain, TickBranch, RecvError, Signal, ShutdownBranch, RecvBranch,
                IInv, TypeOK
  <2>2. ASSUME NEW c \in Consumers, Gone(c)
        PROVE  \A k \in Consumers : revoked'[k] \subseteq revoked[k]
    BY <2>2 DEF Gone, IInv, TypeOK
  <2>3. ASSUME NEW c \in Consumers, CallStep(c) \/ Stopped(c) \/ Crash(c) \/ Restart(c)
        PROVE  \A k \in Consumers : revoked'[k] \subseteq revoked[k]
    BY <2>2, <2>3 DEF CallStep, Answered, UploadError, CommitError, Stopped, Crash, Restart,
                      loopVars
  <2>4. ASSUME NEW c \in Consumers, GroupStep(c)
        PROVE  \A k \in Consumers : revoked'[k] \subseteq revoked[k]
    BY <1>3, <2>4 DEF GroupStep, Eviction, Assignment, loopVars
  <2>5. CASE ClockStep
    BY <2>5 DEF ClockStep, loopVars
  <2> QED
    BY <1>3, <2>1, <2>3, <2>4, <2>5 DEF Next
<1>4. CASE CarefulNext /\ \A c \in Consumers : ~ Revocation(c)
  BY <1>3, <1>4 DEF CarefulNext, DrainedFirst, BusyIsOwn
<1> QED
  BY <1>1, <1>2, <1>4

LEMMA CarefulInvariant == CarefulSpec => [](IInv /\ TidyInv /\ BusyIsOwn)
<1>1. Init => IInv /\ TidyInv /\ BusyIsOwn
  BY SeenInit, InvInit
<1>2. IInv /\ TidyInv /\ BusyIsOwn /\ [CarefulNext]_vars => (IInv /\ TidyInv /\ BusyIsOwn)'
  <2>1. [CarefulNext]_vars => [Next]_vars
    BY DEF CarefulNext
  <2> QED
    BY <2>1, InvStep, TidyStep, BusyStep
<1> QED
  BY <1>1, <1>2, PTL DEF CarefulSpec

LEMMA PromiseIsKept == CarefulSpec => Promise!Spec
<1>1. Init => Promise!Init
  BY SeenInit
<1>2. IInv /\ TidyInv /\ BusyIsOwn /\ [CarefulNext]_vars => [Promise!Next]_(Promise!vars)
  BY SeenStep
<1> QED
  BY <1>1, <1>2, CarefulInvariant, PTL DEF CarefulSpec, Promise!Spec
-------------------------------------------------------------------------------
(* What follows for the loop. *)

(* Contract and Promise are two instances of one module under one mapping. *)
LEMMA SameContract ==
    /\ Contract!Init = Promise!Init
    /\ [Contract!Next]_(Contract!vars) = [Promise!Next]_(Promise!vars)
<1>1. Contract!Init = Promise!Init
  BY DEF seenBatchers, Seen, seenCall, readAt, leaving,
         Contract!Init, Promise!Init, Contract!PipelineInit, Promise!PipelineInit,
         Contract!NoBatcher, Promise!NoBatcher, Contract!RangeOf, Promise!RangeOf,
         Contract!Containing, Promise!Containing, Contract!SaturatingAdd,
         Promise!SaturatingAdd, Contract!NoCall, Promise!NoCall, Contract!NoName,
         Promise!NoName
<1>2. [Contract!Next]_(Contract!vars) = [Promise!Next]_(Promise!vars)
  BY DEF seenBatchers, Seen, seenCall, readAt, leaving,
         Contract!Next, Promise!Next, Contract!vars, Promise!vars, Contract!SaturatingAdd,
         Promise!SaturatingAdd, Contract!Containing, Promise!Containing,
         Contract!CommitOffset, Promise!CommitOffset, Contract!IsComplete,
         Promise!IsComplete, Contract!ObjectName, Promise!ObjectName,
         Contract!pipelineVars, Promise!pipelineVars, Contract!RangeOf, Promise!RangeOf,
         Contract!NoBatcher, Promise!NoBatcher, Contract!Held, Promise!Held,
         Contract!IsFull, Promise!IsFull, Contract!IsIdle, Promise!IsIdle,
         Contract!Pushed, Promise!Pushed, Contract!Flushed, Promise!Flushed,
         Contract!NoName, Promise!NoName, Contract!NoCall, Promise!NoCall,
         Contract!FlushCall, Promise!FlushCall, Contract!Ready, Promise!Ready,
         Contract!Target, Promise!Target, Contract!Current, Promise!Current,
         Contract!PushRecord, Promise!PushRecord, Contract!FlushEach, Promise!FlushEach,
         Contract!Return, Promise!Return, Contract!MustFlushFirst,
         Promise!MustFlushFirst, Contract!Offer, Promise!Offer, Contract!IdleKeys,
         Promise!IdleKeys, Contract!DirtyKeys, Promise!DirtyKeys, Contract!Tick,
         Promise!Tick, Contract!FlushAll, Promise!FlushAll, Contract!WithoutBatchers,
         Promise!WithoutBatchers, Contract!Revoke, Promise!Revoke, Contract!Overwritten,
         Promise!Overwritten, Contract!CommitsAfterUpload, Promise!CommitsAfterUpload,
         Contract!PutOk, Promise!PutOk, Contract!AttemptsLeft, Promise!AttemptsLeft,
         Contract!PutRetried, Promise!PutRetried, Contract!Exit, Promise!Exit,
         Contract!PutFailed, Promise!PutFailed, Contract!NextToRead, Promise!NextToRead,
         Contract!CommitOk, Promise!CommitOk, Contract!CommitFailed,
         Promise!CommitFailed, Contract!Aged, Promise!Aged, Contract!Elapse,
         Promise!Elapse, Contract!NewDay, Promise!NewDay, Contract!callerVars,
         Promise!callerVars, Contract!Free, Promise!Free, Contract!Owned, Promise!Owned,
         Contract!Assign, Promise!Assign, Contract!Unread, Promise!Unread,
         Contract!IsNext, Promise!IsNext, Contract!Deliver, Promise!Deliver,
         Contract!IdleCheck, Promise!IdleCheck, Contract!Release, Promise!Release,
         Contract!TakeAway, Promise!TakeAway, Contract!Shutdown, Promise!Shutdown,
         Contract!Leave, Promise!Leave, Contract!Stopped, Promise!Stopped,
         Contract!Crash, Promise!Crash, Contract!UploadError, Promise!UploadError,
         Contract!CommitError, Promise!CommitError, Contract!Answered, Promise!Answered,
         Contract!ClockStep, Promise!ClockStep
<1> QED
  BY <1>1, <1>2

(* Under the two rules the loop drives the pipelines by the contract of      *)
(* SingleOwner, with any number of rebalances and evictions: a rebalance    *)
(* takes partitions away between two calls, an eviction is a crash.  The    *)
(* late drain, the flush of revoked buffers and the late write of an        *)
(* evicted process are then the only ways in which the loop breaks it.      *)
THEOREM ContractIsKept == CarefulSpec => KeepsContract
<1>1. /\ Promise!Init => Contract!Init
      /\ [Promise!Next]_(Promise!vars) => [Contract!Next]_(Contract!vars)
  BY SameContract
<1> QED
  BY <1>1, PromiseIsKept, PTL DEF KeepsContract, Contract!Spec, Promise!Spec

(* The hypotheses of Promise's theorems are those of this module. *)
LEMMA PromiseAssumptions ==
    Promise!WordAssumption /\ Promise!PipelineAssumption /\ Promise!LogAssumption
<1>1. Promise!WordAssumption
  BY WordAssumption DEF Promise!WordAssumption
<1>2. Promise!PipelineAssumption
  BY PipelineAssumption DEF Promise!PipelineAssumption, Promise!Sizes, Sizes
<1>3. Promise!LogAssumption
  BY GroupAssumption DEF Promise!LogAssumption, Promise!Offsets, Offsets
<1> QED
  BY <1>1, <1>2, <1>3

(* lib.rs's promise for the loop itself: through rebalances and evictions,  *)
(* a record below the group's committed offset is in the bucket.            *)
THEOREM AckedIsStoredIfCareful == CarefulSpec => []AckedIsStored
<1>1. Promise!AckedIsStored => AckedIsStored
  BY DEF Promise!AckedIsStored, AckedIsStored, Promise!Stored, Stored, Promise!Range, Range
<1>2. Promise!Spec => []Promise!AckedIsStored
  BY PromiseAssumptions, Promise!AckedIsStoredAlways, PTL
<1> QED
  BY <1>1, <1>2, PromiseIsKept, PTL

(* No former owner, evicted or rebalanced away, changes an object whose     *)
(* range the group has acknowledged.                                        *)
THEOREM AckedObjectsAreFinalIfCareful == CarefulSpec => AckedObjectsAreFinal
<1> DEFINE Final == \A obj \in objects :
              obj.name.range.end < committed[obj.name.partition] => obj \in objects'
<1>1. [Final]_(Promise!vars) => [Final]_vars
  BY DEF Promise!vars, Promise!pipelineVars
<1>2. Promise!Spec => [][Final]_(Promise!vars)
  BY PromiseAssumptions, Promise!AckedObjectsAreFinalAlways DEF Promise!AckedObjectsAreFinal
<1> QED
  BY <1>1, <1>2, PromiseIsKept, PTL DEF AckedObjectsAreFinal

(* RowsInOrder for the loop: whatever moves, an object has the records of   *)
(* its range in the order of the log, each once.                            *)
RowsAscend ==
    \A obj \in objects : \A i, j \in DOMAIN obj.records :
        i < j => obj.records[i] < obj.records[j]

THEOREM RowsAscendIfCareful == CarefulSpec => []RowsAscend
<1>1. Promise!RowsInOrder => RowsAscend
  BY DEF Promise!RowsInOrder, RowsAscend
<1>2. Promise!Spec => []Promise!RowsInOrder
  BY PromiseAssumptions, Promise!RowsInOrderAlways, PTL
<1> QED
  BY <1>1, <1>2, PromiseIsKept, PTL

(* What process c has of p in memory and will not drop: its buffer, unless  *)
(* it waits to be drained, and the record behind the flush of p.            *)
Keeps(c, p) ==
    (IF p \in revoked[c] THEN {} ELSE Rows(batchers[c][p]))
        \union (IF Target(c) = p THEN call[c].pending ELSE {})

(* No record that an owner has read is lost between the client, the buffer  *)
(* and the bucket, also when partitions come back to a process that still   *)
(* has their old buffer.                                                    *)
NothingReadIsLost ==
    \A c \in Consumers, p \in Partitions : owner[p] = c =>
        \A o \in Log[p] : o < position[c][p] => Stored(p, o) \/ o \in Keeps(c, p)

THEOREM NothingReadIsLostIfCareful == CarefulSpec => []NothingReadIsLost
<1>1. IInv /\ Promise!ReadIsHeldOrStored => NothingReadIsLost
  <2> SUFFICES ASSUME IInv, Promise!ReadIsHeldOrStored,
                      NEW c \in Consumers, NEW p \in Partitions, owner[p] = c,
                      NEW o \in Log[p], o < position[c][p], ~ Stored(p, o)
               PROVE  o \in Keeps(c, p)
    BY DEF NothingReadIsLost
  <2>1. c \notin evicted /\ owner[p] # NoOwner /\ readAt[p] = position[c][p]
    BY GroupAssumption DEF IInv, OwnerInv, readAt
  <2>2. o \in Promise!InFlight(owner[p], p)
    BY <2>1 DEF Promise!ReadIsHeldOrStored, Promise!Stored, Stored, Promise!Range, Range
  <2>3. seenCall[c] = call[c]
    BY <2>1 DEF seenCall
  <2>4. Promise!Pending(c, p) = IF Target(c) = p THEN call[c].pending ELSE {}
    BY <2>3 DEF Promise!Pending, Promise!Target, Target
  <2>5. seenBatchers[c][p] = IF p \in revoked[c] THEN NoBatcher ELSE batchers[c][p]
    BY DEF seenBatchers, Seen, Shown
  <2>6. Rows(NoBatcher) = {}
    BY DEF Rows, NoBatcher, Range
  <2>7. Promise!Rows(seenBatchers[c][p]) = Rows(seenBatchers[c][p])
    BY DEF Promise!Rows, Rows, Promise!Range, Range
  <2> QED
    BY <2>2, <2>4, <2>5, <2>6, <2>7 DEF Promise!InFlight, Keeps
<1>2. Promise!Spec => []Promise!ReadIsHeldOrStored
  BY PromiseAssumptions, Promise!ReadIsHeldOrStoredAlways, PTL
<1> QED
  BY <1>1, <1>2, PromiseIsKept, CarefulInvariant, PTL

(* The service as a whole: through rebalances, evictions, crashes and       *)
(* failed requests the loop does to bucket and offsets what Staging allows. *)
THEOREM ImplementsStagingIfCareful == CarefulSpec => Promise!ImplementsStaging
  BY PromiseAssumptions, Promise!Implementation, PromiseIsKept, PTL

(* The uploads of a name take turns, from one owner to the next.            *)
THEOREM UploadsTakeTurnsIfCareful == CarefulSpec => Promise!UploadsTakeTurns
  BY PromiseAssumptions, Promise!UploadsTakeTurnsAlways, PromiseIsKept, PTL
===============================================================================
