-------------------------- MODULE ConsumerGroupProofs --------------------------
(***************************************************************************)
(* Proofs about ConsumerGroup: what holds however partitions move, for every *)
(* number of processes, partitions, rebalances and evictions.               *)
(***************************************************************************)
EXTENDS ConsumerGroup, PipelineProofs

-------------------------------------------------------------------------------
(* Type correctness. *)

LEMMA TypeInit ==
    ASSUME Init
    PROVE  TypeOK
<1>1. 0 \in Offsets /\ 0 \in Days /\ 0 \in 0 .. MaxI64 + 1
  BY WordAssumption, PipelineAssumption DEF Offsets, Days
<1>2. PipelineTypeOK
  BY <1>1, BatcherTypes, CallTypes DEF Init, PipelineInit, PipelineTypeOK
<1>3. 0 \in 0 .. MaxRebalances /\ 0 \in 0 .. MaxEvictions
  BY GroupAssumption
<1> QED
  BY <1>1, <1>2, <1>3 DEF Init, TypeOK

LEMMA GoneTypes ==
    ASSUME TypeOK, NEW c \in Consumers, Gone(c), PipelineTypeOK'
    PROVE  TypeOK'
<1>1. 0 \in 0 .. MaxI64 + 1
  BY WordAssumption
<1>2. position' \in [Consumers -> [Partitions -> 0 .. MaxI64 + 1]]
  BY <1>1 DEF Gone, TypeOK
<1>3. /\ phase' \in [Consumers -> {"top", "select", "closing", "down"}]
      /\ phase' = [phase EXCEPT ![c] = "down"]
  BY DEF Gone, GoTo, TypeOK
<1>4. signalled' \subseteq {k \in Consumers : phase'[k] # "down"}
  BY <1>3 DEF Gone, TypeOK
<1>5. owner' \in [Partitions -> Consumers \union {NoOwner}]
  BY DEF Gone, TypeOK
<1> QED
  BY <1>2, <1>3, <1>4, <1>5 DEF Gone, TypeOK

(* A move of the loop to a phase that is not the end. *)
LEMMA PhaseTypes ==
    ASSUME TypeOK, NEW c \in Consumers, NEW where \in {"top", "select", "closing"},
           GoTo(c, where), signalled' = signalled
    PROVE  /\ phase' \in [Consumers -> {"top", "select", "closing", "down"}]
           /\ signalled' \subseteq {k \in Consumers : phase'[k] # "down"}
  BY DEF GoTo, TypeOK

LEMMA LoopTypes ==
    ASSUME TypeOK, NEW c \in Consumers, LoopStep(c)
    PROVE  TypeOK'
<1> USE DEF TypeOK
<1>1. CASE Drain(c)
  <2>1. PipelineTypeOK'
    BY <1>1, PipelineTypes DEF Drain
  <2> QED
    BY <1>1, <2>1, PhaseTypes DEF Drain, groupVars
<1>2. CASE TickBranch(c)
  <2>1. PipelineTypeOK'
    BY <1>2, PipelineTypes DEF TickBranch
  <2> QED
    BY <1>2, <2>1, PhaseTypes DEF TickBranch, groupVars
<1>3. CASE RecvError(c)
  <2>1. PipelineTypeOK'
    BY <1>3 DEF RecvError, pipelineVars, PipelineTypeOK
  <2> QED
    BY <1>3, <2>1, PhaseTypes DEF RecvError, groupVars
<1>4. CASE Signal(c)
  <2>1. PipelineTypeOK'
    BY <1>4 DEF Signal, pipelineVars, PipelineTypeOK
  <2> QED
    BY <1>4, <2>1 DEF Signal, groupVars
<1>5. CASE ShutdownBranch(c)
  <2>1. PipelineTypeOK'
    BY <1>5, PipelineTypes DEF ShutdownBranch
  <2> QED
    BY <1>5, <2>1, PhaseTypes DEF ShutdownBranch, AfterShutdown, groupVars
<1>6. ASSUME NEW p \in Partitions, NEW o \in Log[p], RecvBranch(c, p, o)
      PROVE  TypeOK'
  <2>1. o \in Offsets
    BY GroupAssumption
  <2>2. o + 1 \in 0 .. MaxI64 + 1
    BY <2>1, WordAssumption DEF Offsets
  <2>3. PipelineTypeOK'
    BY <1>6, <2>1, PipelineTypes DEF RecvBranch
  <2>4. position' \in [Consumers -> [Partitions -> 0 .. MaxI64 + 1]]
    BY <1>6, <2>2 DEF RecvBranch
  <2> QED
    BY <1>6, <2>3, <2>4, PhaseTypes DEF RecvBranch
<1> QED
  BY <1>1, <1>2, <1>3, <1>4, <1>5, <1>6 DEF LoopStep

LEMMA GroupTypes ==
    ASSUME TypeOK, NEW c \in Consumers, GroupStep(c)
    PROVE  TypeOK'
<1> USE DEF TypeOK
<1>0. /\ 0 \in 0 .. MaxI64 + 1
      /\ \A p \in Partitions : committed[p] \in 0 .. MaxI64 + 1
  BY WordAssumption DEF PipelineTypeOK, Offsets
<1>1. CASE Revocation(c)
  <2>1. PipelineTypeOK'
    BY <1>1 DEF Revocation, pipelineVars, PipelineTypeOK
  <2>2. rebalances' \in 0 .. MaxRebalances
    BY <1>1, GroupAssumption DEF Revocation
  <2>3. position' \in [Consumers -> [Partitions -> 0 .. MaxI64 + 1]]
    BY <1>0, <1>1 DEF Revocation
  <2>4. /\ revoked' \in [Consumers -> SUBSET Partitions]
        /\ assigned' \in [Consumers -> SUBSET Partitions]
        /\ owner' \in [Partitions -> Consumers \union {NoOwner}]
        /\ evicted' \subseteq Consumers
    BY <1>1 DEF Revocation, Forwarded
  <2> QED
    BY <1>1, <2>1, <2>2, <2>3, <2>4 DEF Revocation
<1>2. CASE Eviction(c)
  <2>1. PipelineTypeOK'
    BY <1>2 DEF Eviction, pipelineVars, PipelineTypeOK
  <2>2. evictions' \in 0 .. MaxEvictions
    BY <1>2, GroupAssumption DEF Eviction
  <2> QED
    BY <1>2, <2>1, <2>2 DEF Eviction, loopVars
<1>3. ASSUME NEW ps \in SUBSET Partitions, Assignment(c, ps)
      PROVE  TypeOK'
  <2>1. PipelineTypeOK'
    BY <1>3 DEF Assignment, pipelineVars, PipelineTypeOK
  <2>2. position' \in [Consumers -> [Partitions -> 0 .. MaxI64 + 1]]
    BY <1>0, <1>3 DEF Assignment
  <2> QED
    BY <1>3, <2>1, <2>2 DEF Assignment, loopVars
<1> QED
  BY <1>1, <1>2, <1>3 DEF GroupStep

LEMMA TypeStep ==
    ASSUME TypeOK, [Next]_vars
    PROVE  TypeOK'
<1>1. ASSUME NEW c \in Consumers, CallStep(c)
      PROVE  TypeOK'
  <2>1. CASE Answered(c)
    <3>1. PipelineTypeOK'
      BY <2>1, PipelineTypes DEF Answered, TypeOK
    <3> QED
      BY <2>1, <3>1 DEF Answered, loopVars, groupVars, TypeOK
  <2>2. CASE UploadError(c)
    BY <2>2, GoneTypes, PipelineTypes DEF UploadError, TypeOK
  <2>3. CASE CommitError(c)
    BY <2>3, GoneTypes, PipelineTypes DEF CommitError, TypeOK
  <2> QED
    BY <1>1, <2>1, <2>2, <2>3 DEF CallStep
<1>2. ASSUME NEW c \in Consumers, Stopped(c) \/ Crash(c)
      PROVE  TypeOK'
  <2>1. PipelineTypeOK'
    BY <1>2, ExitTypes DEF Stopped, Crash, TypeOK, PipelineTypeOK
  <2> QED
    BY <1>2, <2>1, GoneTypes DEF Stopped, Crash
<1>3. ASSUME NEW c \in Consumers, Restart(c)
      PROVE  TypeOK'
  <2>1. PipelineTypeOK'
    BY <1>3 DEF Restart, pipelineVars, TypeOK, PipelineTypeOK
  <2> QED
    BY <1>3, <2>1, PhaseTypes DEF Restart, groupVars, TypeOK
<1>4. ASSUME ClockStep
      PROVE  TypeOK'
  <2>1. PipelineTypeOK'
    <3>1. CASE NewDay
      BY <3>1, PipelineAssumption DEF NewDay, TypeOK, PipelineTypeOK, Days
    <3>2. CASE \E c \in Consumers : Elapse(c)
      BY <3>2, PipelineTypes DEF TypeOK
    <3> QED
      BY <1>4, <3>1, <3>2 DEF ClockStep
  <2> QED
    BY <1>4, <2>1 DEF ClockStep, loopVars, groupVars, TypeOK
<1>5. ASSUME UNCHANGED vars
      PROVE  TypeOK'
  BY <1>5 DEF vars, pipelineVars, loopVars, groupVars, TypeOK, PipelineTypeOK
<1> QED
  BY <1>1, <1>2, <1>3, <1>4, <1>5, LoopTypes, GroupTypes DEF Next

(* The state of the group stays well typed: in particular an upload is       *)
(* attempted at most MaxAttempts times also in a process that has lost its   *)
(* partitions, and only running processes hold a signal.                     *)
THEOREM TypeCorrect == Spec => []TypeOK
<1>1. Init => TypeOK
  BY TypeInit
<1>2. TypeOK /\ [Next]_vars => TypeOK'
  BY TypeStep
<1> QED
  BY <1>1, <1>2, PTL DEF Spec
-------------------------------------------------------------------------------
(* What the invariant says about one process and one partition. *)

LEMMA TypeFacts ==
    ASSUME TypeOK
    PROVE  /\ \A c \in Consumers, p \in Partitions :
                 batchers[c][p] \in Batchers /\ position[c][p] \in Nat
           /\ \A p \in Partitions : committed[p] \in Nat
           /\ \A p \in Partitions : Log[p] \subseteq Offsets
           /\ \A c \in Consumers :
                 /\ batchers[c] \in [Partitions -> Batchers]
                 /\ Target(c) \in Partitions
                 /\ Current(c) \in Batchers
                 /\ Current(c) = batchers[c][Target(c)]
                 /\ call[c].pending \in SUBSET Offsets
                 /\ call[c].todo \in SUBSET Partitions
                 /\ call[c].name \in Names
                 /\ call[c].name.range \in Ranges
<1>1. \A c \in Consumers, p \in Partitions : batchers[c][p] \in Batchers
  BY DEF TypeOK, PipelineTypeOK
<1>2. \A c \in Consumers, p \in Partitions : position[c][p] \in Nat
  <2>1. \A c \in Consumers, p \in Partitions : position[c][p] \in 0 .. MaxI64 + 1
    BY DEF TypeOK
  <2>2. \A n \in 0 .. MaxI64 + 1 : n \in Nat
    BY WordAssumption
  <2> QED
    BY <2>1, <2>2
<1>3. \A p \in Partitions : committed[p] \in Nat
  BY OffsetFacts DEF TypeOK, PipelineTypeOK
<1>4. \A p \in Partitions : Log[p] \subseteq Offsets
  BY GroupAssumption
<1>5. ASSUME NEW c \in Consumers
      PROVE  /\ batchers[c] \in [Partitions -> Batchers]
             /\ Target(c) \in Partitions
             /\ Current(c) \in Batchers
             /\ Current(c) = batchers[c][Target(c)]
             /\ call[c].pending \in SUBSET Offsets
             /\ call[c].todo \in SUBSET Partitions
             /\ call[c].name \in Names
             /\ call[c].name.range \in Ranges
  BY OverwrittenTypes DEF TypeOK, PipelineTypeOK, Current
<1> QED
  BY <1>1, <1>2, <1>3, <1>4, <1>5

(* The last record of a full buffer is the last offset of its range. *)
LEMMA FullFacts ==
    ASSUME NEW b \in Batchers, IsFull(b), \A o \in Rows(b) : Contains(b.range, o)
    PROVE  /\ Held(b)
           /\ b.range.end \in Offsets
           /\ b.records[Len(b.records)] = b.range.end
           /\ CommitOffset(b.range) = b.range.end + 1
<1> DEFINE x == b.records[Len(b.records)]
<1>1. Held(b) /\ x >= b.range.end
  BY DEF IsFull, IsComplete
<1>2. x \in Rows(b) /\ x \in Offsets /\ x \in Nat /\ x <= b.range.end
  BY <1>1, BatcherFacts, OffsetFacts DEF Contains
<1>3. b.range \in BatchRanges /\ b.range.end \in Nat
  BY BatcherFacts, RangesFacts
<1>4. x = b.range.end
  BY <1>1, <1>2, <1>3
<1>5. b.range.end \in Offsets
  BY <1>2, <1>4
<1> QED
  BY <1>1, <1>3, <1>4, <1>5, CommitOffsetIsNext

(* Buffers that no call has completed. *)
Calm(c, bs) ==
    \A p \in Partitions :
        /\ Held(bs[p]) => p \in assigned[c] \union revoked[c]
        /\ bs[p].dirty => Held(bs[p])
        /\ \A o \in Rows(bs[p]) : Contains(bs[p].range, o)
        /\ ~ IsFull(bs[p])

GoodProcess(c) == (\A p \in Partitions : GoodBuffer(c, p)) /\ GoodCall(c)

LEMMA CalmAtRest ==
    ASSUME IInv, NEW c \in Consumers, Ready(c)
    PROVE  Calm(c, batchers[c])
  BY DEF IInv, GoodBuffer, Calm

(* A process that waits in select! is in no call. *)
LEMMA NoCallInSelect ==
    ASSUME IInv, NEW c \in Consumers, phase[c] = "select" \/ phase[c] = "down"
    PROVE  Ready(c)
  BY DEF IInv, GoodCall

LEMMA NoBatcherIsCalm ==
    /\ ~ Held(NoBatcher) /\ ~ NoBatcher.dirty /\ Rows(NoBatcher) = {} /\ ~ IsFull(NoBatcher)
  BY NoBatcherFacts DEF IsFull

(* Objects may be replaced, but no name disappears from the bucket. *)
NamesStay == \A obj \in objects : \E new \in objects' : new.name = obj.name

LEMMA OverwrittenKeepsNames ==
    ASSUME NEW name, NEW records, objects' = Overwritten(name, records)
    PROVE  NamesStay /\ \E obj \in objects' : obj.name = name
<1> DEFINE new == [name |-> name, records |-> records]
<1>1. new \in objects' /\ new.name = name
  BY DEF Overwritten
<1>2. ASSUME NEW obj \in objects PROVE \E k \in objects' : k.name = obj.name
  <2>1. CASE obj.name = name
    BY <1>1, <2>1
  <2>2. CASE obj.name # name
    BY <2>2 DEF Overwritten
  <2> QED
    BY <2>1, <2>2
<1> QED
  BY <1>1, <1>2 DEF NamesStay

(* A process that a step leaves alone stays good. *)
LEMMA OtherProcess ==
    ASSUME IInv, NEW c \in Consumers, NamesStay,
           batchers'[c] = batchers[c], call'[c] = call[c], phase'[c] = phase[c],
           assigned'[c] = assigned[c], revoked'[c] = revoked[c], position'[c] = position[c]
    PROVE  GoodProcess(c)'
<1>1. Ready(c)' = Ready(c) /\ Target(c)' = Target(c) /\ Current(c)' = Current(c)
  BY DEF Ready, Target, Current
<1>2. ASSUME NEW p \in Partitions PROVE GoodBuffer(c, p)'
  BY <1>1 DEF IInv, GoodBuffer
<1>3. GoodCall(c)'
  <2>1. ~ Ready(c) =>
          /\ phase'[c] \in {"top", "closing"}
          /\ Held(Current(c))
          /\ call'[c].name.range = Current(c).range
          /\ \A o \in call'[c].pending :
                Target(c) \in assigned'[c] /\ position'[c][Target(c)] = o + 1
          /\ \A p \in call'[c].todo : p # Target(c) /\ Held(batchers'[c][p])
    BY DEF IInv, GoodCall
  <2>2. call'[c].stage = "commit" =>
          IsFull(Current(c)) /\ \E obj \in objects' : obj.name = call'[c].name
    BY DEF IInv, GoodCall, NamesStay
  <2> QED
    BY <1>1, <2>1, <2>2 DEF GoodCall
<1> QED
  BY <1>2, <1>3 DEF GoodProcess

-------------------------------------------------------------------------------
(* The steps of a call. *)

(* A call that starts, or goes on, with buffers bs of which none is full. *)
LEMMA FlushStarts ==
    ASSUME TypeOK, NEW c \in Consumers, NEW bs \in [Partitions -> Batchers], Calm(c, bs),
           NEW p \in Partitions, Held(bs[p]),
           NEW pending \in SUBSET Offsets, NEW todo \in SUBSET Partitions,
           \A q \in todo : q # p /\ Held(bs[q]),
           \A o \in pending : p \in assigned[c] /\ position'[c][p] = o + 1,
           batchers'[c] = bs, call'[c] = FlushCall(p, bs[p], pending, todo),
           phase'[c] \in {"top", "closing"},
           assigned'[c] = assigned[c], revoked'[c] = revoked[c]
    PROVE  GoodProcess(c)'
<1>1. /\ call'[c].stage = "put" /\ call'[c].name.partition = p
      /\ call'[c].name.range = bs[p].range
      /\ call'[c].pending = pending /\ call'[c].todo = todo
  BY DEF FlushCall, ObjectName
<1>2. ~ Ready(c)' /\ Target(c)' = p /\ Current(c)' = bs[p]
  BY <1>1 DEF Ready, Target, Current
<1>3. ASSUME NEW q \in Partitions PROVE GoodBuffer(c, q)'
  BY DEF Calm, GoodBuffer
<1>4. GoodCall(c)'
  BY <1>1, <1>2 DEF GoodCall
<1> QED
  BY <1>3, <1>4 DEF GoodProcess

LEMMA CallEnds ==
    ASSUME TypeOK, NEW c \in Consumers, NEW bs, Calm(c, bs),
           batchers'[c] = bs, call'[c] = NoCall,
           assigned'[c] = assigned[c], revoked'[c] = revoked[c]
    PROVE  GoodProcess(c)'
<1>1. Ready(c)' /\ call'[c].stage # "commit"
  BY DEF Ready, NoCall
<1>2. ASSUME NEW q \in Partitions PROVE GoodBuffer(c, q)'
  BY DEF Calm, GoodBuffer
<1>3. GoodCall(c)'
  BY <1>1 DEF GoodCall
<1> QED
  BY <1>2, <1>3 DEF GoodProcess

(* The loop of tick and flush_all. *)
LEMMA FlushEachGood ==
    ASSUME TypeOK, NEW c \in Consumers, NEW bs \in [Partitions -> Batchers], Calm(c, bs),
           NEW todo \in SUBSET Partitions, \A q \in todo : Held(bs[q]),
           FlushEach(c, bs, todo), phase'[c] \in {"top", "closing"},
           assigned'[c] = assigned[c], revoked'[c] = revoked[c]
    PROVE  GoodProcess(c)'
<1>1. batchers'[c] = bs
  BY DEF FlushEach, TypeOK, PipelineTypeOK
<1>2. CASE call' = [call EXCEPT ![c] = NoCall]
  <2>1. call'[c] = NoCall
    BY <1>2 DEF TypeOK, PipelineTypeOK
  <2> QED
    BY <1>1, <2>1, CallEnds
<1>3. ASSUME NEW p \in todo, call' = [call EXCEPT ![c] = FlushCall(p, bs[p], {}, todo \ {p})]
      PROVE  GoodProcess(c)'
  <2>1. call'[c] = FlushCall(p, bs[p], {}, todo \ {p})
    BY <1>3 DEF TypeOK, PipelineTypeOK
  <2>2. p \in Partitions /\ Held(bs[p]) /\ todo \ {p} \in SUBSET Partitions
    OBVIOUS
  <2>3. \A q \in todo \ {p} : q # p /\ Held(bs[q])
    OBVIOUS
  <2> QED
    BY <1>1, <2>1, <2>2, <2>3, FlushStarts
<1> QED
  BY <1>2, <1>3 DEF FlushEach

(* The end of offer: the pushed record may complete its range. *)
LEMMA PushRecordGood ==
    ASSUME TypeOK, NEW c \in Consumers, NEW bs \in [Partitions -> Batchers], Calm(c, bs),
           NEW p \in Partitions, NEW o \in Offsets, p \in assigned[c],
           position'[c][p] = o + 1,
           PushRecord(c, bs, p, o), phase'[c] \in {"top", "closing"},
           assigned'[c] = assigned[c], revoked'[c] = revoked[c]
    PROVE  GoodProcess(c)'
<1> DEFINE b == Pushed(bs[p], o)
<1>1. /\ batchers'[c] = [bs EXCEPT ![p] = b]
      /\ call'[c] = IF IsFull(b) THEN FlushCall(p, b, {}, {}) ELSE NoCall
  BY DEF PushRecord, TypeOK, PipelineTypeOK
<1>2. /\ b \in Batchers /\ Held(b) /\ b.dirty
      /\ b.records[Len(b.records)] = o
      /\ \A u \in Rows(b) : Contains(b.range, u)
  <2>1. bs[p] \in Batchers
    OBVIOUS
  <2>2. /\ b.range = RangeOf(o) /\ Held(b) /\ b.dirty
        /\ b.records[Len(b.records)] = o
        /\ bs[p].range = RangeOf(o) => Rows(b) = Rows(bs[p]) \union {o}
        /\ bs[p].range # RangeOf(o) => Rows(b) = {o}
    BY <2>1, PushedFacts
  <2>3. Contains(RangeOf(o), o) /\ b \in Batchers
    BY <2>1, RangeFacts, BatcherTypes
  <2> QED
    BY <2>2, <2>3 DEF Calm
<1> HIDE DEF b
<1>3. batchers'[c][p] = b /\ \A q \in Partitions : q # p => batchers'[c][q] = bs[q]
  BY <1>1
<1>4. CASE ~ IsFull(b)
  <2>1. call'[c] = NoCall
    BY <1>1, <1>4
  <2>2. Calm(c, batchers'[c])
    BY <1>2, <1>3, <1>4 DEF Calm
  <2> QED
    BY <2>1, <2>2, CallEnds
<1>5. CASE IsFull(b)
  <2>1. b.range.end = o
    BY <1>2, <1>5, FullFacts
  <2>2. /\ call'[c].stage = "put" /\ call'[c].name.partition = p
        /\ call'[c].name.range = b.range
        /\ call'[c].pending = {} /\ call'[c].todo = {}
    BY <1>1, <1>5 DEF FlushCall, ObjectName
  <2>3. ~ Ready(c)' /\ Target(c)' = p /\ Current(c)' = b
    BY <1>3, <2>2 DEF Ready, Target, Current
  <2>4. ASSUME NEW q \in Partitions PROVE GoodBuffer(c, q)'
    <3>1. CASE q = p
      BY <1>2, <1>3, <2>1, <2>2, <2>3, <3>1 DEF GoodBuffer
    <3>2. CASE q # p
      BY <1>3, <3>2 DEF Calm, GoodBuffer
    <3> QED
      BY <3>1, <3>2
  <2>5. GoodCall(c)'
    BY <1>2, <2>2, <2>3 DEF GoodCall
  <2> QED
    BY <2>4, <2>5 DEF GoodProcess
<1> QED
  BY <1>4, <1>5

(* flush_partition returns to its caller. *)
LEMMA ReturnGood ==
    ASSUME IInv, NEW c \in Consumers, ~ Ready(c),
           NEW bs \in [Partitions -> Batchers], Calm(c, bs),
           \A q \in Partitions : q # Target(c) => bs[q] = batchers[c][q],
           Return(c, bs), UNCHANGED <<loopVars, groupVars>>
    PROVE  GoodProcess(c)'
<1>1. TypeOK
  BY DEF IInv
<1>2. /\ phase'[c] \in {"top", "closing"}
      /\ assigned'[c] = assigned[c] /\ revoked'[c] = revoked[c] /\ position' = position
  BY DEF IInv, GoodCall, loopVars, groupVars
<1>3. /\ Target(c) \in Partitions
      /\ call[c].pending \in SUBSET Offsets /\ call[c].todo \in SUBSET Partitions
  BY <1>1, TypeFacts
<1>4. ASSUME NEW o \in call[c].pending, PushRecord(c, bs, Target(c), o)
      PROVE  GoodProcess(c)'
  <2>1. Target(c) \in assigned[c] /\ position[c][Target(c)] = o + 1
    BY DEF IInv, GoodCall
  <2> QED
    BY <1>1, <1>2, <1>3, <1>4, <2>1, PushRecordGood
<1>5. CASE FlushEach(c, bs, call[c].todo)
  <2>1. \A q \in call[c].todo : Held(bs[q])
    BY <1>3 DEF IInv, GoodCall
  <2> QED
    BY <1>1, <1>2, <1>3, <1>5, <2>1, FlushEachGood
<1> QED
  BY <1>4, <1>5 DEF Return
-------------------------------------------------------------------------------
(* The steps of the system, one lemma for each kind. *)

OthersKept(c) ==
    \A k \in Consumers : k # c =>
        /\ batchers'[k] = batchers[k] /\ call'[k] = call[k] /\ phase'[k] = phase[k]
        /\ assigned'[k] = assigned[k] /\ revoked'[k] = revoked[k]
        /\ position'[k] = position[k]

(* A call of c touches the memory of no other process. *)
LEMMA ReturnKeepsOthers ==
    ASSUME TypeOK, NEW c \in Consumers, NEW bs \in [Partitions -> Batchers],
           \/ Return(c, bs)
           \/ \E p \in Partitions, o \in Offsets : PushRecord(c, bs, p, o)
           \/ \E todo \in SUBSET Partitions : FlushEach(c, bs, todo)
    PROVE  \A k \in Consumers : k # c =>
              batchers'[k] = batchers[k] /\ call'[k] = call[k]
<1>1. batchers \in [Consumers -> [Partitions -> Batchers]] /\ call \in [Consumers -> Calls]
  BY DEF TypeOK, PipelineTypeOK
<1>2. ASSUME NEW p \in Partitions, NEW o \in Offsets, PushRecord(c, bs, p, o),
             NEW k \in Consumers, k # c
      PROVE  batchers'[k] = batchers[k] /\ call'[k] = call[k]
  <2> DEFINE b == Pushed(bs[p], o)
  <2>1. /\ batchers' = [batchers EXCEPT ![c] = [bs EXCEPT ![p] = b]]
        /\ call' = [call EXCEPT ![c] = IF IsFull(b) THEN FlushCall(p, b, {}, {}) ELSE NoCall]
    BY <1>2 DEF PushRecord
  <2> HIDE DEF b
  <2> QED
    BY <1>1, <1>2, <2>1
<1>3. ASSUME NEW todo \in SUBSET Partitions, FlushEach(c, bs, todo), NEW k \in Consumers, k # c
      PROVE  batchers'[k] = batchers[k] /\ call'[k] = call[k]
  BY <1>1, <1>3 DEF FlushEach
<1>4. /\ Target(c) \in Partitions
      /\ call[c].pending \in SUBSET Offsets /\ call[c].todo \in SUBSET Partitions
  BY TypeFacts
<1>5. \/ \E p \in Partitions, o \in Offsets : PushRecord(c, bs, p, o)
      \/ \E todo \in SUBSET Partitions : FlushEach(c, bs, todo)
  BY <1>4 DEF Return
<1> QED
  BY <1>2, <1>3, <1>5

(* The parts of the invariant put together. *)
LEMMA InvariantKept ==
    ASSUME IInv, TypeOK', NEW c \in Consumers, OthersKept(c), NamesStay, GoodProcess(c)',
           OwnerInv', ObjectsHoldTheirRange', CommitFollowsUpload'
    PROVE  IInv'
<1>1. \A k \in Consumers : GoodProcess(k)'
  <2>1. ASSUME NEW k \in Consumers, k # c PROVE GoodProcess(k)'
    BY <2>1, OtherProcess DEF OthersKept
  <2> QED
    BY <2>1
<1>2. /\ \A k \in Consumers, p \in Partitions : GoodBuffer(k, p)'
      /\ \A k \in Consumers : GoodCall(k)'
  BY <1>1 DEF GoodProcess
<1> QED
  BY <1>2 DEF IInv

LEMMA BucketKept ==
    ASSUME IInv, UNCHANGED <<objects, committed>>
    PROVE  NamesStay /\ ObjectsHoldTheirRange' /\ CommitFollowsUpload'
  BY DEF IInv, NamesStay, ObjectsHoldTheirRange, CommitFollowsUpload

LEMMA OwnersKept ==
    ASSUME IInv, UNCHANGED <<assigned, position, owner, evicted, committed>>
    PROVE  OwnerInv'
  BY DEF IInv, OwnerInv

LEMMA CommitsStay ==
    ASSUME IInv, NamesStay, UNCHANGED committed
    PROVE  CommitFollowsUpload'
<1>1. ASSUME NEW p \in Partitions, committed[p] # 0
      PROVE  \E obj \in objects' :
                obj.name.partition = p /\ CommitOffset(obj.name.range) = committed[p]
  <2>1. PICK obj \in objects :
          obj.name.partition = p /\ CommitOffset(obj.name.range) = committed[p]
    BY <1>1 DEF IInv, CommitFollowsUpload
  <2>2. PICK new \in objects' : new.name = obj.name
    BY DEF NamesStay
  <2> QED
    BY <2>1, <2>2
<1> QED
  BY <1>1 DEF CommitFollowsUpload

LEMMA DrainStep ==
    ASSUME IInv, TypeOK', NEW c \in Consumers, Drain(c)
    PROVE  IInv'
<1>1. /\ Ready(c) /\ batchers' = [batchers EXCEPT ![c] = WithoutBatchers(c, revoked[c])]
      /\ UNCHANGED <<call, objects, committed, assigned, position, owner, evicted>>
      /\ revoked' = [revoked EXCEPT ![c] = {}] /\ phase' = [phase EXCEPT ![c] = "select"]
  BY DEF Drain, Revoke, groupVars, GoTo
<1>2. batchers'[c] = WithoutBatchers(c, revoked[c]) /\ revoked'[c] = {}
  BY <1>1 DEF IInv, TypeOK, PipelineTypeOK
<1>3. Calm(c, batchers[c])
  BY <1>1, CalmAtRest
<1>4. ASSUME NEW p \in Partitions PROVE GoodBuffer(c, p)'
  <2>1. CASE p \in revoked[c]
    <3>1. batchers'[c][p] = NoBatcher
      BY <1>2, <2>1 DEF WithoutBatchers
    <3> QED
      BY <3>1, NoBatcherIsCalm DEF GoodBuffer
  <2>2. CASE p \notin revoked[c]
    <3>1. batchers'[c][p] = batchers[c][p]
      BY <1>2, <2>2 DEF WithoutBatchers
    <3> QED
      BY <1>1, <1>3, <2>2, <3>1 DEF GoodBuffer, Calm
  <2> QED
    BY <2>1, <2>2
<1>5. GoodCall(c)'
  BY <1>1 DEF GoodCall, Ready
<1>6. OthersKept(c)
  BY <1>1 DEF OthersKept
<1> QED
  BY <1>1, <1>4, <1>5, <1>6, BucketKept, OwnersKept, InvariantKept DEF GoodProcess

(* Steps that change nothing but where the loop is, or the signal. *)
LEMMA WaitStep ==
    ASSUME IInv, TypeOK', NEW c \in Consumers,
           UNCHANGED <<batchers, call, objects, committed>>,
           UNCHANGED <<revoked, assigned, position, owner, evicted>>,
           \A k \in Consumers : k # c => phase'[k] = phase[k],
           Ready(c) \/ phase'[c] = phase[c]
    PROVE  IInv'
<1>1. Ready(c)' = Ready(c) /\ Target(c)' = Target(c) /\ Current(c)' = Current(c)
  BY DEF Ready, Target, Current
<1>2. \A p \in Partitions : GoodBuffer(c, p)'
  BY <1>1 DEF IInv, GoodBuffer
<1>3. GoodCall(c)'
  BY <1>1 DEF IInv, GoodCall, Ready
<1>4. OthersKept(c)
  BY DEF OthersKept
<1> QED
  BY <1>2, <1>3, <1>4, BucketKept, OwnersKept, InvariantKept DEF GoodProcess

LEMMA QuietStep ==
    ASSUME IInv, TypeOK', UNCHANGED <<batchers, call, objects, committed, phase>>,
           UNCHANGED <<revoked, assigned, position, owner, evicted>>
    PROVE  IInv'
<1>1. NamesStay /\ ObjectsHoldTheirRange' /\ CommitFollowsUpload'
  BY BucketKept
<1>2. \A k \in Consumers : GoodProcess(k)'
  BY <1>1, OtherProcess
<1> QED
  BY <1>1, <1>2, OwnersKept DEF GoodProcess, IInv

LEMMA ElapseStep ==
    ASSUME IInv, TypeOK', NEW c \in Consumers, Elapse(c), UNCHANGED <<loopVars, groupVars>>
    PROVE  IInv'
<1>1. /\ Ready(c) /\ UNCHANGED <<call, objects, committed, phase, revoked>>
      /\ UNCHANGED <<assigned, position, owner, evicted>>
      /\ batchers' = [batchers EXCEPT ![c] = [p \in Partitions |-> Aged(batchers[c][p])]]
  BY DEF Elapse, loopVars, groupVars
<1>2. \A p \in Partitions : batchers'[c][p] = Aged(batchers[c][p])
  BY <1>1 DEF IInv, TypeOK, PipelineTypeOK
<1>3. Calm(c, batchers[c])
  BY <1>1, CalmAtRest
<1>4. ASSUME NEW p \in Partitions PROVE GoodBuffer(c, p)'
  <2> DEFINE b == batchers[c][p]
  <2>1. b \in Batchers
    BY TypeFacts DEF IInv
  <2>2. /\ Aged(b).range = b.range /\ Aged(b).records = b.records
        /\ Aged(b).dirty = b.dirty /\ Held(Aged(b)) = Held(b) /\ Rows(Aged(b)) = Rows(b)
    BY <2>1, FlushedFacts
  <2>3. ~ IsFull(Aged(b))
    BY <1>3, <2>2 DEF Calm, IsFull
  <2> QED
    BY <1>1, <1>2, <1>3, <2>2, <2>3 DEF GoodBuffer, Calm
<1>5. GoodCall(c)'
  BY <1>1 DEF GoodCall, Ready
<1>6. OthersKept(c)
  BY <1>1 DEF OthersKept
<1> QED
  BY <1>1, <1>4, <1>5, <1>6, BucketKept, OwnersKept, InvariantKept DEF GoodProcess

(* tick and the flush at shutdown. *)
LEMMA FlushStep ==
    ASSUME IInv, TypeOK', NEW c \in Consumers, TickBranch(c) \/ ShutdownBranch(c)
    PROVE  IInv'
<1>1. /\ Ready(c) /\ UNCHANGED <<objects, committed, revoked, assigned, position, owner, evicted>>
      /\ \/ FlushEach(c, batchers[c], IdleKeys(c)) /\ phase' = [phase EXCEPT ![c] = "top"]
         \/ FlushEach(c, batchers[c], DirtyKeys(c)) /\ phase' = [phase EXCEPT ![c] = "closing"]
  BY DEF TickBranch, ShutdownBranch, Tick, FlushAll, groupVars, GoTo, AfterShutdown
<1>2. Calm(c, batchers[c])
  BY <1>1, CalmAtRest
<1>3. \A p \in IdleKeys(c) \union DirtyKeys(c) : Held(batchers[c][p])
  BY <1>2 DEF Calm, IdleKeys, DirtyKeys, IsIdle
<1>4. TypeOK /\ batchers[c] \in [Partitions -> Batchers] /\ phase'[c] \in {"top", "closing"}
  BY <1>1, TypeFacts DEF IInv, TypeOK
<1>5. IdleKeys(c) \in SUBSET Partitions /\ DirtyKeys(c) \in SUBSET Partitions
  BY DEF IdleKeys, DirtyKeys
<1>6. GoodProcess(c)'
  BY <1>1, <1>2, <1>3, <1>4, <1>5, FlushEachGood
<1>7. OthersKept(c)
  <2>1. \E todo \in SUBSET Partitions : FlushEach(c, batchers[c], todo)
    BY <1>1, <1>5
  <2>2. \A k \in Consumers : k # c => batchers'[k] = batchers[k] /\ call'[k] = call[k]
    BY <1>4, <2>1, ReturnKeepsOthers
  <2> QED
    BY <1>1, <2>2 DEF OthersKept, IInv, TypeOK
<1> QED
  BY <1>1, <1>6, <1>7, BucketKept, OwnersKept, InvariantKept

LEMMA RecvStep ==
    ASSUME IInv, TypeOK', NEW c \in Consumers, NEW p \in Partitions, NEW o \in Log[p],
           RecvBranch(c, p, o)
    PROVE  IInv'
<1>1. /\ Ready(c) /\ p \in assigned[c] /\ o >= position[c][p]
      /\ position' = [position EXCEPT ![c][p] = o + 1]
      /\ phase' = [phase EXCEPT ![c] = "top"]
      /\ UNCHANGED <<objects, committed, revoked, assigned, owner, evicted>>
  BY DEF RecvBranch, Offer, IsNext, Unread, GoTo
<1>2. TypeOK /\ o \in Offsets /\ batchers[c] \in [Partitions -> Batchers]
  BY TypeFacts DEF IInv
<1>3. position'[c][p] = o + 1 /\ phase'[c] \in {"top", "closing"}
  BY <1>1, <1>2 DEF TypeOK
<1>4. Calm(c, batchers[c])
  BY <1>1, CalmAtRest
<1>5. CASE MustFlushFirst(batchers[c][p], o) /\ UNCHANGED batchers
           /\ call' = [call EXCEPT ![c] = FlushCall(p, batchers[c][p], {o}, {})]
  <2>1. call'[c] = FlushCall(p, batchers[c][p], {o}, {})
    BY <1>2, <1>5 DEF TypeOK, PipelineTypeOK
  <2>2. Held(batchers[c][p]) /\ {o} \in SUBSET Offsets
    BY <1>2, <1>5 DEF MustFlushFirst
  <2>3. \A u \in {o} : p \in assigned[c] /\ position'[c][p] = u + 1
    BY <1>1, <1>3
  <2> QED
    <3>1. GoodProcess(c)'
      <4>1. /\ batchers'[c] = batchers[c]
            /\ assigned'[c] = assigned[c] /\ revoked'[c] = revoked[c]
        BY <1>1, <1>5
      <4>2. {} \in SUBSET Partitions /\ \A q \in {} : q # p /\ Held(batchers[c][q])
        OBVIOUS
      <4> QED
        BY <1>2, <1>3, <1>4, <2>1, <2>2, <2>3, <4>1, <4>2, FlushStarts
    <3>2. OthersKept(c)
      BY <1>1, <1>5 DEF OthersKept
    <3>3. OwnerInv'
      BY <1>1, <1>2, <1>3, TypeFacts, OffsetFacts DEF IInv, OwnerInv, TypeOK
    <3> QED
      BY <1>1, <3>1, <3>2, <3>3, BucketKept, InvariantKept
<1>6. CASE PushRecord(c, batchers[c], p, o)
  <2>1. GoodProcess(c)'
    BY <1>1, <1>2, <1>3, <1>4, <1>6, PushRecordGood
  <2>2. OthersKept(c)
    <3>1. \A k \in Consumers : k # c => batchers'[k] = batchers[k] /\ call'[k] = call[k]
      BY <1>2, <1>6, ReturnKeepsOthers
    <3> QED
      BY <1>1, <3>1 DEF OthersKept, IInv, TypeOK
  <2>3. OwnerInv'
    BY <1>1, <1>2, <1>3, TypeFacts, OffsetFacts DEF IInv, OwnerInv, TypeOK
  <2> QED
    BY <1>1, <2>1, <2>2, <2>3, BucketKept, InvariantKept
<1> QED
  BY <1>5, <1>6 DEF RecvBranch, Offer

(* An upload that is applied replaces an object of the same name by rows of *)
(* the range in that name.                                                  *)
LEMMA BucketOverwritten ==
    ASSUME IInv, NEW c \in Consumers, ~ Ready(c),
           objects' = Overwritten(call[c].name, Current(c).records)
    PROVE  /\ NamesStay /\ ObjectsHoldTheirRange'
           /\ \E obj \in objects' : obj.name = call[c].name
<1>1. NamesStay /\ \E obj \in objects' : obj.name = call[c].name
  BY OverwrittenKeepsNames
<1>2. /\ call[c].name.range = Current(c).range
      /\ \A o \in Rows(Current(c)) : Contains(Current(c).range, o)
  <2>1. Target(c) \in Partitions /\ Current(c) = batchers[c][Target(c)]
    BY TypeFacts DEF IInv
  <2> QED
    BY <2>1 DEF IInv, GoodCall, GoodBuffer
<1>3. ASSUME NEW obj \in objects', NEW o \in Range(obj.records)
      PROVE  Contains(obj.name.range, o)
  <2>1. CASE obj \in objects
    BY <1>3, <2>1 DEF IInv, ObjectsHoldTheirRange
  <2>2. CASE obj = [name |-> call[c].name, records |-> Current(c).records]
    BY <1>2, <1>3, <2>2 DEF Rows
  <2> QED
    BY <2>1, <2>2 DEF Overwritten
<1> QED
  BY <1>1, <1>3 DEF ObjectsHoldTheirRange

LEMMA PutOkStep ==
    ASSUME IInv, TypeOK', NEW c \in Consumers, PutOk(c), UNCHANGED <<loopVars, groupVars>>
    PROVE  IInv'
<1> DEFINE b == Current(c)
           bs == [batchers[c] EXCEPT ![Target(c)] = Flushed(@)]
<1>1. /\ ~ Ready(c) /\ objects' = Overwritten(call[c].name, Current(c).records)
      /\ UNCHANGED <<committed, phase, revoked, assigned, position, owner, evicted>>
  BY DEF PutOk, Ready, loopVars, groupVars
<1>2. /\ NamesStay /\ ObjectsHoldTheirRange' /\ CommitFollowsUpload'
      /\ \E obj \in objects' : obj.name = call[c].name
  BY <1>1, BucketOverwritten, CommitsStay
<1>3. OwnerInv'
  BY <1>1, OwnersKept
<1>4. /\ TypeOK /\ Target(c) \in Partitions /\ b \in Batchers /\ b = batchers[c][Target(c)]
      /\ batchers[c] \in [Partitions -> Batchers]
  BY TypeFacts DEF IInv
<1> HIDE DEF b
<1>5. CASE IsFull(b) /\ UNCHANGED batchers /\ call' = [call EXCEPT ![c].stage = "commit"]
  <2>1. /\ call'[c].stage = "commit" /\ call'[c].name = call[c].name
        /\ call'[c].pending = call[c].pending /\ call'[c].todo = call[c].todo
    BY <1>4, <1>5 DEF TypeOK, PipelineTypeOK, Calls
  <2>2. ~ Ready(c)' /\ Target(c)' = Target(c) /\ Current(c)' = Current(c)
    BY <1>5, <2>1 DEF Ready, Target, Current
  <2>3. \A p \in Partitions : GoodBuffer(c, p)'
    BY <1>1, <1>5, <2>1, <2>2 DEF IInv, GoodBuffer
  <2>4. GoodCall(c)'
    BY <1>1, <1>2, <1>5, <2>1, <2>2 DEF IInv, GoodCall, b
  <2>5. OthersKept(c)
    BY <1>1, <1>5 DEF OthersKept
  <2> QED
    BY <1>2, <1>3, <2>3, <2>4, <2>5, InvariantKept DEF GoodProcess
<1>6. CASE ~ IsFull(b) /\ Return(c, bs)
  <2>1. /\ bs \in [Partitions -> Batchers] /\ bs[Target(c)] = Flushed(b)
        /\ \A q \in Partitions : q # Target(c) => bs[q] = batchers[c][q]
    BY <1>4, BatcherTypes
  <2>2. Calm(c, bs)
    <3>1. ASSUME NEW q \in Partitions, q # Target(c)
          PROVE  ~ IsFull(bs[q])
      BY <2>1, <3>1 DEF IInv, GoodBuffer
    <3>2. /\ Flushed(b).range = b.range /\ Flushed(b).records = b.records
          /\ Flushed(b).dirty = FALSE
          /\ Held(Flushed(b)) = Held(b) /\ Rows(Flushed(b)) = Rows(b)
      BY <1>4, FlushedFacts
    <3>3. ~ IsFull(Flushed(b))
      BY <1>6, <3>2 DEF IsFull
    <3>4. /\ Held(b) => Target(c) \in assigned[c] \union revoked[c]
          /\ \A o \in Rows(b) : Contains(b.range, o)
      BY <1>4 DEF IInv, GoodBuffer
    <3>5. ASSUME NEW q \in Partitions, q # Target(c)
          PROVE  /\ Held(bs[q]) => q \in assigned[c] \union revoked[c]
                 /\ bs[q].dirty => Held(bs[q])
                 /\ \A o \in Rows(bs[q]) : Contains(bs[q].range, o)
      BY <2>1, <3>5 DEF IInv, GoodBuffer
    <3> HIDE DEF bs
    <3> QED
      BY <2>1, <3>1, <3>2, <3>3, <3>4, <3>5 DEF Calm
  <2>3. GoodProcess(c)'
    BY <1>1, <1>6, <2>1, <2>2, ReturnGood
  <2>4. OthersKept(c)
    <3>1. \A k \in Consumers : k # c => batchers'[k] = batchers[k] /\ call'[k] = call[k]
      BY <1>4, <1>6, <2>1, ReturnKeepsOthers
    <3> QED
      BY <1>1, <3>1 DEF OthersKept
  <2> QED
    BY <1>2, <1>3, <2>3, <2>4, InvariantKept
<1> QED
  BY <1>5, <1>6 DEF PutOk, CommitsAfterUpload, b

LEMMA PutRetriedStep ==
    ASSUME IInv, TypeOK', NEW c \in Consumers, PutRetried(c), UNCHANGED <<loopVars, groupVars>>
    PROVE  IInv'
<1>1. /\ ~ Ready(c) /\ call' = [call EXCEPT ![c].attempt = @ + 1]
      /\ UNCHANGED <<batchers, committed, phase, revoked, assigned, position, owner, evicted>>
      /\ objects' = objects \/ objects' = Overwritten(call[c].name, Current(c).records)
  BY DEF PutRetried, Ready, loopVars, groupVars
<1>2. NamesStay /\ ObjectsHoldTheirRange' /\ CommitFollowsUpload'
  BY <1>1, BucketKept, BucketOverwritten, CommitsStay
<1>3. /\ call'[c].stage = call[c].stage /\ call'[c].name = call[c].name
      /\ call'[c].pending = call[c].pending /\ call'[c].todo = call[c].todo
  BY <1>1 DEF IInv, TypeOK, PipelineTypeOK, Calls
<1>4. Ready(c)' = Ready(c) /\ Target(c)' = Target(c) /\ Current(c)' = Current(c)
  BY <1>1, <1>3 DEF Ready, Target, Current
<1>5. \A p \in Partitions : GoodBuffer(c, p)'
  BY <1>1, <1>3, <1>4 DEF IInv, GoodBuffer
<1>6. GoodCall(c)'
  <2>1. call[c].stage # "commit"
    BY DEF PutRetried
  <2> QED
    BY <1>1, <1>3, <1>4, <2>1 DEF IInv, GoodCall
<1>7. OthersKept(c)
  BY <1>1 DEF OthersKept, IInv, TypeOK, PipelineTypeOK
<1> QED
  BY <1>1, <1>2, <1>5, <1>6, <1>7, OwnersKept, InvariantKept DEF GoodProcess

(* A commit that the broker takes comes from the owner, is as far as the    *)
(* owner has read, and has its object in the bucket.                        *)
LEMMA CommitFacts ==
    ASSUME IInv, NEW c \in Consumers, call[c].stage = "commit"
    PROVE  /\ ~ Ready(c) /\ call[c].pending = {}
           /\ NextToRead(c) = position[c][Target(c)]
           /\ CommitIsTaken(c) =>
                 owner[Target(c)] = c /\ committed[Target(c)] <= NextToRead(c)
           /\ \E obj \in objects :
                 obj.name.partition = Target(c) /\ CommitOffset(obj.name.range) = NextToRead(c)
<1>1. /\ Target(c) \in Partitions /\ Current(c) \in Batchers
      /\ Current(c) = batchers[c][Target(c)]
  BY TypeFacts DEF IInv
<1>2. /\ ~ Ready(c) /\ call[c].name.range = Current(c).range
      /\ IsFull(Current(c)) /\ \E obj \in objects : obj.name = call[c].name
  BY DEF IInv, GoodCall, Ready
<1>3. /\ call[c].pending = {} /\ Target(c) \in assigned[c]
      /\ position[c][Target(c)] = Current(c).range.end + 1
      /\ \A o \in Rows(Current(c)) : Contains(Current(c).range, o)
  BY <1>1, <1>2 DEF IInv, GoodBuffer
<1>4. NextToRead(c) = position[c][Target(c)]
  BY <1>1, <1>2, <1>3, FullFacts DEF NextToRead
<1>5. CommitIsTaken(c) => owner[Target(c)] = c /\ committed[Target(c)] <= NextToRead(c)
  BY <1>1, <1>3, <1>4 DEF IInv, OwnerInv, CommitIsTaken
<1>6. \E obj \in objects :
         obj.name.partition = Target(c) /\ CommitOffset(obj.name.range) = NextToRead(c)
  BY <1>2 DEF Target, NextToRead
<1> QED
  BY <1>2, <1>3, <1>4, <1>5, <1>6

(* committed' when c commits, and what still holds of it then. *)
LEMMA CommitEffect ==
    ASSUME IInv, NEW c \in Consumers, call[c].stage = "commit", CommitIsTaken(c),
           committed' = [committed EXCEPT ![Target(c)] = NextToRead(c)], UNCHANGED objects
    PROVE  /\ NamesStay /\ ObjectsHoldTheirRange' /\ CommitFollowsUpload'
           /\ committed'[Target(c)] = position[c][Target(c)]
           /\ owner[Target(c)] = c
           /\ \A p \in Partitions :
                 /\ p # Target(c) => committed'[p] = committed[p]
                 /\ committed'[p] >= committed[p]
<1>1. /\ committed'[Target(c)] = NextToRead(c)
      /\ \A p \in Partitions : p # Target(c) => committed'[p] = committed[p]
  BY TypeFacts DEF IInv, TypeOK, PipelineTypeOK
<1>2. CommitFollowsUpload'
  <2>1. ASSUME NEW p \in Partitions, committed'[p] # 0
        PROVE  \E obj \in objects' :
                  obj.name.partition = p /\ CommitOffset(obj.name.range) = committed'[p]
    <3>1. CASE p = Target(c)
      BY <1>1, <3>1, CommitFacts
    <3>2. CASE p # Target(c)
      BY <1>1, <2>1, <3>2 DEF IInv, CommitFollowsUpload
    <3> QED
      BY <3>1, <3>2
  <2> QED
    BY <2>1 DEF CommitFollowsUpload
<1>3. NamesStay /\ ObjectsHoldTheirRange'
  BY DEF NamesStay, IInv, ObjectsHoldTheirRange
<1>4. ASSUME NEW p \in Partitions PROVE committed'[p] >= committed[p]
  <2>1. committed[p] \in Nat /\ Target(c) \in Partitions /\ committed[Target(c)] \in Nat
    BY TypeFacts DEF IInv
  <2>2. position[c][Target(c)] \in Nat
    BY <2>1, TypeFacts DEF IInv
  <2> QED
    BY <1>1, <2>1, <2>2, CommitFacts
<1> QED
  BY <1>1, <1>2, <1>3, <1>4, CommitFacts

LEMMA CommitOkStep ==
    ASSUME IInv, TypeOK', NEW c \in Consumers, CommitIsTaken(c), CommitOk(c),
           UNCHANGED <<loopVars, groupVars>>
    PROVE  IInv'
<1> DEFINE bs == [batchers[c] EXCEPT ![Target(c)] = NoBatcher]
<1>1. /\ call[c].stage = "commit" /\ Return(c, bs) /\ UNCHANGED objects
      /\ committed' = [committed EXCEPT ![Target(c)] = NextToRead(c)]
      /\ UNCHANGED <<phase, revoked, assigned, position, owner, evicted>>
  BY DEF CommitOk, loopVars, groupVars
<1>2. /\ NamesStay /\ ObjectsHoldTheirRange' /\ CommitFollowsUpload'
      /\ committed'[Target(c)] = position[c][Target(c)]
      /\ owner[Target(c)] = c
      /\ \A p \in Partitions : p # Target(c) => committed'[p] = committed[p]
  BY <1>1, CommitEffect
<1>3. /\ TypeOK /\ Target(c) \in Partitions /\ batchers[c] \in [Partitions -> Batchers]
  BY TypeFacts DEF IInv
<1>4. /\ bs \in [Partitions -> Batchers] /\ bs[Target(c)] = NoBatcher
      /\ \A q \in Partitions : q # Target(c) => bs[q] = batchers[c][q]
  BY <1>3, BatcherTypes
<1> HIDE DEF bs
<1>5. Calm(c, bs)
  <2>1. ASSUME NEW q \in Partitions, q # Target(c)
        PROVE  /\ Held(bs[q]) => q \in assigned[c] \union revoked[c]
               /\ bs[q].dirty => Held(bs[q])
               /\ \A o \in Rows(bs[q]) : Contains(bs[q].range, o)
               /\ ~ IsFull(bs[q])
    BY <1>4, <2>1 DEF IInv, GoodBuffer
  <2> QED
    BY <1>4, <2>1, NoBatcherIsCalm DEF Calm
<1>6. GoodProcess(c)'
  BY <1>1, <1>4, <1>5, CommitFacts, ReturnGood
<1>7. OthersKept(c)
  <2>1. \A k \in Consumers : k # c => batchers'[k] = batchers[k] /\ call'[k] = call[k]
    BY <1>1, <1>3, <1>4, ReturnKeepsOthers
  <2> QED
    BY <1>1, <2>1 DEF OthersKept
<1>8. OwnerInv'
  <2>1. ASSUME NEW k \in Consumers, NEW p \in Partitions, owner[p] = k
        PROVE  committed'[p] <= position[k][p]
    <3>1. CASE p = Target(c)
      BY <1>2, <2>1, <3>1, TypeFacts DEF IInv
    <3>2. CASE p # Target(c)
      BY <1>2, <2>1, <3>2 DEF IInv, OwnerInv
    <3> QED
      BY <3>1, <3>2
  <2> QED
    BY <1>1, <2>1 DEF IInv, OwnerInv
<1> QED
  BY <1>2, <1>6, <1>7, <1>8, InvariantKept

-------------------------------------------------------------------------------
(* A process that ends. *)

LEMMA GoneStep ==
    ASSUME IInv, TypeOK', NEW c \in Consumers, Exit(c), Gone(c),
           NamesStay, ObjectsHoldTheirRange', CommitFollowsUpload',
           \A p \in Partitions : committed'[p] = committed[p] \/ owner[p] = c
    PROVE  IInv'
<1>1. TypeOK /\ PipelineTypeOK
  BY DEF IInv, TypeOK
<1>2. /\ call'[c] = NoCall
      /\ \A p \in Partitions : batchers'[c][p] = NoBatcher
      /\ assigned'[c] = {}
  BY <1>1 DEF Exit, Gone, TypeOK, PipelineTypeOK
<1>3. OthersKept(c)
  BY <1>1 DEF OthersKept, Exit, Gone, GoTo, TypeOK, PipelineTypeOK
<1>4. GoodProcess(c)'
  <2>1. ASSUME NEW p \in Partitions PROVE GoodBuffer(c, p)'
    BY <1>2, NoBatcherIsCalm DEF GoodBuffer
  <2>2. GoodCall(c)'
    BY <1>2 DEF GoodCall, Ready, NoCall
  <2> QED
    BY <2>1, <2>2 DEF GoodProcess
<1>5. OwnerInv'
  <2>1. ASSUME NEW p \in Partitions
        PROVE  owner'[p] = IF owner[p] = c THEN NoOwner ELSE owner[p]
    BY DEF Gone
  <2>2. evicted' = evicted \ {c} /\ NoOwner \notin Consumers
    BY GroupAssumption DEF Gone
  <2>3. ASSUME NEW k \in Consumers, NEW p \in Partitions
        PROVE  /\ owner'[p] = k <=> (p \in assigned'[k] /\ k \notin evicted')
               /\ owner'[p] = k => committed'[p] <= position'[k][p]
    <3>1. CASE k = c
      BY <1>2, <2>1, <2>2, <3>1
    <3>2. CASE k # c
      BY <1>3, <2>1, <2>2, <3>2 DEF OthersKept, IInv, OwnerInv
    <3> QED
      BY <3>1, <3>2
  <2> QED
    BY <2>3 DEF OwnerInv
<1> QED
  BY <1>3, <1>4, <1>5, InvariantKept

LEMMA UploadErrorStep ==
    ASSUME IInv, TypeOK', NEW c \in Consumers, UploadError(c)
    PROVE  IInv'
<1>1. /\ ~ Ready(c) /\ Exit(c) /\ Gone(c) /\ UNCHANGED committed
      /\ objects' = objects \/ objects' = Overwritten(call[c].name, Current(c).records)
  BY DEF UploadError, PutFailed, Ready
<1>2. NamesStay /\ ObjectsHoldTheirRange' /\ CommitFollowsUpload'
  BY <1>1, BucketKept, BucketOverwritten, CommitsStay
<1> QED
  BY <1>1, <1>2, GoneStep

LEMMA CommitErrorStep ==
    ASSUME IInv, TypeOK', NEW c \in Consumers, CommitError(c)
    PROVE  IInv'
<1>1. /\ call[c].stage = "commit" /\ Exit(c) /\ Gone(c) /\ UNCHANGED objects
      /\ \/ UNCHANGED committed
         \/ /\ CommitIsTaken(c)
            /\ committed' = [committed EXCEPT ![Target(c)] = NextToRead(c)]
  BY DEF CommitError, CommitFailed
<1>2. CASE UNCHANGED committed
  BY <1>1, <1>2, BucketKept, GoneStep
<1>3. CASE CommitIsTaken(c) /\ committed' = [committed EXCEPT ![Target(c)] = NextToRead(c)]
  <2>1. /\ NamesStay /\ ObjectsHoldTheirRange' /\ CommitFollowsUpload'
        /\ owner[Target(c)] = c
        /\ \A p \in Partitions : p # Target(c) => committed'[p] = committed[p]
    BY <1>1, <1>3, CommitEffect
  <2>2. \A p \in Partitions : committed'[p] = committed[p] \/ owner[p] = c
    BY <2>1
  <2> QED
    BY <1>1, <2>1, <2>2, GoneStep
<1> QED
  BY <1>1, <1>2, <1>3

-------------------------------------------------------------------------------
(* The group. *)

(* A process whose assignment changes while it waits, with nothing lost. *)
LEMMA Reassigned ==
    ASSUME IInv, NEW c \in Consumers, Ready(c),
           batchers'[c] = batchers[c], call'[c] = call[c],
           assigned[c] \union revoked[c] \subseteq assigned'[c] \union revoked'[c]
    PROVE  GoodProcess(c)'
<1>1. Calm(c, batchers[c])
  BY CalmAtRest
<1>2. ASSUME NEW p \in Partitions PROVE GoodBuffer(c, p)'
  BY <1>1 DEF Calm, GoodBuffer
<1>3. GoodCall(c)'
  BY DEF GoodCall, Ready
<1> QED
  BY <1>2, <1>3 DEF GoodProcess

LEMMA RevocationStep ==
    ASSUME IInv, TypeOK', NEW c \in Consumers, Revocation(c)
    PROVE  IInv'
<1>1. /\ UNCHANGED <<batchers, call, objects, committed, phase>>
      /\ revoked' = [revoked EXCEPT ![c] = @ \union assigned[c]]
      /\ assigned' = [assigned EXCEPT ![c] = {}]
      /\ position' = [position EXCEPT ![c] = [p \in Partitions |-> 0]]
      /\ owner' = [p \in Partitions |-> IF owner[p] = c THEN NoOwner ELSE owner[p]]
      /\ evicted' = evicted \ {c}
  BY DEF Revocation, Forwarded, pipelineVars
<1>2. TypeOK /\ Ready(c)
  BY NoCallInSelect DEF IInv, Revocation, Polls
<1>3. assigned'[c] = {} /\ revoked'[c] = revoked[c] \union assigned[c]
  BY <1>1, <1>2 DEF TypeOK
<1>4. GoodProcess(c)'
  BY <1>1, <1>2, <1>3, Reassigned
<1>5. OthersKept(c)
  BY <1>1, <1>2 DEF OthersKept, TypeOK
<1>6. OwnerInv'
  <2>1. ASSUME NEW k \in Consumers, NEW p \in Partitions
        PROVE  /\ owner'[p] = k <=> (p \in assigned'[k] /\ k \notin evicted')
               /\ owner'[p] = k => committed'[p] <= position'[k][p]
    <3>1. CASE k = c
      BY <1>1, <1>3, <3>1, GroupAssumption
    <3>2. CASE k # c
      BY <1>1, <1>5, <3>2, GroupAssumption DEF OthersKept, IInv, OwnerInv
    <3> QED
      BY <3>1, <3>2
  <2> QED
    BY <2>1 DEF OwnerInv
<1> QED
  BY <1>1, <1>4, <1>5, <1>6, BucketKept, InvariantKept

LEMMA AssignmentStep ==
    ASSUME IInv, TypeOK', NEW c \in Consumers, NEW ps \in SUBSET Partitions, Assignment(c, ps)
    PROVE  IInv'
<1>1. /\ UNCHANGED <<batchers, call, objects, committed, phase, revoked, evicted>>
      /\ assigned[c] = {} /\ c \notin evicted
      /\ \A p \in ps : owner[p] = NoOwner
      /\ owner' = [p \in Partitions |-> IF p \in ps THEN c ELSE owner[p]]
      /\ assigned' = [assigned EXCEPT ![c] = ps]
      /\ position' = [position EXCEPT ![c] =
                          [p \in Partitions |-> IF p \in ps THEN committed[p] ELSE 0]]
  BY DEF Assignment, pipelineVars, loopVars
<1>2. TypeOK /\ Ready(c)
  BY NoCallInSelect DEF IInv, Assignment, Polls
<1>3. /\ assigned'[c] = ps
      /\ \A p \in ps : position'[c][p] = committed[p]
  BY <1>1, <1>2 DEF TypeOK
<1>4. GoodProcess(c)'
  BY <1>1, <1>2, <1>3, Reassigned
<1>5. OthersKept(c)
  BY <1>1, <1>2 DEF OthersKept, TypeOK
<1>6. OwnerInv'
  <2>1. ASSUME NEW k \in Consumers, NEW p \in Partitions
        PROVE  /\ owner'[p] = k <=> (p \in assigned'[k] /\ k \notin evicted')
               /\ owner'[p] = k => committed'[p] <= position'[k][p]
    <3>1. CASE k = c
      <4>1. owner[p] # c
        BY <1>1 DEF IInv, OwnerInv
      <4>2. committed[p] \in Nat
        BY <1>2, TypeFacts
      <4>3. owner'[p] = c <=> p \in ps
        BY <1>1, <4>1
      <4>4. c \notin evicted' /\ committed' = committed
        BY <1>1
      <4>5. p \in ps => committed'[p] <= position'[c][p]
        BY <1>3, <4>2, <4>4
      <4> QED
        BY <1>3, <3>1, <4>3, <4>4, <4>5
    <3>2. CASE k # c
      <4>1. /\ owner[p] = k <=> (p \in assigned[k] /\ k \notin evicted)
            /\ owner[p] = k => committed[p] <= position[k][p]
        BY DEF IInv, OwnerInv
      <4> QED
        BY <1>1, <1>5, <3>2, <4>1, GroupAssumption DEF OthersKept
    <3> QED
      BY <3>1, <3>2
  <2> QED
    BY <2>1 DEF OwnerInv
<1> QED
  BY <1>1, <1>4, <1>5, <1>6, BucketKept, InvariantKept

LEMMA EvictionStep ==
    ASSUME IInv, TypeOK', NEW c \in Consumers, Eviction(c)
    PROVE  IInv'
<1>1. /\ UNCHANGED <<batchers, call, objects, committed, phase, revoked, assigned, position>>
      /\ owner' = [p \in Partitions |-> IF owner[p] = c THEN NoOwner ELSE owner[p]]
      /\ evicted' = evicted \union {c}
  BY DEF Eviction, pipelineVars, loopVars
<1>2. OwnerInv'
  <2>1. ASSUME NEW k \in Consumers, NEW p \in Partitions
        PROVE  /\ owner'[p] = k <=> (p \in assigned'[k] /\ k \notin evicted')
               /\ owner'[p] = k => committed'[p] <= position'[k][p]
    <3>1. /\ owner[p] = k <=> (p \in assigned[k] /\ k \notin evicted)
          /\ owner[p] = k => committed[p] <= position[k][p]
      BY DEF IInv, OwnerInv
    <3> QED
      BY <1>1, <3>1, GroupAssumption
  <2> QED
    BY <2>1 DEF OwnerInv
<1>3. NamesStay /\ ObjectsHoldTheirRange' /\ CommitFollowsUpload'
  BY <1>1, BucketKept
<1>4. GoodProcess(c)'
  BY <1>1, <1>3, OtherProcess
<1>5. OthersKept(c)
  BY <1>1 DEF OthersKept
<1> QED
  BY <1>2, <1>3, <1>4, <1>5, InvariantKept

-------------------------------------------------------------------------------
(* The invariant. *)

LEMMA InvInit ==
    ASSUME Init
    PROVE  IInv
<1>1. TypeOK
  BY TypeInit
<1>2. ASSUME NEW c \in Consumers, NEW p \in Partitions PROVE GoodBuffer(c, p)
  BY NoBatcherIsCalm DEF Init, PipelineInit, GoodBuffer
<1>3. ASSUME NEW c \in Consumers PROVE GoodCall(c)
  BY DEF Init, PipelineInit, GoodCall, Ready, NoCall
<1>4. OwnerInv
  BY GroupAssumption DEF Init, OwnerInv
<1>5. ObjectsHoldTheirRange /\ CommitFollowsUpload
  BY DEF Init, PipelineInit, ObjectsHoldTheirRange, CommitFollowsUpload
<1> QED
  BY <1>1, <1>2, <1>3, <1>4, <1>5 DEF IInv

LEMMA InvStep ==
    ASSUME IInv, [Next]_vars
    PROVE  IInv'
<1>1. TypeOK'
  BY TypeStep DEF IInv
<1>2. ASSUME NEW c \in Consumers, LoopStep(c) PROVE IInv'
  <2>1. CASE Drain(c)
    BY <1>1, <2>1, DrainStep
  <2>2. CASE TickBranch(c) \/ ShutdownBranch(c)
    BY <1>1, <2>2, FlushStep
  <2>3. CASE RecvError(c)
    <3>1. /\ UNCHANGED <<batchers, call, objects, committed>>
          /\ UNCHANGED <<revoked, assigned, position, owner, evicted>>
          /\ \A k \in Consumers : k # c => phase'[k] = phase[k]
      BY <2>3 DEF RecvError, pipelineVars, groupVars, GoTo, IInv, TypeOK
    <3>2. Ready(c)
      BY <2>3, NoCallInSelect DEF RecvError, Polls
    <3> QED
      BY <1>1, <3>1, <3>2, WaitStep
  <2>4. CASE Signal(c)
    <3>1. /\ UNCHANGED <<batchers, call, objects, committed>>
          /\ UNCHANGED <<revoked, assigned, position, owner, evicted>>
          /\ \A k \in Consumers : phase'[k] = phase[k]
      BY <2>4 DEF Signal, pipelineVars, groupVars
    <3> QED
      BY <1>1, <3>1, WaitStep
  <2>5. ASSUME NEW p \in Partitions, NEW o \in Log[p], RecvBranch(c, p, o)
        PROVE  IInv'
    BY <1>1, <2>5, RecvStep
  <2> QED
    BY <1>2, <2>1, <2>2, <2>3, <2>4, <2>5 DEF LoopStep
<1>3. ASSUME NEW c \in Consumers, CallStep(c) PROVE IInv'
  <2>1. CASE Answered(c)
    BY <1>1, <2>1, PutOkStep, PutRetriedStep, CommitOkStep DEF Answered
  <2> QED
    BY <1>1, <1>3, <2>1, UploadErrorStep, CommitErrorStep DEF CallStep
<1>4. ASSUME NEW c \in Consumers, GroupStep(c) PROVE IInv'
  BY <1>1, <1>4, RevocationStep, EvictionStep, AssignmentStep DEF GroupStep
<1>5. ASSUME NEW c \in Consumers, Stopped(c) \/ Crash(c) PROVE IInv'
  <2>1. Exit(c) /\ Gone(c) /\ UNCHANGED <<objects, committed>>
    BY <1>5 DEF Stopped, Crash
  <2> QED
    BY <1>1, <2>1, BucketKept, GoneStep
<1>6. ASSUME NEW c \in Consumers, Restart(c) PROVE IInv'
  <2>1. /\ UNCHANGED <<batchers, call, objects, committed>>
        /\ UNCHANGED <<revoked, assigned, position, owner, evicted>>
        /\ \A k \in Consumers : k # c => phase'[k] = phase[k]
    BY <1>6 DEF Restart, pipelineVars, groupVars, GoTo, IInv, TypeOK
  <2>2. Ready(c)
    BY <1>6, NoCallInSelect DEF Restart
  <2> QED
    BY <1>1, <2>1, <2>2, WaitStep
<1>7. ASSUME ClockStep PROVE IInv'
  <2>1. ASSUME NEW c \in Consumers, Elapse(c), UNCHANGED <<loopVars, groupVars>> PROVE IInv'
    BY <1>1, <2>1, ElapseStep
  <2>2. CASE NewDay /\ UNCHANGED <<loopVars, groupVars>>
    <3>1. /\ UNCHANGED <<batchers, call, objects, committed, phase>>
          /\ UNCHANGED <<revoked, assigned, position, owner, evicted>>
      BY <2>2 DEF NewDay, loopVars, groupVars
    <3> QED
      BY <1>1, <3>1, QuietStep
  <2> QED
    BY <1>7, <2>1, <2>2 DEF ClockStep
<1>8. CASE UNCHANGED vars
  <2>1. /\ UNCHANGED <<batchers, call, objects, committed, phase>>
        /\ UNCHANGED <<revoked, assigned, position, owner, evicted>>
    BY <1>8 DEF vars, pipelineVars, loopVars, groupVars
  <2> QED
    BY <1>1, <2>1, QuietStep
<1> QED
  BY <1>2, <1>3, <1>4, <1>5, <1>6, <1>7, <1>8 DEF Next

(* The inductive invariant, for any number of processes and partitions and  *)
(* however often the group rebalances: every buffer is accounted for, a     *)
(* range is full only while the call that completed it runs, and nobody but *)
(* the owner can have a commit taken.                                       *)
THEOREM InvariantHolds == Spec => []IInv
<1>1. Init => IInv
  BY InvInit
<1>2. IInv /\ [Next]_vars => IInv'
  BY InvStep
<1> QED
  BY <1>1, <1>2, PTL DEF Spec

(* A process never holds records of a partition that is neither assigned to *)
(* it nor waiting in its revocation channel: the next drain forgets nothing. *)
THEOREM BuffersAreAccountedForAlways == Spec => []BuffersAreAccountedFor
<1>1. IInv => BuffersAreAccountedFor
  BY DEF IInv, GoodBuffer, BuffersAreAccountedFor
<1> QED
  BY <1>1, InvariantHolds, PTL

(* Every object of the bucket, also one written by a former owner, holds    *)
(* only offsets of the range in its name.                                   *)
THEOREM ObjectsHoldTheirRangeAlways == Spec => []ObjectsHoldTheirRange
<1>1. IInv => ObjectsHoldTheirRange
  BY DEF IInv
<1> QED
  BY <1>1, InvariantHolds, PTL

(* Rule 1 in the whole group: every committed offset is the end of a range  *)
(* that has been uploaded.                                                  *)
THEOREM CommitFollowsUploadAlways == Spec => []CommitFollowsUpload
<1>1. IInv => CommitFollowsUpload
  BY DEF IInv
<1> QED
  BY <1>1, InvariantHolds, PTL

LEMMA RegressStep ==
    ASSUME IInv, [Next]_vars
    PROVE  \A p \in Partitions : committed'[p] >= committed[p]
<1>1. \A p \in Partitions : committed[p] \in Nat
  BY TypeFacts DEF IInv
<1>2. CASE UNCHANGED committed
  BY <1>1, <1>2
<1>3. ASSUME NEW c \in Consumers, call[c].stage = "commit", CommitIsTaken(c), UNCHANGED objects,
             committed' = [committed EXCEPT ![Target(c)] = NextToRead(c)]
      PROVE  \A p \in Partitions : committed'[p] >= committed[p]
  BY <1>3, CommitEffect
<1>4. \/ UNCHANGED committed
      \/ \E c \in Consumers :
            /\ call[c].stage = "commit" /\ CommitIsTaken(c) /\ UNCHANGED objects
            /\ committed' = [committed EXCEPT ![Target(c)] = NextToRead(c)]
  <2>1. ASSUME NEW c \in Consumers, LoopStep(c) PROVE UNCHANGED committed
    BY <2>1 DEF LoopStep, Drain, Revoke, TickBranch, Tick, RecvError, Signal, ShutdownBranch,
                FlushAll, RecvBranch, Offer, pipelineVars
  <2>2. ASSUME NEW c \in Consumers, GroupStep(c) PROVE UNCHANGED committed
    BY <2>2 DEF GroupStep, Revocation, Eviction, Assignment, pipelineVars
  <2>3. ASSUME NEW c \in Consumers, Stopped(c) \/ Crash(c) \/ Restart(c)
        PROVE  UNCHANGED committed
    BY <2>3 DEF Stopped, Crash, Restart, pipelineVars
  <2>4. ASSUME ClockStep \/ UNCHANGED vars PROVE UNCHANGED committed
    BY <2>4 DEF ClockStep, Elapse, NewDay, vars, pipelineVars
  <2>5. ASSUME NEW c \in Consumers, CallStep(c), committed' # committed
        PROVE  /\ call[c].stage = "commit" /\ CommitIsTaken(c) /\ UNCHANGED objects
               /\ committed' = [committed EXCEPT ![Target(c)] = NextToRead(c)]
    BY <2>5 DEF CallStep, Answered, PutOk, PutRetried, CommitOk, UploadError, PutFailed,
                CommitError, CommitFailed
  <2> QED
    BY <2>1, <2>2, <2>3, <2>4, <2>5 DEF Next
<1> QED
  BY <1>2, <1>3, <1>4

(* Neither a rebalance nor an eviction takes the group's committed offset   *)
(* back: the broker takes commits from the owner only, and an owner commits *)
(* what it has read from the committed offset on.                           *)
THEOREM CommitsNeverRegressAlways == Spec => CommitsNeverRegress
<1>1. IInv /\ [Next]_vars => [\A p \in Partitions : committed'[p] >= committed[p]]_vars
  BY RegressStep
<1> QED
  BY <1>1, InvariantHolds, PTL DEF Spec, CommitsNeverRegress
===============================================================================
