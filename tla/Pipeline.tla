------------------------------- MODULE Pipeline -------------------------------
(***************************************************************************)
(* The pipeline of src/src/pipeline.rs: records are buffered per partition  *)
(* and range, uploaded, and only then committed.                            *)
(*                                                                         *)
(* Each consumer process runs one Pipeline.  Its entry points (offer, tick, *)
(* flush_all, revoke) are actions here; the modules that EXTEND this one    *)
(* say who calls them and when.  A call runs alone in its process (the      *)
(* methods take &mut self) but it awaits the object store and the broker,   *)
(* so the steps of a call interleave with the other processes: call[c] is   *)
(* the program counter of the call that c is in.                            *)
(*                                                                         *)
(* A record is its offset.  Payloads, log lines and Stats are left out.     *)
(***************************************************************************)
EXTENDS Batching, Sequences, Functions

CONSTANTS Consumers,     \* consumer processes
          Partitions,    \* (topic, partition) keys
          RangeSize,     \* Pipeline::range_size
          IdleMs,        \* Pipeline::idle_ms, in ticks of the clock
          MaxAttempts,   \* RetryPolicy::max_attempts
          LastDay        \* bound: UTC days 0 .. LastDay

ASSUME PipelineAssumption ==
    /\ Partitions # {}
    /\ RangeSize \in Sizes
    /\ IdleMs \in Nat
    /\ MaxAttempts \in Nat \ {0}
    /\ LastDay \in Nat

VARIABLES batchers,      \* batchers[c][p]: Pipeline::batchers of process c
          call,          \* call[c]: the call that process c is in
          objects,       \* external: the objects of the bucket
          committed,     \* external: the group's committed offset per partition
          today          \* the UTC date

pipelineVars == <<batchers, call, objects, committed, today>>

RangeOf(o) == Containing(o, RangeSize)
Ranges     == {RangeOf(o) : o \in Offsets}
Days       == 0 .. LastDay
Names      == [partition : Partitions, date : Days, range : Ranges]

-------------------------------------------------------------------------------
(* PartitionBatcher.  No entry in the map is the batcher without records.   *)
(* quiet is the time since last_append_ms, counted up to IdleMs.            *)

Batchers == [range : Ranges, records : Seq(Offsets), dirty : BOOLEAN,
             quiet : 0 .. IdleMs]

NoBatcher == [range |-> RangeOf(0), records |-> << >>, dirty |-> FALSE, quiet |-> 0]

Held(b) == b.records # << >>
Rows(b) == Range(b.records)

IsFull(b) == Held(b) /\ IsComplete(b.range, b.records[Len(b.records)])
IsIdle(b) == b.dirty /\ b.quiet >= IdleMs

(* Mutant: the batcher of the range before is kept at a boundary. *)
PushedIntoOldRange(b, o) ==
    [range   |-> IF Held(b) THEN b.range ELSE RangeOf(o),
     records |-> Append(b.records, o), dirty |-> TRUE, quiet |-> 0]

(* Mutant: push forgets to mark the batcher dirty. *)
PushedClean(b, o) ==
    [range   |-> RangeOf(o),
     records |-> IF b.range = RangeOf(o) THEN Append(b.records, o) ELSE << o >>,
     dirty   |-> FALSE, quiet |-> 0]

(* or_insert_with, the replacement of a batcher of another range, and push. *)
Pushed(b, o) ==
    [range   |-> RangeOf(o),
     records |-> IF b.range = RangeOf(o) THEN Append(b.records, o) ELSE << o >>,
     dirty   |-> TRUE,
     quiet   |-> 0]

(* Mutant: a partial flush hands its records over with the upload. *)
FlushedAndEmptied(b) == NoBatcher

(* After a partial upload the records stay. *)
Flushed(b) == [b EXCEPT !.dirty = FALSE, !.quiet = 0]

-------------------------------------------------------------------------------
(* A call.  stage is where it waits: "put" for the object store, "commit"   *)
(* for the broker.  pending holds the record that offer pushes once the     *)
(* range before it is flushed; todo the partitions that tick or flush_all   *)
(* has still to flush.                                                      *)

NoName == [partition |-> CHOOSE p \in Partitions : TRUE, date |-> 0, range |-> RangeOf(0)]

Calls == [stage : {"idle", "put", "commit"}, name : Names, attempt : 0 .. MaxAttempts,
          pending : SUBSET Offsets, todo : SUBSET Partitions]

NoCall == [stage |-> "idle", name |-> NoName, attempt |-> 0, pending |-> {}, todo |-> {}]

(* Mutant: the commit comes before the upload. *)
CommitCall(p, b, pending, todo) ==
    [stage |-> "commit", name |-> ObjectName(p, today, b.range), attempt |-> 1,
     pending |-> pending, todo |-> todo]

(* flush_partition up to the first upload attempt: the object is named from *)
(* the range and from the date at this moment.                              *)
FlushCall(p, b, pending, todo) ==
    [stage |-> "put", name |-> ObjectName(p, today, b.range), attempt |-> 1,
     pending |-> pending, todo |-> todo]

Ready(c)   == call[c].stage = "idle"
Target(c)  == call[c].name.partition
Current(c) == batchers[c][Target(c)]

(* The end of offer: push the record, and flush if that completes the range. *)
PushRecord(c, bs, p, o) ==
    LET b == Pushed(bs[p], o)
    IN  /\ batchers' = [batchers EXCEPT ![c] = [bs EXCEPT ![p] = b]]
        /\ call' = [call EXCEPT ![c] = IF IsFull(b) THEN FlushCall(p, b, {}, {}) ELSE NoCall]

(* The loop of tick and of flush_all, in the map's arbitrary order. *)
FlushEach(c, bs, todo) ==
    /\ batchers' = [batchers EXCEPT ![c] = bs]
    /\ \/ todo = {} /\ call' = [call EXCEPT ![c] = NoCall]
       \/ \E p \in todo :
             call' = [call EXCEPT ![c] = FlushCall(p, bs[p], {}, todo \ {p})]

(* flush_partition returns to its caller, which goes on with batchers bs. *)
Return(c, bs) ==
    \/ \E o \in call[c].pending : PushRecord(c, bs, Target(c), o)
    \/ call[c].pending = {} /\ FlushEach(c, bs, call[c].todo)

-------------------------------------------------------------------------------
(* Entry points. *)

(* Mutant: the old range is not flushed at a boundary. *)
NeverMustFlushFirst(b, o) == FALSE

MustFlushFirst(b, o) == Held(b) /\ b.range # RangeOf(o) /\ b.dirty

(* offer: a record outside the current range flushes that range first. *)
Offer(c, p, o) ==
    LET b == batchers[c][p]
    IN  /\ Ready(c)
        /\ \/ /\ MustFlushFirst(b, o)
              /\ call' = [call EXCEPT ![c] = FlushCall(p, b, {o}, {})]
              /\ UNCHANGED batchers
           \/ /\ ~ MustFlushFirst(b, o)
              /\ PushRecord(c, batchers[c], p, o)
        /\ UNCHANGED <<objects, committed, today>>

IdleKeys(c)  == {p \in Partitions : IsIdle(batchers[c][p])}
DirtyKeys(c) == {p \in Partitions : batchers[c][p].dirty}

(* tick: flush every partition that has gone quiet. *)
Tick(c) ==
    /\ Ready(c)
    /\ FlushEach(c, batchers[c], IdleKeys(c))
    /\ UNCHANGED <<objects, committed, today>>

(* flush_all: flush every partition with records not uploaded yet. *)
FlushAll(c) ==
    /\ Ready(c)
    /\ FlushEach(c, batchers[c], DirtyKeys(c))
    /\ UNCHANGED <<objects, committed, today>>

(* Mutant: revoke forgets to drop anything. *)
KeptBatchers(c, ps) == batchers[c]

WithoutBatchers(c, ps) == [p \in Partitions |-> IF p \in ps THEN NoBatcher ELSE batchers[c][p]]

(* revoke: drop the buffers of ps. *)
Revoke(c, ps) ==
    /\ Ready(c)
    /\ batchers' = [batchers EXCEPT ![c] = WithoutBatchers(c, ps)]
    /\ UNCHANGED <<call, objects, committed, today>>

-------------------------------------------------------------------------------
(* The awaits of a call. *)

(* external: a PUT replaces the object of that name as a whole. *)
Overwritten(name, records) ==
    {obj \in objects : obj.name # name} \union {[name |-> name, records |-> records]}

Stored(p, o) == \E obj \in objects : obj.name.partition = p /\ o \in Range(obj.records)

(* Mutant: what a complete flush commits is committed by a partial one too. *)
AlwaysCommits(b) == TRUE

CommitsAfterUpload(b) == IsFull(b)

(* The upload succeeds: a complete range goes on to its commit, a partial   *)
(* one keeps its records and commits nothing.                               *)
PutOk(c) ==
    /\ call[c].stage = "put"
    /\ objects' = Overwritten(call[c].name, Current(c).records)
    /\ \/ /\ CommitsAfterUpload(Current(c))
          /\ call' = [call EXCEPT ![c].stage = "commit"]
          /\ UNCHANGED batchers
       \/ /\ ~ CommitsAfterUpload(Current(c))
          /\ Return(c, [batchers[c] EXCEPT ![Target(c)] = Flushed(@)])
    /\ UNCHANGED <<committed, today>>

(* Mutant: attempts are not counted. *)
AlwaysRetries(c) == TRUE

AttemptsLeft(c) == call[c].attempt < MaxAttempts

(* A retryable failure with attempts left.  The request may have been       *)
(* applied all the same: a timeout, or an answer lost on the way.           *)
PutRetried(c) ==
    /\ call[c].stage = "put"
    /\ AttemptsLeft(c)
    /\ call' = [call EXCEPT ![c].attempt = @ + 1]
    /\ \/ UNCHANGED objects
       \/ objects' = Overwritten(call[c].name, Current(c).records)
    /\ UNCHANGED <<batchers, committed, today>>

(* The process ends and its memory with it; what ended it is in the callers *)
(* of this: an error that `?` carries out of run, a crash, or a clean exit. *)
Exit(c) ==
    /\ batchers' = [batchers EXCEPT ![c] = [p \in Partitions |-> NoBatcher]]
    /\ call' = [call EXCEPT ![c] = NoCall]
    /\ UNCHANGED today

(* The upload fails for good: the last attempt failed, or an attempt failed *)
(* in a way that is not retried (and then was not applied).                 *)
PutFailed(c) ==
    /\ call[c].stage = "put"
    /\ Exit(c)
    /\ \/ UNCHANGED objects
       \/ /\ ~ AttemptsLeft(c)
          /\ objects' = Overwritten(call[c].name, Current(c).records)
    /\ UNCHANGED committed

NextToRead(c) == CommitOffset(call[c].name.range)

(* The commit succeeds and the completed batcher leaves the map. *)
CommitOk(c) ==
    /\ call[c].stage = "commit"
    /\ NextToRead(c) <= MaxI64
    /\ committed' = [committed EXCEPT ![Target(c)] = NextToRead(c)]
    /\ Return(c, [batchers[c] EXCEPT ![Target(c)] = NoBatcher])
    /\ UNCHANGED <<objects, today>>

(* The commit fails: the offset does not fit i64, the broker refuses it, or *)
(* its answer is lost after it took effect.                                 *)
CommitFailed(c) ==
    /\ call[c].stage = "commit"
    /\ Exit(c)
    /\ \/ UNCHANGED committed
       \/ /\ NextToRead(c) <= MaxI64
          /\ committed' = [committed EXCEPT ![Target(c)] = NextToRead(c)]
    /\ UNCHANGED objects

-------------------------------------------------------------------------------
(* Time.  A call reads the clock once, when it starts, so what passes during *)
(* a call is counted after it.                                               *)

Aged(b) == [b EXCEPT !.quiet = IF b.dirty /\ @ < IdleMs THEN @ + 1 ELSE @]

Elapse(c) ==
    /\ Ready(c)
    /\ \E p \in DirtyKeys(c) : batchers[c][p].quiet < IdleMs
    /\ batchers' = [batchers EXCEPT ![c] = [p \in Partitions |-> Aged(batchers[c][p])]]
    /\ UNCHANGED <<call, objects, committed, today>>

NewDay ==
    /\ today < LastDay
    /\ today' = today + 1
    /\ UNCHANGED <<batchers, call, objects, committed>>

-------------------------------------------------------------------------------

PipelineInit ==
    /\ batchers = [c \in Consumers |-> [p \in Partitions |-> NoBatcher]]
    /\ call = [c \in Consumers |-> NoCall]
    /\ objects = {}
    /\ committed = [p \in Partitions |-> 0]
    /\ today = 0

PipelineTypeOK ==
    /\ batchers \in [Consumers -> [Partitions -> Batchers]]
    /\ call \in [Consumers -> Calls]
    /\ objects \subseteq [name : Names, records : Seq(Offsets)]
    /\ committed \in [Partitions -> Offsets]
    /\ today \in Days
===============================================================================
