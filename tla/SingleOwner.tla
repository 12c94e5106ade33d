------------------------------ MODULE SingleOwner ------------------------------
(***************************************************************************)
(* The pipelines of a consumer group whose caller keeps the contract that  *)
(* src/src/pipeline.rs states in its rules 2 and 3:                        *)
(*   - a partition has at most one owner at a time;                        *)
(*   - an owner is handed the records of the log in order, from the        *)
(*     committed offset on (a restart re-reads from the range start);      *)
(*   - revoke is called before the partition moves, between two calls.     *)
(* Processes crash and restart at any point, uploads and commits fail or   *)
(* succeed without an answer, and days change.  ConsumerGroup models how   *)
(* src/src/kafka.rs keeps, and fails to keep, this contract.               *)
(***************************************************************************)
EXTENDS Pipeline

CONSTANTS Log,       \* Log[p]: the offsets that hold a record; gaps are
                     \* compacted records and transaction markers
          NoOwner

ASSUME LogAssumption ==
    /\ Log \in [Partitions -> SUBSET Offsets]
    /\ NoOwner \notin Consumers

VARIABLES owner,     \* owner[p]: the process that p is assigned to
          position,  \* position[p]: the owner's next offset to read
          closing    \* the processes that have left the loop and flush

vars == <<pipelineVars, owner, position, closing>>

callerVars == <<owner, position, closing>>

Init ==
    /\ PipelineInit
    /\ owner = [p \in Partitions |-> NoOwner]
    /\ position = [p \in Partitions |-> 0]
    /\ closing = {}

Free == {p \in Partitions : owner[p] = NoOwner}
Owned(c) == {p \in Partitions : owner[p] = c}

(* Partitions without owner are assigned; reading starts where the group     *)
(* committed.  A process that exited is restarted by assigning to it.       *)
Assign(c, ps) ==
    /\ ps # {}
    /\ ps \subseteq Free
    /\ Ready(c)
    /\ c \notin closing
    /\ owner' = [p \in Partitions |-> IF p \in ps THEN c ELSE owner[p]]
    /\ position' = [p \in Partitions |-> IF p \in ps THEN committed[p] ELSE position[p]]
    /\ UNCHANGED <<pipelineVars, closing>>

Unread(p)   == {o \in Log[p] : o >= position[p]}
IsNext(p, o) == o \in Unread(p) /\ \A u \in Unread(p) : o <= u

(* The next record of the log reaches offer. *)
Deliver(c, p, o) ==
    /\ owner[p] = c
    /\ c \notin closing
    /\ IsNext(p, o)
    /\ Offer(c, p, o)
    /\ position' = [position EXCEPT ![p] = o + 1]
    /\ UNCHANGED <<owner, closing>>

IdleCheck(c) ==
    /\ c \notin closing
    /\ IdleKeys(c) # {}
    /\ Tick(c)
    /\ UNCHANGED callerVars

(* The group takes ps back. *)
Release(ps) ==
    /\ owner' = [p \in Partitions |-> IF p \in ps THEN NoOwner ELSE owner[p]]
    /\ position' = [p \in Partitions |-> IF p \in ps THEN 0 ELSE position[p]]

(* Partitions are taken from their owner, which drops the buffers first. *)
TakeAway(c, ps) ==
    /\ ps # {}
    /\ ps \subseteq Owned(c)
    /\ c \notin closing
    /\ Revoke(c, ps)
    /\ Release(ps)
    /\ UNCHANGED closing

Shutdown(c) ==
    /\ c \notin closing
    /\ closing' = closing \union {c}
    /\ FlushAll(c)
    /\ UNCHANGED <<owner, position>>

(* The process is gone, and the group takes its partitions back. *)
Leave(c) == Release(Owned(c)) /\ closing' = closing \ {c}

Stopped(c) ==
    /\ c \in closing
    /\ Ready(c)
    /\ Exit(c)
    /\ Leave(c)
    /\ UNCHANGED <<objects, committed>>

Crash(c) ==
    /\ Owned(c) # {}
    /\ Exit(c)
    /\ Leave(c)
    /\ UNCHANGED <<objects, committed>>

UploadError(c) == PutFailed(c) /\ Leave(c)
CommitError(c) == CommitFailed(c) /\ Leave(c)

Answered(c) ==
    /\ PutOk(c) \/ PutRetried(c) \/ CommitOk(c)
    /\ UNCHANGED callerVars

ClockStep == ((\E c \in Consumers : Elapse(c)) \/ NewDay) /\ UNCHANGED callerVars

Next ==
    \/ \E c \in Consumers :
          \/ \E ps \in SUBSET Partitions : Assign(c, ps) \/ TakeAway(c, ps)
          \/ \E p \in Partitions : \E o \in Log[p] : Deliver(c, p, o)
          \/ IdleCheck(c) \/ Shutdown(c) \/ Stopped(c) \/ Crash(c)
          \/ Answered(c) \/ UploadError(c) \/ CommitError(c)
    \/ ClockStep

Spec == Init /\ [][Next]_vars

-------------------------------------------------------------------------------
(* Safety *)

TypeOK ==
    /\ PipelineTypeOK
    /\ owner \in [Partitions -> Consumers \union {NoOwner}]
    /\ position \in [Partitions -> 0 .. MaxI64 + 1]
    /\ closing \subseteq Consumers

(* The service's promise (lib.rs, "Commit after upload, never before"): a    *)
(* record below the committed offset is in the bucket, whatever crashes,    *)
(* retries and reassignments happened on the way.                           *)
AckedIsStored ==
    \A p \in Partitions : \A o \in Log[p] : o < committed[p] => Stored(p, o)

(* The record that waits for the flush of the range before it. *)
Pending(c, p) == IF Target(c) = p THEN call[c].pending ELSE {}

InFlight(c, p) == Rows(batchers[c][p]) \union Pending(c, p)

(* No record falls between two ranges or between two calls: what the owner  *)
(* has read is in the bucket or still in its memory, also in the middle of  *)
(* a boundary flush or of a tick over several partitions.                   *)
ReadIsHeldOrStored ==
    \A p \in Partitions : owner[p] # NoOwner =>
        \A o \in Log[p] : o < position[p] => Stored(p, o) \/ o \in InFlight(owner[p], p)

(* An object holds records of its own range only, each once and in order.   *)
RowsInOrder ==
    \A obj \in objects :
        LET rows == obj.records
        IN  /\ \A i \in DOMAIN rows : Contains(obj.name.range, rows[i])
            /\ \A i, j \in DOMAIN rows : i < j => rows[i] < rows[j]

(* Rule 2 of pipeline.rs: while a process keeps a partition, its uploads    *)
(* never take a record that it has read out of the bucket again.            *)
UploadsOnlyGrow ==
    [][\A p \in Partitions : owner[p] # NoOwner =>
          \A o \in Log[p] : (o < position[p] /\ Stored(p, o)) => Stored(p, o)']_vars

(* An object whose range is acknowledged is final: no retry, restart or     *)
(* later owner rewrites it.                                                 *)
AckedObjectsAreFinal ==
    [][\A obj \in objects :
          obj.name.range.end < committed[obj.name.partition] => obj \in objects']_vars

(* Staging describes what this module does to the bucket and to the group's *)
(* committed offsets.                                                       *)
stored == [p \in Partitions |-> {o \in Log[p] : Stored(p, o)}]

Abstract == INSTANCE Staging WITH stored <- stored, acked <- committed

ImplementsStaging == Abstract!Spec

(* The upload of object name that is under way, seen from its partition's   *)
(* owner.                                                                   *)
UploadsNow(name) ==
    LET c == owner[name.partition]
    IN  c # NoOwner /\ call[c].stage = "put" /\ call[c].name = name

Put(name) == INSTANCE Upload WITH
    NoBytes <- << >>,
    attempt <- IF UploadsNow(name) THEN call[owner[name.partition]].attempt ELSE 0,
    bytes   <- IF UploadsNow(name) THEN batchers[owner[name.partition]][name.partition].records
                                   ELSE << >>,
    stored  <- {obj.records : obj \in {q \in objects : q.name = name}}

InUse == {call[c].name : c \in Consumers} \union {obj.name : obj \in objects}

(* Whatever name the group uploads, however often, and whichever processes   *)
(* do it: one upload is over before the next one starts, and none changes   *)
(* what it carries while it retries.                                        *)
UploadsTakeTurns ==
    [][\A name \in InUse \union InUse' : [Put(name)!Next]_(Put(name)!vars)]_vars

-------------------------------------------------------------------------------
(* The inductive invariant behind the safety properties. *)

(* A reader at n starts every later range at its beginning. *)
Fresh(n) == \A o \in Offsets : o >= n => RangeOf(o).start >= n

(* A buffer b of p, read up to n with pend still to push and acked committed, *)
(* holds all that the log has between the start of its range and n; without a *)
(* buffer the reader is at a range boundary.                                 *)
GoodBatch(b, p, n, pend, acked) ==
    /\ Held(b) =>
          /\ \A o \in Rows(b) : Contains(b.range, o) /\ o < n
          /\ \A o \in Log[p] : (b.range.start <= o /\ o < n) => o \in Rows(b) \union pend
          /\ acked <= b.range.start
          /\ pend = {} => n = b.records[Len(b.records)] + 1
    /\ ~ Held(b) => b = NoBatcher /\ Fresh(n)

BatchInv ==
    \A c \in Consumers, p \in Partitions :
        /\ owner[p] = c =>
              GoodBatch(batchers[c][p], p, position[p], Pending(c, p), committed[p])
        /\ owner[p] # c => batchers[c][p] = NoBatcher
        /\ ~ batchers[c][p].dirty => \A o \in Rows(batchers[c][p]) : Stored(p, o)

PositionInv ==
    \A p \in Partitions :
        /\ Fresh(committed[p])
        /\ owner[p] # NoOwner => committed[p] <= position[p]

(* A call in progress works on a buffer that its process owns; in its commit *)
(* stage the whole range is in the bucket.                                  *)
GoodCall(c) ==
    /\ Ready(c) => call[c] = NoCall
    /\ ~ Ready(c) =>
          /\ owner[Target(c)] = c
          /\ Current(c).dirty
          /\ call[c].name.range = Current(c).range
          /\ \A o \in call[c].pending :
                Current(c).range.end < o /\ position[Target(c)] = o + 1
          /\ \A p \in call[c].todo : p # Target(c) /\ batchers[c][p].dirty
    /\ call[c].stage = "commit" =>
          IsFull(Current(c)) /\ \A o \in Rows(Current(c)) : Stored(Target(c), o)

CallInv == \A c \in Consumers : GoodCall(c)

ObjectsHoldTheirRange ==
    \A obj \in objects : \A o \in Range(obj.records) : Contains(obj.name.range, o)

IInv ==
    /\ TypeOK
    /\ AckedIsStored
    /\ ReadIsHeldOrStored
    /\ BatchInv
    /\ PositionInv
    /\ CallInv
    /\ ObjectsHoldTheirRange

-------------------------------------------------------------------------------
(* A claim of the documentation that the code does not keep. *)

(* batching.rs, "retries and reassignments converge on the same object      *)
(* instead of multiplying objects": one object per partition and range.     *)
OneObjectPerRange ==
    \A a, b \in objects :
        (a.name.partition = b.name.partition /\ a.name.range = b.name.range) => a = b

-------------------------------------------------------------------------------
(* Liveness *)

CallStep(c) == Answered(c) \/ UploadError(c) \/ CommitError(c)

(* The clock advances, the interval ticker comes round, awaits return (puts *)
(* and commits time out), a closing process ends, Kafka assigns a free      *)
(* partition and recv hands out what is there.                              *)
Fairness ==
    /\ \A c \in Consumers :
          /\ WF_vars(Elapse(c) /\ UNCHANGED callerVars)
          /\ WF_vars(IdleCheck(c))
          /\ WF_vars(CallStep(c))
          /\ WF_vars(Stopped(c))
          /\ \A p \in Partitions : WF_vars(\E o \in Log[p] : Deliver(c, p, o))
    /\ \A p \in Partitions : WF_vars(\E c \in Consumers : Assign(c, {p}))

LiveSpec == Spec /\ Fairness

(* A record does not linger in memory: once read it reaches the bucket, or  *)
(* the process loses it by revocation or by exit, for a later owner.        *)
RecordsDoNotLinger ==
    \A c \in Consumers, p \in Partitions : \A o \in Log[p] :
        o \in InFlight(c, p) ~> (Stored(p, o) \/ o \notin InFlight(c, p))

(* A partition loses its owner, or a process leaves the loop. *)
Disturbed ==
    \/ \E p \in Partitions : owner[p] # NoOwner /\ owner'[p] = NoOwner
    \/ closing' # closing

FullRangeEnds(p) == {o \in Log[p] : o = RangeOf(o).end}

Frontier(p) ==
    IF FullRangeEnds(p) = {} THEN 0
    ELSE CHOOSE n \in Offsets : /\ n - 1 \in FullRangeEnds(p)
                                /\ \A o \in FullRangeEnds(p) : o < n

(* Once processes stop failing and partitions stop moving, the group        *)
(* commits everything up to the end of the last range that is full, also    *)
(* past ranges that compaction left without their last offset.              *)
FullRangesAreCommitted ==
    <>[][~ Disturbed]_vars => \A p \in Partitions : <>[](committed[p] = Frontier(p))
===============================================================================
