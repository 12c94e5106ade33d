----------------------------- MODULE ConsumerGroup -----------------------------
(***************************************************************************)
(* The consume loop of src/src/kafka.rs around the pipeline, and the Kafka  *)
(* consumer group that it is a member of.                                   *)
(*                                                                         *)
(* A loop iteration drains the revocations, waits in select! and runs one   *)
(* branch.  The rebalance callback runs while recv is polled, that is,      *)
(* during the wait in select!, and only puts the revoked partitions in a    *)
(* channel: between the callback and the next drain the process goes on     *)
(* with a buffer of a partition that it has lost, and may be assigned again.*)
(*                                                                         *)
(* external: the broker.  The group's coordinator assigns each partition to *)
(* at most one member, eagerly (a member gives up all it has before it gets *)
(* a new assignment); it evicts members that do not poll or do not beat in  *)
(* time, who notice at their next poll, and refuses an evicted member's     *)
(* commits.  It does not check that a live member owns what it commits.     *)
(***************************************************************************)
EXTENDS Pipeline

CONSTANTS Log,            \* Log[p]: the offsets that hold a record
          NoOwner,
          MaxRebalances,  \* bound: revocations by rebalance
          MaxEvictions    \* bound: evictions of a member

ASSUME GroupAssumption ==
    /\ Log \in [Partitions -> SUBSET Offsets]
    /\ NoOwner \notin Consumers
    /\ MaxRebalances \in Nat
    /\ MaxEvictions \in Nat

VARIABLES phase,      \* phase[c]: where run of process c is
          signalled,  \* processes whose watch channel says shutdown
          revoked,    \* revoked[c]: the lists in the revocation channel, together
          assigned,   \* external: the client's assignment
          position,   \* external: position[c][p], the client's next offset
          owner,      \* external: the coordinator's assignment
          evicted,    \* external: members evicted that have not noticed
          rebalances, \* number of rebalances so far
          evictions   \* number of evictions so far

loopVars  == <<phase, signalled, revoked>>
groupVars == <<assigned, position, owner, evicted, rebalances, evictions>>
vars      == <<pipelineVars, loopVars, groupVars>>

Owned(c) == {p \in Partitions : owner[p] = c}

Init ==
    /\ PipelineInit
    /\ phase = [c \in Consumers |-> "top"]
    /\ signalled = {}
    /\ revoked = [c \in Consumers |-> {}]
    /\ assigned = [c \in Consumers |-> {}]
    /\ position = [c \in Consumers |-> [p \in Partitions |-> 0]]
    /\ owner = [p \in Partitions |-> NoOwner]
    /\ evicted = {}
    /\ rebalances = 0
    /\ evictions = 0

-------------------------------------------------------------------------------
(* The loop.  A branch that calls the pipeline leaves select!, and the loop *)
(* is back at its top when the call returns.  select! is biased: once the   *)
(* signal is there the other branches, recv and its callback too, are not   *)
(* polled any more.                                                         *)

GoTo(c, where) == phase' = [phase EXCEPT ![c] = where]

Polls(c) == phase[c] = "select" /\ c \notin signalled

(* drain_revocations, at the top of the loop. *)
Drain(c) ==
    /\ phase[c] = "top"
    /\ Revoke(c, revoked[c])
    /\ revoked' = [revoked EXCEPT ![c] = {}]
    /\ GoTo(c, "select")
    /\ UNCHANGED <<signalled, groupVars>>

TickBranch(c) ==
    /\ Polls(c)
    /\ Tick(c)
    /\ GoTo(c, "top")
    /\ UNCHANGED <<signalled, revoked, groupVars>>

Unread(c, p)    == {o \in Log[p] : o >= position[c][p]}
IsNext(c, p, o) == o \in Unread(c, p) /\ \A u \in Unread(c, p) : o <= u

(* recv hands out a record, and it goes to offer. *)
RecvBranch(c, p, o) ==
    /\ Polls(c)
    /\ p \in assigned[c]
    /\ IsNext(c, p, o)
    /\ Offer(c, p, o)
    /\ position' = [position EXCEPT ![c][p] = o + 1]
    /\ GoTo(c, "top")
    /\ UNCHANGED <<signalled, revoked, assigned, owner, evicted, rebalances, evictions>>

(* recv fails: logged, and on to the next iteration. *)
RecvError(c) ==
    /\ Polls(c)
    /\ GoTo(c, "top")
    /\ UNCHANGED <<pipelineVars, signalled, revoked, groupVars>>

(* Mutant: the loop goes on after its last flush. *)
AfterFlush == "top"

AfterShutdown == "closing"

(* main's signal task: Ctrl-C or SIGTERM, at any point of the loop. *)
Signal(c) ==
    /\ phase[c] # "down"
    /\ c \notin signalled
    /\ signalled' = signalled \union {c}
    /\ UNCHANGED <<pipelineVars, phase, revoked, groupVars>>

(* Shutdown leaves the loop for flush_all, without another drain. *)
ShutdownBranch(c) ==
    /\ phase[c] = "select"
    /\ c \in signalled
    /\ FlushAll(c)
    /\ GoTo(c, AfterShutdown)
    /\ UNCHANGED <<signalled, revoked, groupVars>>

(* external: the broker takes a commit from the members of the group only. *)
CommitIsTaken(c) == c \notin evicted

Answered(c) ==
    /\ \/ PutOk(c)
       \/ PutRetried(c)
       \/ CommitIsTaken(c) /\ CommitOk(c)
    /\ UNCHANGED <<loopVars, groupVars>>

(* The process is gone: its memory, its channel, its membership. *)
Gone(c) ==
    /\ GoTo(c, "down")
    /\ signalled' = signalled \ {c}
    /\ revoked' = [revoked EXCEPT ![c] = {}]
    /\ assigned' = [assigned EXCEPT ![c] = {}]
    /\ position' = [position EXCEPT ![c] = [p \in Partitions |-> 0]]
    /\ owner' = [p \in Partitions |-> IF owner[p] = c THEN NoOwner ELSE owner[p]]
    /\ evicted' = evicted \ {c}
    /\ UNCHANGED <<rebalances, evictions>>

Stopped(c) ==
    /\ phase[c] = "closing"
    /\ Ready(c)
    /\ Exit(c)
    /\ Gone(c)
    /\ UNCHANGED <<objects, committed>>

Crash(c) ==
    /\ phase[c] # "down"
    /\ Exit(c)
    /\ Gone(c)
    /\ UNCHANGED <<objects, committed>>

UploadError(c) == PutFailed(c) /\ Gone(c)

CommitError(c) ==
    /\ CommitFailed(c)
    /\ Gone(c)
    /\ ~ CommitIsTaken(c) => UNCHANGED committed

Restart(c) ==
    /\ phase[c] = "down"
    /\ GoTo(c, "top")
    /\ UNCHANGED <<pipelineVars, signalled, revoked, groupVars>>

ClockStep == ((\E c \in Consumers : Elapse(c)) \/ NewDay) /\ UNCHANGED <<loopVars, groupVars>>

-------------------------------------------------------------------------------
(* The group. *)

(* Mutant: the callback forwards nothing. *)
NotForwarded(c) == revoked

Forwarded(c) == [revoked EXCEPT ![c] = @ \union assigned[c]]

(* pre_rebalance: all that the client has is revoked, because the group      *)
(* rebalances or because the client finds that it was evicted.              *)
Revocation(c) ==
    /\ Polls(c)
    /\ assigned[c] # {}
    /\ \/ c \in evicted /\ UNCHANGED rebalances
       \/ /\ c \notin evicted
          /\ rebalances < MaxRebalances
          /\ rebalances' = rebalances + 1
    /\ revoked' = Forwarded(c)
    /\ assigned' = [assigned EXCEPT ![c] = {}]
    /\ position' = [position EXCEPT ![c] = [p \in Partitions |-> 0]]
    /\ owner' = [p \in Partitions |-> IF owner[p] = c THEN NoOwner ELSE owner[p]]
    /\ evicted' = evicted \ {c}
    /\ UNCHANGED <<pipelineVars, phase, signalled, evictions>>

(* An assignment reaches the client, which starts at the committed offsets. *)
Assignment(c, ps) ==
    /\ Polls(c)
    /\ assigned[c] = {}
    /\ c \notin evicted
    /\ ps # {}
    /\ \A p \in ps : owner[p] = NoOwner
    /\ owner' = [p \in Partitions |-> IF p \in ps THEN c ELSE owner[p]]
    /\ assigned' = [assigned EXCEPT ![c] = ps]
    /\ position' = [position EXCEPT ![c] =
                        [p \in Partitions |-> IF p \in ps THEN committed[p] ELSE 0]]
    /\ UNCHANGED <<pipelineVars, loopVars, evicted, rebalances, evictions>>

(* The coordinator evicts a member, which does not know yet. *)
Eviction(c) ==
    /\ evictions < MaxEvictions
    /\ Owned(c) # {}
    /\ owner' = [p \in Partitions |-> IF owner[p] = c THEN NoOwner ELSE owner[p]]
    /\ evicted' = evicted \union {c}
    /\ evictions' = evictions + 1
    /\ UNCHANGED <<pipelineVars, loopVars, assigned, position, rebalances>>

LoopStep(c) ==
    \/ Drain(c) \/ TickBranch(c) \/ RecvError(c) \/ Signal(c) \/ ShutdownBranch(c)
    \/ \E p \in Partitions : \E o \in Log[p] : RecvBranch(c, p, o)

CallStep(c) == Answered(c) \/ UploadError(c) \/ CommitError(c)

GroupStep(c) ==
    \/ Revocation(c) \/ Eviction(c)
    \/ \E ps \in SUBSET Partitions : Assignment(c, ps)

Next ==
    \/ \E c \in Consumers :
          \/ LoopStep(c) \/ CallStep(c) \/ GroupStep(c)
          \/ Stopped(c) \/ Crash(c) \/ Restart(c)
    \/ ClockStep

Spec == Init /\ [][Next]_vars

-------------------------------------------------------------------------------
(* Safety *)

TypeOK ==
    /\ PipelineTypeOK
    /\ phase \in [Consumers -> {"top", "select", "closing", "down"}]
    /\ signalled \subseteq {c \in Consumers : phase[c] # "down"}
    /\ revoked \in [Consumers -> SUBSET Partitions]
    /\ assigned \in [Consumers -> SUBSET Partitions]
    /\ position \in [Consumers -> [Partitions -> 0 .. MaxI64 + 1]]
    /\ owner \in [Partitions -> Consumers \union {NoOwner}]
    /\ evicted \subseteq Consumers
    /\ rebalances \in 0 .. MaxRebalances
    /\ evictions \in 0 .. MaxEvictions

(* No buffer escapes revocation: a process holds records only of partitions *)
(* that its client is assigned or whose revocation is in the channel.       *)
BuffersAreAccountedFor ==
    \A c \in Consumers, p \in Partitions :
        Held(batchers[c][p]) => p \in assigned[c] \union revoked[c]

(* Whoever writes an object, a former owner too: it holds records of its own *)
(* range only.                                                              *)
ObjectsHoldTheirRange ==
    \A obj \in objects : \A o \in Range(obj.records) : Contains(obj.name.range, o)

(* Rule 1 of pipeline.rs: an offset is committed only when an object of the *)
(* range that ends there has been uploaded.  (What the object holds is not  *)
(* claimed here: a former owner may have replaced it, see below.)           *)
CommitFollowsUpload ==
    \A p \in Partitions : committed[p] # 0 =>
        \E obj \in objects :
            obj.name.partition = p /\ CommitOffset(obj.name.range) = committed[p]

(* Through rebalances and evictions, a commit by a process that has lost    *)
(* the partition never takes the group back behind a later commit.          *)
CommitsNeverRegress ==
    [][\A p \in Partitions : committed'[p] >= committed[p]]_vars

-------------------------------------------------------------------------------
(* The inductive invariant behind these. *)

(* A buffer holds records of its range, of partitions that are accounted    *)
(* for; it is full only while the call that completed it is in progress, on *)
(* a partition that the client is assigned and has read up to there.        *)
GoodBuffer(c, p) ==
    LET b == batchers[c][p]
    IN  /\ Held(b) => p \in assigned[c] \union revoked[c]
        /\ b.dirty => Held(b)
        /\ \A o \in Rows(b) : Contains(b.range, o)
        /\ IsFull(b) => /\ ~ Ready(c) /\ Target(c) = p /\ call[c].pending = {}
                        /\ p \in assigned[c]
                        /\ position[c][p] = b.range.end + 1

(* A call is not interrupted by the rest of the loop and has records to     *)
(* flush; what waits behind it was the last record read; in its commit      *)
(* stage the range is full, and its object in the bucket.                   *)
GoodCall(c) ==
    /\ ~ Ready(c) =>
          /\ phase[c] \in {"top", "closing"}
          /\ Held(Current(c))
          /\ call[c].name.range = Current(c).range
          /\ \A o \in call[c].pending :
                Target(c) \in assigned[c] /\ position[c][Target(c)] = o + 1
          /\ \A p \in call[c].todo : p # Target(c) /\ Held(batchers[c][p])
    /\ call[c].stage = "commit" =>
          IsFull(Current(c)) /\ \E obj \in objects : obj.name = call[c].name

(* The coordinator's assignment is the client's, unless it was evicted; and *)
(* a commit is never ahead of the owner's reading.                          *)
OwnerInv ==
    /\ \A c \in Consumers, p \in Partitions :
          owner[p] = c <=> (p \in assigned[c] /\ c \notin evicted)
    /\ \A c \in Consumers, p \in Partitions :
          owner[p] = c => committed[p] <= position[c][p]

IInv ==
    /\ TypeOK
    /\ \A c \in Consumers, p \in Partitions : GoodBuffer(c, p)
    /\ \A c \in Consumers : GoodCall(c)
    /\ OwnerInv
    /\ ObjectsHoldTheirRange
    /\ CommitFollowsUpload

-------------------------------------------------------------------------------
(* The two rules under which the group keeps the contract of SingleOwner.   *)
(* The code has neither: what it does without them is in the claims below.  *)

(* The partitions that the call of c has still to flush. *)
Busy(c) == IF Ready(c) THEN {} ELSE {Target(c)} \union call[c].todo

(* A revoked partition is drained before anything else is done with it:     *)
(* no flush of its old buffer, no record of its next assignment.            *)
DrainedFirst ==
    \A c \in Consumers : \A p \in revoked[c] \intersect revoked'[c] :
        /\ p \notin Busy(c)'
        /\ p \in assigned[c] \intersect assigned'[c] => position'[c][p] = position[c][p]

(* The bucket takes nothing from a process that has lost the partition. *)
OwnersWrite ==
    \A c \in Consumers :
        (call'[c] # call[c] /\ owner[Target(c)] # c) => UNCHANGED objects

CarefulNext == Next /\ DrainedFirst /\ OwnersWrite

CarefulSpec == Init /\ [][CarefulNext]_vars

(* What the group knows of a process: buffers of its partitions that are    *)
(* not waiting to be dropped, and nothing of it from its eviction on.       *)
Shown(c, p) == owner[p] = c /\ p \notin revoked[c]

Contract == INSTANCE SingleOwner WITH
    batchers <- [c \in Consumers |-> [p \in Partitions |->
                    IF Shown(c, p) THEN batchers[c][p] ELSE NoBatcher]],
    call     <- [c \in Consumers |-> IF c \in evicted THEN NoCall ELSE call[c]],
    position <- [p \in Partitions |->
                    IF owner[p] = NoOwner THEN 0 ELSE position[owner[p]][p]],
    closing  <- {c \in Consumers : phase[c] = "closing" /\ c \notin evicted}

(* The group keeps the contract of SingleOwner under the two rules: however *)
(* partitions move, rebalances are take-aways there, evictions crashes.     *)
KeepsContract == Contract!Spec

-------------------------------------------------------------------------------
(* Claims that do not hold when partitions move between running processes. *)

(* lib.rs: an acknowledged record is in the bucket. *)
AckedIsStored ==
    \A p \in Partitions : \A o \in Log[p] : o < committed[p] => Stored(p, o)

(* pipeline.rs, rule 3: a revoked partition is dropped, not flushed. *)
RevokedIsNotFlushed ==
    \A c \in Consumers : call[c].stage = "put" => Target(c) \in assigned[c]

(* pipeline.rs, rule 3: a flush by a process that has lost the partition    *)
(* "would also be correct - same range, same name, same bytes": an object   *)
(* below the committed offset is not changed any more.                      *)
AckedObjectsAreFinal ==
    [][\A obj \in objects :
          obj.name.range.end < committed[obj.name.partition] => obj \in objects']_vars

-------------------------------------------------------------------------------
(* Liveness, of one process at a time: the others may stand still. *)

(* The interval ticker ends a wait in select!, the drain follows, awaits    *)
(* return, and a closing process ends.                                      *)
Fairness(c) ==
    /\ WF_vars(Drain(c))
    /\ WF_vars(TickBranch(c))
    /\ WF_vars(ShutdownBranch(c))
    /\ WF_vars(CallStep(c))
    /\ WF_vars(Stopped(c))

(* The buffer of a revoked partition is dropped in the end: neither a full  *)
(* channel nor a busy loop keeps it in memory for good.                     *)
RevokedIsDroppedBy(c) ==
    \A p \in Partitions :
        (p \in revoked[c]) ~> (p \notin revoked[c] /\ (p \notin assigned[c] => ~ Held(batchers[c][p])))

(* A process that is told to stop does stop, whatever it is doing and       *)
(* whatever the bucket and the broker answer: the signal is noticed at the  *)
(* next wait, and one flush of every partition is all that is left to do.   *)
SignalStops(c) == (c \in signalled) ~> (phase[c] = "down")
===============================================================================
