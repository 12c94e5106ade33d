------------------------------- MODULE DataPath -------------------------------
(***************************************************************************)
(* One process from its environment to the rows of its objects: main loads  *)
(* the configuration (Config), the loop turns one message after the other   *)
(* into a record (Records), and records are collected by range (Batching).  *)
(*                                                                         *)
(* This is the path of the data alone, which Pipeline leaves out: one       *)
(* partition, uploads that succeed.  What can end the process is a setting, *)
(* a step of its wiring, or a batch.  The offsets go through all of u64,    *)
(* the type of RecordMeta::offset, to both ends of the arithmetic, although *)
(* a broker's end at MaxI64.                                                *)
(***************************************************************************)
EXTENDS Config, Records, Integers

CONSTANTS StartEnvironments,  \* environments that a process may be started in
          MessageLogs,        \* logs: sequences of messages, repeated
          Now                 \* the time of a write

ASSUME DataPathAssumption ==
    /\ StartEnvironments \subseteq Environments
    /\ MessageLogs \subseteq Seq([timestamp : Seq(Int), payload : Payloads])
    /\ \A entries \in MessageLogs : Len(entries) > 0

VARIABLES env,        \* the process environment
          log,        \* external: what is in the partition
          stage,      \* how far the process is, or what ended it
          reported,   \* problems that main printed before it exited
          offset,     \* the next offset to read
          batch       \* records of the current range, read so far

vars == <<env, log, stage, reported, offset, batch>>

config  == Loaded(env)
n       == config.range

(* external: the message at offset o. *)
Message(o) ==
    LET m == log[(o % Len(log)) + 1]
    IN  [topic |-> "topic_events", partition |-> 0, offset |-> o,
         timestamp |-> m.timestamp, payload |-> m.payload]

Init ==
    /\ env \in StartEnvironments
    /\ log = << >>
    /\ stage = "starting"
    /\ reported = {}
    /\ offset = 0
    /\ batch = << >>

(* main: print every problem and exit, or go on with the configuration. *)
StartFails ==
    /\ stage = "starting"
    /\ Problems(env) # {}
    /\ reported' = Problems(env)
    /\ stage' = "bad_config"
    /\ UNCHANGED <<env, log, offset, batch>>

Configure ==
    /\ stage = "starting"
    /\ Problems(env) = {}
    /\ stage' = "configured"
    /\ UNCHANGED <<env, log, reported, offset, batch>>

(* GcsSink::new fails if the HTTP client cannot be built (external); it     *)
(* takes any bucket and any host, and asks for no token.                    *)
BuildSink ==
    /\ stage = "configured"
    /\ stage' \in {"sink_built", "no_sink"}
    /\ UNCHANGED <<env, log, reported, offset, batch>>

(* build_consumer fails if the client or its subscription does (external);  *)
(* after it the loop runs.                                                  *)
Connect ==
    /\ stage = "sink_built"
    /\ \/ stage' = "running" /\ log' \in MessageLogs
       \/ stage' = "no_consumer" /\ UNCHANGED log
    /\ UNCHANGED <<env, reported, offset, batch>>

(* Mutant: the batch of the range before is kept. *)
AlwaysInCurrentRange(o) == TRUE

InCurrentRange(o) == batch = << >> \/ Contains(Containing(batch[1].meta.offset, n), o)

Joined(r) == IF InCurrentRange(r.meta.offset) THEN Append(batch, r) ELSE << r >>

(* Where a write of these records leaves the process: every failure ends    *)
(* it, a panic as an abort (panic = "abort" in the release profile), an     *)
(* error through the ? of each caller.                                      *)
AfterWrite(records) ==
    {IF how = "written" THEN "running" ELSE how : how \in WriteOutcomes(records, Now)}

(* The next message is parsed and joins the batch of its range, which is    *)
(* written if that completes it.  Offsets have no gaps here, so that a      *)
(* range that is left has been written as a whole before.                   *)
Read ==
    LET m == Message(offset)
        joined == Joined(ToRecord(m))
    IN  /\ stage = "running"
        /\ offset < MaxU64
        /\ stage' \in IF ParsePanics(m.payload) THEN {"parse_panic"}
                      ELSE IF IsComplete(Containing(offset, n), offset) THEN AfterWrite(joined)
                      ELSE {"running"}
        /\ batch' = IF stage' = "running" THEN joined ELSE << >>
        /\ offset' = offset + 1
        /\ UNCHANGED <<env, log, reported>>

(* tick, or flush_all at the end of the loop: a part of a range is written, *)
(* and kept.                                                                *)
WritePart ==
    /\ stage = "running"
    /\ batch # << >>
    /\ ~ IsComplete(Containing(batch[1].meta.offset, n), offset - 1)
    /\ stage' \in AfterWrite(batch)
    /\ batch' = IF stage' = "running" THEN batch ELSE << >>
    /\ UNCHANGED <<env, log, reported, offset>>

Next == StartFails \/ Configure \/ BuildSink \/ Connect \/ Read \/ WritePart

Spec == Init /\ [][Next]_vars

-------------------------------------------------------------------------------
(* Startup *)

(* A setting of the cross-repo contract that is missing, and a value of any *)
(* setting that cannot be what it is for.                                   *)
Missing(k) == k \in Required /\ env[k].kind \in {"unset", "blank"}

Tunables == {"batch_offset_range", "batch_max_idle_ms"}

IsMalformed(k) ==
    \/ env[k].kind = "foreign"
    \/ k \in Tunables /\ env[k].kind # "unset" /\ ~ IsNumber(env[k])
    \/ k = "batch_offset_range" /\ env[k] = [kind |-> "digits", number |-> 0]

(* config.rs collects "every missing or malformed variable" so that one     *)
(* restart is enough to fix them all.  It does, each with one complaint and *)
(* before anything is built or connected, except for one kind: a setting    *)
(* outside the contract that is not Unicode is taken for not set, and the   *)
(* process goes on with its default (for the host, with real GCS).          *)
AllButForeignIsReported ==
    LET wrong == {k \in Settings : Missing(k) \/ IsMalformed(k)}
        passed == {k \in Settings \ Required : env[k].kind = "foreign"}
    IN  /\ stage = "bad_config" => /\ wrong \ passed # {}
                                  /\ {p.key : p \in reported} = wrong \ passed
        /\ stage \notin {"starting", "bad_config"} => wrong \subseteq passed /\ reported = {}
        /\ \A p, q \in reported : p.key = q.key => p = q

(* A running process works with what was set: a number that is set is used  *)
(* as it is, never replaced by the default; the range is not empty (it is a *)
(* divisor), and the ticker's period is not zero (tokio refuses that).      *)
RunsAsConfigured ==
    stage = "running" =>
        /\ env["batch_offset_range"].kind = "digits" =>
               config.range = env["batch_offset_range"].number
        /\ env["batch_max_idle_ms"].kind = "digits" =>
               config.idle = env["batch_max_idle_ms"].number
        /\ config.range # 0
        /\ IdleCheck(config.idle) > 0

-------------------------------------------------------------------------------
(* Ranges *)

(* Every offset lies in the range computed for it, and the range is no wider *)
(* than configured and narrower only where it is clamped at the top of u64,  *)
(* also at the top of the space, where start + size - 1 does not fit.        *)
RangeHoldsItsOffset ==
    stage = "running" =>
        LET r == Containing(offset, n)
        IN  /\ Contains(r, offset)
            /\ r.end \in U64
            /\ Width(r) = n \/ (Width(r) < n /\ r.end = MaxU64)

(* Consecutive offsets share a range or sit on the two sides of a boundary:  *)
(* the ranges tile the offset space, without gap or overlap, for every       *)
(* consumer alike.                                                           *)
RangesTile ==
    [][offset' # offset =>
          LET r == Containing(offset, n)
              s == Containing(offset', n)
          IN  IF Contains(r, offset')
              THEN s = r
              ELSE /\ ~ Contains(s, offset)
                   /\ s.start = r.end + 1]_vars

(* At any offset a broker can hand out, a range is complete exactly at its   *)
(* last offset, and what is then committed is the next offset to read: it    *)
(* acknowledges the range and nothing past it, and does not wrap.  Only the  *)
(* very last i64 offset gives a commit that the i64 conversion refuses.      *)
CommitAcksExactly ==
    LET r == Containing(offset, n)
    IN  (stage = "running" /\ offset \in Offsets /\ IsComplete(r, offset)) =>
            /\ CommitOffset(r) = offset + 1
            /\ CommitOffset(r) > MaxI64 => offset = MaxI64

-------------------------------------------------------------------------------
(* Rows *)

(* envelope.rs: "a consumer that dies on one poison message stops consuming *)
(* the other 5 partitions too", so nothing that a message holds may end the *)
(* process; parquet_writer.rs: errors of the writer "in practice mean a bug *)
(* in this module rather than bad input".  Text columns have a limit that   *)
(* the batch has not.                                                       *)
NoMessageStopsTheProcess ==
    stage \notin {"parse_panic", "batch_refused", "text_overflow"}

(* What is true of it: no complaint is cut in the middle of a character, no *)
(* batch is refused for its columns, and the texts of a batch overflow only *)
(* if some message has a text of more than its share, 1/n of a column: the  *)
(* range boundaries bound the batch, and with it its texts.                 *)
ShortTexts ==
    \A o \in U64 : \A b \in TextColumns :
        TextBytes(ToRecord(Message(o)), b) <= MaxText \div n

OnlyLongTextsStopTheProcess ==
    /\ stage \notin {"parse_panic", "batch_refused"}
    /\ stage = "text_overflow" => ~ ShortTexts

EnvelopeColumns == {"event_id", "gateway_id", "received_at", "retry_count", "stream_name",
                    "event_header", "payload"}

(* What the gateway promises to write; the header comes with a JWT only. *)
FromGateway(payload) ==
    /\ payload.bytes
    /\ payload.json
    /\ Mandatory \subseteq DOMAIN payload.fields
    /\ payload.fields["event_id"] = "text"
    /\ payload.fields["gateway_id"] = "name"
    /\ payload.fields["received_at"] = "date"
    /\ "retry_count" \in DOMAIN payload.fields => payload.fields["retry_count"] = "int"
    /\ "stream_name" \in DOMAIN payload.fields => payload.fields["stream_name"] = "text"
    /\ "event_header" \in DOMAIN payload.fields => payload.fields["event_header"] = "object"

(* The row that message m should become; its offset is never negative, and  *)
(* right wherever i64 has it.                                               *)
IsRowOf(row, m) ==
    /\ row["kafka_offset"][1] \in Offsets
    /\ m.offset \in Offsets => row["kafka_offset"][1] = m.offset
    /\ row["kafka_timestamp"] = m.timestamp
    /\ row["malformed"] = << FALSE >> =>
          /\ row["malformed_reason"] = << >>
          /\ \A f \in EnvelopeColumns :
                row[f] # << >> => \/ f \in DOMAIN m.payload.fields
                                     /\ row[f] = << m.payload.fields[f] >>
                                  \/ f = "retry_count"
    /\ row["malformed"] = << TRUE >> =>
          /\ row["malformed_reason"] # << >>
          /\ Bytes(row["malformed_reason"][1]) <= MaxReason + 3
          /\ \A f \in EnvelopeColumns : row[f] = << >>
    /\ FromGateway(m.payload) =>
          /\ row["malformed"] = << FALSE >>
          /\ \A f \in DOMAIN m.payload.fields : row[f] = << m.payload.fields[f] >>

(* Every offset of a batch has its row, at its place: malformed records are  *)
(* rows with their offset and nothing else, and whatever the gateway writes, *)
(* with or without a header, arrives with each field in its own column.      *)
EveryOffsetHasItsRow ==
    \A rows \in {WriteBatch(batch, Now)} \ {<< >>} :
        /\ Len(rows[1]) = Len(batch)
        /\ \A i \in DOMAIN batch :
              IsRowOf(rows[1][i], Message(offset - Len(batch) + i - 1))

-------------------------------------------------------------------------------

Complaints ==
    {"required and not set", "set but empty", "not a valid number", "must be greater than 0"}

Stages ==
    {"starting", "bad_config", "configured", "no_sink", "sink_built", "no_consumer", "running",
     "parse_panic", "text_overflow", "batch_refused", "encoder_failed"}

TypeOK ==
    /\ env \in Environments
    /\ stage # "running" \/ Len(log) > 0
    /\ stage \in Stages
    /\ reported \subseteq [key : Settings, why : Complaints]
    /\ offset \in U64
    /\ Len(batch) <= n
===============================================================================
