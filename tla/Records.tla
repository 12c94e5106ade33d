------------------------------- MODULE Records -------------------------------
(***************************************************************************)
(* From a broker's message to the rows of a Parquet object: to_record of    *)
(* src/src/kafka.rs, src/src/envelope.rs and src/src/parquet_writer.rs.     *)
(*                                                                         *)
(* A JSON document is modelled by its fields, a function on the names that  *)
(* are present, with values told apart as far as the code does, and the     *)
(* bytes that each takes when it is written.  Of a text that may be cut     *)
(* only the byte positions count at which its characters end.  A cell of    *)
(* the table is << v >>, or << >> for a null.  The encoding below the       *)
(* columns (Parquet, zstd) is left out, but that it may fail is not.        *)
(***************************************************************************)
EXTENDS Batching, Sequences

CONSTANTS MaxReason,      \* bytes kept of a parser's complaint
          MaxText,        \* bytes that a text column can hold: i32::MAX
          TopicBytes      \* bytes of a topic's name

ASSUME RecordsAssumption ==
    /\ MaxReason \in Nat
    /\ MaxText \in Nat
    /\ TopicBytes \in Nat

-------------------------------------------------------------------------------
(* Texts *)

Bytes(s)         == IF s = << >> THEN 0 ELSE s[Len(s)]
IsBoundary(s, b) == b = 0 \/ \E i \in DOMAIN s : s[i] = b

(* Mutant: the text is cut at the limit wherever that falls. *)
CutAtLimit(s, max) == max

(* Where truncate's loop ends that goes back from a byte. *)
WalkBack(s, max) ==
    LET back[cut \in 0 .. max] ==
            IF cut > 0 /\ ~ IsBoundary(s, cut) THEN back[cut - 1] ELSE cut
    IN  back

CutOf(s, max) == WalkBack(s, max)[max]

(* Slicing a text between two characters is a panic, and a panic aborts. *)
TruncatePanics(s, max) == Bytes(s) > max /\ ~ IsBoundary(s, CutOf(s, max))

(* The characters up to a boundary. *)
UpTo(s, cut) ==
    LET k == CHOOSE k \in 0 .. Len(s) : Bytes(SubSeq(s, 1, k)) = cut
    IN  SubSeq(s, 1, k)

(* What does not fit is cut, and an ellipsis of three bytes put behind it. *)
Truncated(s, max) ==
    IF Bytes(s) <= max THEN s ELSE Append(UpTo(s, CutOf(s, max)), CutOf(s, max) + 3)

-------------------------------------------------------------------------------
(* Envelopes *)

Names     == {"event_id", "gateway_id", "received_at"}
Mandatory == Names \union {"payload"}
Fields    == Mandatory \union {"retry_count", "stream_name", "event_header"}

(* "date" is a text in RFC 3339 form, "int" a number that fits i32. *)
Strings  == {"text", "name", "date"}
Values   == Strings \union {"null", "int", "number", "object"}

(* Mutant: an envelope without a header, that of an API key, is refused. *)
HeaderRequired(fields) ==
    /\ Mandatory \union {"event_header"} \subseteq DOMAIN fields
    /\ \A f \in Names : fields[f] \in Strings

(* external: the derived deserializer.  Only the Option fields take a null, *)
(* default stands in for an absent field only, and payload is any value.    *)
IsEnvelope(fields) ==
    /\ Mandatory \subseteq DOMAIN fields
    /\ \A f \in Names : fields[f] \in Strings
    /\ "retry_count" \in DOMAIN fields => fields["retry_count"] = "int"
    /\ "stream_name" \in DOMAIN fields => fields["stream_name"] \in Strings \union {"null"}

(* An Option field: absent and null are the same. *)
Optional(fields, f) ==
    IF f \in DOMAIN fields /\ fields[f] # "null" THEN << fields[f] >> ELSE << >>

(* external: any bytes of a message. *)
Payloads ==
    [bytes : BOOLEAN, json : BOOLEAN, complaint : Seq(Nat), length : [Fields -> Nat],
     fields : UNION {[present -> Values] : present \in SUBSET Fields}]

(* A message's payload: a tombstone has no bytes; complaint is what the     *)
(* parser would say of bytes that are not an envelope; length is what a     *)
(* field takes as a text.                                                   *)
IsReadable(payload) == payload.bytes /\ payload.json /\ IsEnvelope(payload.fields)

TombstoneReason == << MaxReason >>

Malformed(reason) == [kind |-> "malformed", reason |-> reason]

(* ParsedRecord::parse never fails: what cannot be read is a record too. *)
Parse(meta, payload) ==
    [meta |-> meta,
     body |-> IF IsReadable(payload)
              THEN [kind |-> "parsed", fields |-> payload.fields, length |-> payload.length]
              ELSE IF payload.bytes THEN Malformed(Truncated(payload.complaint, MaxReason))
              ELSE Malformed(TombstoneReason)]

ParsePanics(payload) ==
    /\ payload.bytes
    /\ ~ IsReadable(payload)
    /\ TruncatePanics(payload.complaint, MaxReason)

(* to_record; the offset of a message is an i64. *)
ToRecord(msg) ==
    Parse([topic |-> msg.topic, partition |-> msg.partition,
           offset |-> IF msg.offset \in U64 THEN msg.offset ELSE 0,
           timestamp |-> msg.timestamp], msg.payload)

-------------------------------------------------------------------------------
(* Rows *)

Field(name, type, nullable) == [name |-> name, type |-> type, nullable |-> nullable]

(* schema *)
Schema == <<
    Field("event_id", "Utf8", TRUE),           Field("gateway_id", "Utf8", TRUE),
    Field("received_at", "Micros", TRUE),      Field("retry_count", "Int32", TRUE),
    Field("stream_name", "Utf8", TRUE),        Field("event_header", "Utf8", TRUE),
    Field("payload", "Utf8", TRUE),            Field("kafka_topic", "Utf8", FALSE),
    Field("kafka_partition", "Int32", FALSE),  Field("kafka_offset", "Int64", FALSE),
    Field("kafka_timestamp", "Millis", TRUE),  Field("ingested_at", "Micros", FALSE),
    Field("malformed", "Boolean", FALSE),      Field("malformed_reason", "Utf8", TRUE) >>

(* The column builders and what they build. *)
Builders ==
    [event_id |-> "Utf8", gateway_id |-> "Utf8", received_at |-> "Micros",
     retry_count |-> "Int32", stream_name |-> "Utf8", event_header |-> "Utf8",
     payload |-> "Utf8", kafka_topic |-> "Utf8", kafka_partition |-> "Int32",
     kafka_offset |-> "Int64", kafka_timestamp |-> "Millis", ingested |-> "Micros",
     malformed |-> "Boolean", malformed_reason |-> "Utf8"]

(* Mutant: two columns of one type change places. *)
SwappedColumns ==
    << "gateway_id", "event_id", "received_at", "retry_count", "stream_name",
       "event_header", "payload", "kafka_topic", "kafka_partition", "kafka_offset",
       "kafka_timestamp", "ingested", "malformed", "malformed_reason" >>

(* The builders in the order in which their columns are put together. *)
Columns ==
    << "event_id", "gateway_id", "received_at", "retry_count", "stream_name",
       "event_header", "payload", "kafka_topic", "kafka_partition", "kafka_offset",
       "kafka_timestamp", "ingested", "malformed", "malformed_reason" >>

OffsetToI64(o) == IF o > MaxI64 THEN MaxI64 ELSE o

(* What a record of either kind appends. *)
ProvenanceCells(r, now) ==
    [kafka_topic |-> << r.meta.topic >>, kafka_partition |-> << r.meta.partition >>,
     kafka_offset |-> << OffsetToI64(r.meta.offset) >>,
     kafka_timestamp |-> r.meta.timestamp, ingested |-> << now >>]

ParsedCells(e) ==
    [malformed |-> << FALSE >>, malformed_reason |-> << >>,
     event_id |-> << e["event_id"] >>, gateway_id |-> << e["gateway_id"] >>,
     received_at |-> IF e["received_at"] = "date" THEN << "date" >> ELSE << >>,
     retry_count |-> << IF "retry_count" \in DOMAIN e THEN e["retry_count"] ELSE "0" >>,
     stream_name |-> Optional(e, "stream_name"), event_header |-> Optional(e, "event_header"),
     payload |-> << e["payload"] >>]

MalformedCells(reason) ==
    [malformed |-> << TRUE >>, malformed_reason |-> << reason >>,
     event_id |-> << >>, gateway_id |-> << >>, received_at |-> << >>, retry_count |-> << >>,
     stream_name |-> << >>, event_header |-> << >>, payload |-> << >>]

(* The cells that record r appends, each to the builder of its name. *)
Appended(r, now) ==
    LET own == IF r.body.kind = "parsed" THEN ParsedCells(r.body.fields)
               ELSE MalformedCells(r.body.reason)
        all == ProvenanceCells(r, now)
    IN  [b \in DOMAIN own \union DOMAIN all |-> IF b \in DOMAIN own THEN own[b] ELSE all[b]]

(* RecordBatch::try_new (external): as many columns as fields, of their      *)
(* types, with a cell for every record (no builder gets two from one), and   *)
(* nulls only where the field allows them.                                   *)
BatchIsValid(records, now) ==
    /\ Len(Columns) = Len(Schema)
    /\ \A j \in DOMAIN Schema :
          /\ Builders[Columns[j]] = Schema[j].type
          /\ \A i \in DOMAIN records :
                /\ Columns[j] \in DOMAIN Appended(records[i], now)
                /\ ~ Schema[j].nullable => Appended(records[i], now)[Columns[j]] # << >>

(* The rows of the object, by the names of the schema. *)
IndexOf(name) == CHOOSE j \in DOMAIN Schema : Schema[j].name = name

RowsOf(records, now) ==
    [i \in DOMAIN records |->
        [name \in {Schema[j].name : j \in DOMAIN Schema} |->
            Appended(records[i], now)[Columns[IndexOf(name)]]]]

(* What record r adds to text column b. *)
TextColumns == {b \in DOMAIN Builders : Builders[b] = "Utf8"}

TextBytes(r, b) ==
    CASE b = "kafka_topic" -> TopicBytes
      [] b = "malformed_reason" /\ r.body.kind = "malformed" -> Bytes(r.body.reason)
      [] b \in Fields /\ r.body.kind = "parsed" ->
            IF ParsedCells(r.body.fields)[b] = << >> THEN 0 ELSE r.body.length[b]
      [] OTHER -> 0

(* The bytes in text column b after each of the records. *)
ColumnBytes(records, b) ==
    LET total[i \in 0 .. Len(records)] ==
            IF i = 0 THEN 0 ELSE total[i - 1] + TextBytes(records[i], b)
    IN  total

(* external: StringBuilder keeps its offsets in i32, and panics when the    *)
(* text of the column passes them.                                          *)
TextsFit(records) ==
    \A b \in TextColumns : ColumnBytes(records, b)[Len(records)] <= MaxText

(* write_batch: the rows of the object, or no object. *)
WriteBatch(records, now) ==
    IF TextsFit(records) /\ BatchIsValid(records, now) THEN << RowsOf(records, now) >> ELSE << >>

(* How write_batch can end: with a panic, with an error from the columns,   *)
(* or with what the encoder (external: ArrowWriter, zstd) makes of them.    *)
WriteOutcomes(records, now) ==
    IF ~ TextsFit(records) THEN {"text_overflow"}
    ELSE IF ~ BatchIsValid(records, now) THEN {"batch_refused"}
    ELSE {"written", "encoder_failed"}
===============================================================================
