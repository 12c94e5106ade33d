------------------------------ MODULE MCDataPath ------------------------------
(* Small environments and message logs for DataPath. *)
EXTENDS DataPath

Raw(kind)  == [kind |-> kind, number |-> 0]
Digits(i)  == [kind |-> "digits", number |-> i]

GoodEnvironment ==
    [k \in Settings |-> IF k \in Required THEN Raw("text") ELSE Raw("unset")]

Samples(k) ==
    IF k \in Required THEN {Raw("unset"), Raw("foreign"), Raw("blank")}
    ELSE IF k = "storage_emulator_host" THEN {Raw("foreign"), Raw("blank"), Raw("text")}
    ELSE {Raw("foreign"), Raw("blank"), Raw("text"), Digits(0), Digits(3), Digits(MaxU64 + 1)}

(* A good environment with up to two settings changed, and one with every   *)
(* range size.                                                              *)
MCEnvironments ==
    UNION {{[GoodEnvironment EXCEPT ![j] = u, ![k] = v] : u \in Samples(j), v \in Samples(k)} :
              j, k \in Settings}
    \union {[GoodEnvironment EXCEPT !["batch_offset_range"] = Digits(i)] : i \in Sizes}

Lengths(l) == [f \in Fields |-> l]

Envelope(fields) ==
    [bytes |-> TRUE, json |-> TRUE, fields |-> fields, complaint |-> << 2, 4, 6 >>,
     length |-> Lengths(1)]

Long(payload, l) == [payload EXCEPT !.length = Lengths(l)]

Broken(complaint) ==
    [bytes |-> TRUE, json |-> FALSE, fields |-> [f \in {} |-> "null"], complaint |-> complaint,
     length |-> Lengths(0)]

Tombstone ==
    [bytes |-> FALSE, json |-> FALSE, fields |-> [f \in {} |-> "null"], complaint |-> << >>,
     length |-> Lengths(0)]

ApiKey  == [event_id |-> "text", gateway_id |-> "name", received_at |-> "date",
            payload |-> "object"]
Jwt     == [event_id |-> "text", gateway_id |-> "name", received_at |-> "date",
            payload |-> "object", retry_count |-> "int", stream_name |-> "text",
            event_header |-> "object"]

SamplePayloads ==
    {Tombstone, Broken(<< 1, 2 >>), Broken(<< 1, 4, 5, 6 >>), Broken(<< 3, 6 >>),
     Envelope(ApiKey), Envelope(Jwt), Long(Envelope(ApiKey), 40), Long(Envelope(Jwt), 70),
     Envelope([Jwt EXCEPT !.event_header = "null", !.stream_name = "null"]),
     Envelope([Jwt EXCEPT !.retry_count = "null"]),
     Envelope([ApiKey EXCEPT !.received_at = "text", !.payload = "null"]),
     Envelope([event_id |-> "text", gateway_id |-> "name", received_at |-> "date"])}

(* The two messages of a log alternate; the one with a timestamp varies. *)
MCLogs == {<< [timestamp |-> << 0 >>, payload |-> a], [timestamp |-> << >>, payload |-> b] >> :
              a \in SamplePayloads, b \in {Tombstone, Envelope(Jwt)}}
===============================================================================
