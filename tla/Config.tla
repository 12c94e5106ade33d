------------------------------- MODULE Config -------------------------------
(***************************************************************************)
(* The settings of a process: src/src/config.rs, and what main derives from *)
(* them.                                                                   *)
(*                                                                         *)
(* The text of a variable is modelled by its kind: not set, not Unicode     *)
(* ("foreign"), blank, digits of some number, or other text.  A number may  *)
(* be too large for u64.  The list of problems is a set of keys, each with  *)
(* its complaint; the wording of messages and the .env file are left out.   *)
(***************************************************************************)
EXTENDS Batching

CONSTANTS DefaultRange,   \* BATCH_OFFSET_RANGE when it is not set
          DefaultIdle,    \* BATCH_MAX_IDLE_MS when it is not set
          MinIdleCheck    \* shortest period of the idle check, in ms

ASSUME ConfigAssumption ==
    /\ DefaultRange \in Sizes
    /\ DefaultIdle \in U64
    /\ MinIdleCheck \in Nat \ {0}

Required == {"bootstrap_servers", "topic_events", "topic_signals", "topic_logs",
             "consumer_group", "gcs_bucket"}
Settings == Required \union
            {"batch_offset_range", "batch_max_idle_ms", "storage_emulator_host"}

RawValues == [kind : {"unset", "foreign", "blank", "text"}, number : {0}] \union
             [kind : {"digits"}, number : Nat]

Environments == [Settings -> RawValues]

(* env::var gives no text: an error of either kind. *)
NoText(v)   == v.kind \in {"unset", "foreign"}
Usable(v)   == v.kind \in {"text", "digits"}
IsNumber(v) == v.kind = "digits" /\ v.number \in U64

-------------------------------------------------------------------------------
(* What each helper complains about; "none" if it has nothing to say. *)

(* required *)
RequiredComplaint(v) ==
    IF NoText(v) THEN "required and not set"
    ELSE IF v.kind = "blank" THEN "set but empty" ELSE "none"

(* parse_or *)
NumberComplaint(v) ==
    IF NoText(v) \/ IsNumber(v) THEN "none" ELSE "not a valid number"

(* Mutant: a zero is passed over, and falls back without a word. *)
ZeroIgnored(v) == NumberComplaint(v)

(* parse_non_zero *)
NonZeroComplaint(v) ==
    IF IsNumber(v) /\ v.number = 0 THEN "must be greater than 0" ELSE NumberComplaint(v)

Complaint(k, v) ==
    CASE k \in Required             -> RequiredComplaint(v)
      [] k = "batch_offset_range"   -> NonZeroComplaint(v)
      [] k = "batch_max_idle_ms"    -> NumberComplaint(v)
      [] k = "storage_emulator_host" -> "none"

BadSettings(env) == {k \in Settings : Complaint(k, env[k]) # "none"}

(* Mutant: loading stops at the first problem. *)
FirstProblem(env) ==
    {[key |-> k, why |-> Complaint(k, env[k])] :
        k \in {b \in BadSettings(env) : b = CHOOSE f \in BadSettings(env) : TRUE}}

(* Config::from_env collects every problem and fails if there is any. *)
Problems(env) == {[key |-> k, why |-> Complaint(k, env[k])] : k \in BadSettings(env)}

-------------------------------------------------------------------------------
(* What the process works with. *)

Number(v, default) == IF IsNumber(v) THEN v.number ELSE default

(* parse_non_zero falls back for a zero too. *)
NonZero(v, default) == IF Number(v, default) = 0 THEN default ELSE Number(v, default)

(* No host, or a blank one, is real GCS: no value. *)
Host(v) == IF Usable(v) THEN << v >> ELSE << >>

(* Config::from_env, when there are no problems. *)
Loaded(env) ==
    [names    |-> [k \in Required |-> env[k]],
     range    |-> NonZero(env["batch_offset_range"], DefaultRange),
     idle     |-> Number(env["batch_max_idle_ms"], DefaultIdle),
     emulator |-> Host(env["storage_emulator_host"])]

(* The period of the ticker that main hands to the loop. *)
IdleCheck(idle) ==
    IF idle \div 4 > MinIdleCheck THEN idle \div 4 ELSE MinIdleCheck
===============================================================================
