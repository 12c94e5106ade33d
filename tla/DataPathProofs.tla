---------------------------- MODULE DataPathProofs ----------------------------
(***************************************************************************)
(* Proofs about DataPath: what a process reports and works with, the         *)
(* arithmetic of its ranges, what of a message can stop it, and that every  *)
(* offset has its row, for every word size, range size, environment and log. *)
(***************************************************************************)
EXTENDS DataPath, BatchingProofs, WellFoundedInduction

-------------------------------------------------------------------------------
(* Settings. *)

LEMMA NoProblems ==
    ASSUME NEW e \in Environments, Problems(e) = {}, NEW k \in Settings
    PROVE  Complaint(k, e[k]) = "none"
<1>1. SUFFICES ASSUME Complaint(k, e[k]) # "none" PROVE FALSE
  OBVIOUS
<1>2. k \in BadSettings(e)
  BY <1>1 DEF BadSettings
<1>3. [key |-> k, why |-> Complaint(k, e[k])] \in Problems(e)
  BY <1>2 DEF Problems
<1> QED
  BY <1>3

(* Without a complaint a number is what was set, or the default if nothing  *)
(* was.                                                                     *)
LEMMA NumberFacts ==
    ASSUME NEW v \in RawValues, NumberComplaint(v) = "none", NEW default \in U64
    PROVE  /\ Number(v, default) \in U64
           /\ v.kind = "digits" => Number(v, default) = v.number
           /\ v.kind # "digits" => Number(v, default) = default
<1>1. v.kind = "digits" => IsNumber(v)
  BY DEF NumberComplaint, NoText
<1>2. v.kind # "digits" => ~ IsNumber(v)
  BY DEF IsNumber
<1>3. IsNumber(v) => v.number \in U64
  BY DEF IsNumber
<1> QED
  BY <1>1, <1>2, <1>3 DEF Number

LEMMA NonZeroFacts ==
    ASSUME NEW v \in RawValues, NonZeroComplaint(v) = "none"
    PROVE  /\ NumberComplaint(v) = "none"
           /\ v.kind = "digits" => v.number # 0
  BY DEF NonZeroComplaint, NumberComplaint, NoText, IsNumber

(* The settings of an environment without problems. *)
LEMMA LoadedFacts ==
    ASSUME NEW e \in Environments, Problems(e) = {}
    PROVE  /\ Loaded(e).range \in Sizes
           /\ e["batch_offset_range"].kind = "digits" =>
                 Loaded(e).range = e["batch_offset_range"].number
           /\ Loaded(e).idle \in U64
           /\ e["batch_max_idle_ms"].kind = "digits" =>
                 Loaded(e).idle = e["batch_max_idle_ms"].number
<1> DEFINE r == e["batch_offset_range"]
           i == e["batch_max_idle_ms"]
<1>1. "batch_offset_range" \in Settings /\ "batch_max_idle_ms" \in Settings
  BY DEF Settings
<1>2. r \in RawValues /\ i \in RawValues
  BY <1>1 DEF Environments
<1>3. NonZeroComplaint(r) = "none" /\ NumberComplaint(i) = "none"
  BY <1>1, NoProblems DEF Complaint, Required
<1>4. Loaded(e).range = NonZero(r, DefaultRange) /\ Loaded(e).idle = Number(i, DefaultIdle)
  BY DEF Loaded
<1> HIDE DEF r, i
<1>5. DefaultRange \in U64 /\ DefaultRange # 0 /\ DefaultIdle \in U64
  BY ConfigAssumption, WordAssumption DEF Sizes, U64
<1>6. /\ Number(r, DefaultRange) \in U64
      /\ r.kind = "digits" => Number(r, DefaultRange) = r.number /\ r.number # 0
  BY <1>2, <1>3, <1>5, NonZeroFacts, NumberFacts
<1>7. NonZero(r, DefaultRange) \in U64 /\ NonZero(r, DefaultRange) # 0
  BY <1>5, <1>6 DEF NonZero
<1>8. \A k \in U64 : k # 0 => k \in Sizes
  BY WordAssumption DEF U64, Sizes
<1>9. r.kind = "digits" => NonZero(r, DefaultRange) = r.number
  BY <1>6 DEF NonZero
<1>10. Number(i, DefaultIdle) \in U64 /\ (i.kind = "digits" => Number(i, DefaultIdle) = i.number)
  BY <1>2, <1>3, <1>5, NumberFacts
<1> QED
  BY <1>4, <1>7, <1>8, <1>9, <1>10 DEF r, i

LEMMA IdleCheckIsPositive ==
    ASSUME NEW idle \in U64
    PROVE  IdleCheck(idle) > 0
<1>1. idle \in Nat
  BY WordAssumption DEF U64
<1>2. idle \div 4 \in Nat
  BY <1>1
<1> QED
  BY <1>2, ConfigAssumption DEF IdleCheck

-------------------------------------------------------------------------------
(* A range is as wide as its size, or clamped at the top of the word. *)
LEMMA WidthFacts ==
    ASSUME NEW o \in U64, NEW size \in Sizes
    PROVE  LET r == Containing(o, size)
           IN  Width(r) = size \/ (Width(r) < size /\ r.end = MaxU64)
<1> DEFINE s == (o \div size) * size
<1>1. o \in Nat /\ size \in Nat \ {0} /\ o <= MaxU64 /\ MaxU64 \in Nat
  BY WordAssumption DEF U64, Sizes
<1>2. s \in Nat /\ s <= o
  BY <1>1, DivBounds
<1>3. Containing(o, size) = [start |-> s, end |-> SaturatingAdd(s, size - 1)]
  BY DEF Containing
<1> HIDE DEF s
<1> QED
  BY <1>1, <1>2, <1>3 DEF Width, SaturatingAdd

-------------------------------------------------------------------------------
(* What a running process can rely on. *)

IsConfigured == stage \notin {"starting", "bad_config"}

Started ==
    /\ env \in Environments
    /\ offset \in U64
    /\ IsConfigured => Problems(env) = {}

(* A write leaves a running process running, or ends it. *)
LEMMA AfterWriteFacts ==
    ASSUME NEW records, NEW s \in AfterWrite(records)
    PROVE  /\ s \in {"running", "text_overflow", "batch_refused", "encoder_failed"}
           /\ s = "text_overflow" => ~ TextsFit(records)
           /\ s = "batch_refused" => ~ BatchIsValid(records, Now)
  BY DEF AfterWrite, WriteOutcomes

LEMMA StartedInit ==
    ASSUME Init
    PROVE  Started
<1>1. env \in Environments
  BY DataPathAssumption DEF Init
<1> QED
  BY <1>1, WordAssumption DEF Init, Started, IsConfigured, U64

LEMMA StartedStep ==
    ASSUME Started, [Next]_vars
    PROVE  Started'
<1>1. CASE StartFails
  BY <1>1 DEF StartFails, Started, IsConfigured
<1>2. CASE Configure
  BY <1>2 DEF Configure, Started, IsConfigured
<1>3. CASE BuildSink \/ Connect
  BY <1>3 DEF BuildSink, Connect, Started, IsConfigured
<1>4. CASE Read
  <2>1. stage = "running" /\ env' = env /\ offset < MaxU64 /\ offset' = offset + 1
    BY <1>4 DEF Read
  <2>2. offset' \in U64
    BY <2>1, WordAssumption DEF Started, U64
  <2> QED
    BY <2>1, <2>2 DEF Started, IsConfigured
<1>5. CASE WritePart
  BY <1>5 DEF WritePart, Started, IsConfigured
<1>6. CASE UNCHANGED vars
  BY <1>6 DEF vars, Started, IsConfigured
<1> QED
  BY <1>1, <1>2, <1>3, <1>4, <1>5, <1>6 DEF Next

LEMMA StartedAlways == Spec => []Started
<1>1. Init => Started
  BY StartedInit
<1>2. Started /\ [Next]_vars => Started'
  BY StartedStep
<1> QED
  BY <1>1, <1>2, PTL DEF Spec

LEMMA SizeIsSet ==
    ASSUME Started, IsConfigured
    PROVE  n \in Sizes
  BY LoadedFacts DEF Started, n, config

(* A running process works with what was set, in every environment: no      *)
(* number that is set is replaced, the range is never zero and neither is   *)
(* the period of the idle check.                                            *)
THEOREM RunsAsConfiguredAlways == Spec => []RunsAsConfigured
<1>1. Started => RunsAsConfigured
  <2>1. SUFFICES ASSUME Started, stage = "running" PROVE RunsAsConfigured
    BY DEF RunsAsConfigured
  <2>2. env \in Environments /\ Problems(env) = {}
    BY <2>1 DEF Started, IsConfigured
  <2>3. config.range # 0
    BY <2>2, LoadedFacts, WordAssumption DEF config, Sizes
  <2>4. IdleCheck(config.idle) > 0
    BY <2>2, LoadedFacts, IdleCheckIsPositive DEF config
  <2> QED
    BY <2>2, <2>3, <2>4, LoadedFacts DEF RunsAsConfigured, config
<1> QED
  BY <1>1, StartedAlways, PTL

(* For any size of range and of word, an offset lies in its range, which is  *)
(* as wide as configured except where u64 ends.                              *)
THEOREM RangeHoldsItsOffsetAlways == Spec => []RangeHoldsItsOffset
<1>1. Started => RangeHoldsItsOffset
  <2>1. SUFFICES ASSUME Started, stage = "running" PROVE RangeHoldsItsOffset
    BY DEF RangeHoldsItsOffset
  <2>2. n \in Sizes /\ offset \in U64
    BY <2>1, SizeIsSet DEF Started, IsConfigured
  <2> DEFINE r == Containing(offset, n)
  <2>3. r \in BatchRanges /\ Contains(r, offset)
    BY <2>2, ContainingHoldsOffset
  <2>4. Width(r) = n \/ (Width(r) < n /\ r.end = MaxU64)
    BY <2>2, WidthFacts
  <2>5. r.end \in U64
    BY <2>3 DEF BatchRanges
  <2> QED
    BY <2>3, <2>4, <2>5 DEF RangeHoldsItsOffset
<1> QED
  BY <1>1, StartedAlways, PTL

(* What is committed for a range is the next offset to read, for every range *)
(* that a broker's offsets complete.                                         *)
THEOREM CommitAcksExactlyAlways == Spec => []CommitAcksExactly
<1>1. Started => CommitAcksExactly
  <2> DEFINE r == Containing(offset, n)
  <2>1. SUFFICES ASSUME Started, stage = "running", offset \in Offsets, IsComplete(r, offset)
                 PROVE  CommitOffset(r) = offset + 1 /\ (CommitOffset(r) > MaxI64 => offset = MaxI64)
    BY DEF CommitAcksExactly
  <2>2. n \in Sizes /\ offset \in U64
    BY <2>1, SizeIsSet DEF Started, IsConfigured
  <2>3. r \in BatchRanges /\ Contains(r, offset)
    BY <2>2, ContainingHoldsOffset
  <2>4. offset = r.end
    BY <2>1, <2>2, <2>3, CompleteAtItsEnd
  <2> HIDE DEF r
  <2>5. CommitOffset(r) = offset + 1
    BY <2>1, <2>3, <2>4, CommitOffsetIsNext
  <2> QED
    BY <2>1, <2>5, WordAssumption DEF Offsets
<1> QED
  BY <1>1, StartedAlways, PTL

LEMMA TileStep ==
    ASSUME Started, [Next]_vars, offset' # offset
    PROVE  LET r == Containing(offset, n)
               s == Containing(offset', n)
           IN  IF Contains(r, offset')
               THEN s = r
               ELSE ~ Contains(s, offset) /\ s.start = r.end + 1
<1> DEFINE r == Containing(offset, n)
           s == Containing(offset', n)
<1>1. Read
  BY DEF Next, StartFails, Configure, BuildSink, Connect, WritePart, vars
<1>2. n \in Sizes /\ offset \in U64 /\ offset \in Nat /\ offset' = offset + 1 /\ offset' \in U64
  BY <1>1, SizeIsSet, StartedStep, WordAssumption DEF Read, Started, IsConfigured, U64
<1>3. /\ r \in BatchRanges /\ Contains(r, offset)
      /\ s \in BatchRanges /\ Contains(s, offset')
  BY <1>2, ContainingHoldsOffset
<1>4. CASE Contains(r, offset')
  BY <1>2, <1>4, ContainingIsCanonical
<1>5. CASE ~ Contains(r, offset')
  <2>1. r.start \in Nat /\ r.end \in Nat /\ s.start \in Nat /\ s.end \in Nat
    BY <1>3, WordAssumption DEF BatchRanges, U64
  <2>2. offset = r.end
    BY <1>2, <1>3, <1>5, <2>1 DEF Contains
  <2>3. r.end < s.start
    BY <1>2, <2>2, RangesDoNotOverlap
  <2> HIDE DEF r, s
  <2>4. s.start <= offset + 1
    BY <1>2, <1>3 DEF Contains
  <2>5. s.start = r.end + 1 /\ ~ Contains(s, offset)
    BY <1>2, <2>1, <2>2, <2>3, <2>4 DEF Contains
  <2> QED
    BY <1>5, <2>5 DEF r, s
<1> QED
  BY <1>4, <1>5

(* The ranges of one process after the other offset tile the offset space,   *)
(* without gap or overlap.                                                   *)
THEOREM RangesTileAlways == Spec => RangesTile
<1>1. Started /\ [Next]_vars =>
        [offset' # offset =>
            LET r == Containing(offset, n)
                s == Containing(offset', n)
            IN  IF Contains(r, offset')
                THEN s = r
                ELSE /\ ~ Contains(s, offset)
                     /\ s.start = r.end + 1]_vars
  BY TileStep
<1> QED
  BY <1>1, StartedAlways, PTL DEF Spec, RangesTile

-------------------------------------------------------------------------------
(* What a process reports before it exits. *)

(* A number is complained about if it is set to anything but a u64. *)
LEMMA ComplaintMeaning ==
    ASSUME NEW v \in RawValues
    PROVE  /\ RequiredComplaint(v) # "none" <=> ~ Usable(v)
           /\ NumberComplaint(v) # "none" <=> (v.kind \in {"blank", "text", "digits"} /\ ~ IsNumber(v))
           /\ NonZeroComplaint(v) # "none" <=>
                 \/ v.kind \in {"blank", "text", "digits"} /\ ~ IsNumber(v)
                 \/ v = [kind |-> "digits", number |-> 0]
<1>1. v.kind \in {"unset", "foreign", "blank", "text", "digits"}
  BY DEF RawValues
<1>2. RequiredComplaint(v) # "none" <=> ~ Usable(v)
  BY <1>1 DEF RequiredComplaint, Usable, NoText
<1>3. NumberComplaint(v) # "none" <=> (v.kind \in {"blank", "text", "digits"} /\ ~ IsNumber(v))
  BY <1>1 DEF NumberComplaint, NoText, IsNumber
<1>4. (IsNumber(v) /\ v.number = 0) <=> v = [kind |-> "digits", number |-> 0]
  <2>1. 0 \in U64
    BY WordAssumption DEF U64
  <2>2. ASSUME v.kind = "digits" PROVE v = [kind |-> "digits", number |-> v.number]
    BY <2>2 DEF RawValues
  <2> QED
    BY <2>1, <2>2 DEF IsNumber
<1>5. NonZeroComplaint(v) # "none" <=> \/ (IsNumber(v) /\ v.number = 0) \/ NumberComplaint(v) # "none"
  BY DEF NonZeroComplaint
<1> QED
  BY <1>2, <1>3, <1>4, <1>5

(* The settings that are missing or malformed, but for those outside the    *)
(* contract whose value is not Unicode.                                     *)
WrongButPassed ==
    {k \in Settings : Missing(k) \/ IsMalformed(k)}
        \ {k \in Settings \ Required : env[k].kind = "foreign"}

LEMMA WrongIsBad ==
    ASSUME env \in Environments
    PROVE  BadSettings(env) = WrongButPassed
<1>1. ASSUME NEW k \in Required PROVE k \in BadSettings(env) <=> k \in WrongButPassed
  <2>1. k \in Settings /\ env[k] \in RawValues /\ k \notin Tunables
    BY DEF Environments, Settings, Required, Tunables
  <2>2. k # "batch_offset_range"
    BY <2>1 DEF Tunables
  <2>3. Complaint(k, env[k]) = RequiredComplaint(env[k])
    BY <2>1 DEF Complaint, Required
  <2>4. Usable(env[k]) <=> env[k].kind \notin {"unset", "foreign", "blank"}
    BY <2>1 DEF RawValues, Usable
  <2> QED
    BY <2>1, <2>2, <2>3, <2>4, ComplaintMeaning DEF BadSettings, WrongButPassed, Missing, IsMalformed
<1>2. ASSUME NEW k \in Tunables PROVE k \in BadSettings(env) <=> k \in WrongButPassed
  <2>1. k \in Settings /\ env[k] \in RawValues /\ k \notin Required
    BY DEF Environments, Settings, Required, Tunables
  <2> DEFINE zero == env[k] = [kind |-> "digits", number |-> 0]
             kind == env[k].kind
             noNumber == kind \in {"blank", "text", "digits"} /\ ~ IsNumber(env[k])
  <2>2. k \in WrongButPassed <=> noNumber \/ (k = "batch_offset_range" /\ zero)
    <3>1. kind \in {"unset", "foreign", "blank", "text", "digits"}
      BY <2>1 DEF RawValues
    <3>2. zero => kind = "digits"
      OBVIOUS
    <3>3. IsMalformed(k) <=>
             \/ kind = "foreign"
             \/ kind # "unset" /\ ~ IsNumber(env[k])
             \/ k = "batch_offset_range" /\ zero
      BY <1>2 DEF IsMalformed
    <3>4. k \in WrongButPassed <=> IsMalformed(k) /\ kind # "foreign"
      BY <2>1 DEF WrongButPassed, Missing
    <3> HIDE DEF zero, kind
    <3> QED
      BY <3>1, <3>2, <3>3, <3>4 DEF noNumber
  <2>3. /\ NumberComplaint(env[k]) # "none" <=> noNumber
        /\ NonZeroComplaint(env[k]) # "none" <=> noNumber \/ zero
    BY <2>1, ComplaintMeaning
  <2> HIDE DEF zero, kind, noNumber
  <2>4. CASE k = "batch_offset_range"
    <3>1. Complaint(k, env[k]) = NonZeroComplaint(env[k])
      BY <2>1, <2>4 DEF Complaint
    <3> QED
      BY <2>1, <2>2, <2>3, <2>4, <3>1 DEF BadSettings
  <2>5. CASE k = "batch_max_idle_ms"
    <3>1. Complaint(k, env[k]) = NumberComplaint(env[k]) /\ k # "batch_offset_range"
      BY <2>1, <2>5 DEF Complaint
    <3> QED
      BY <2>1, <2>2, <2>3, <3>1 DEF BadSettings
  <2> QED
    BY <1>2, <2>4, <2>5 DEF Tunables
<1>3. "storage_emulator_host" \notin BadSettings(env) /\ "storage_emulator_host" \notin WrongButPassed
  BY DEF BadSettings, WrongButPassed, Complaint, Required, Settings, Missing, IsMalformed, Tunables
<1>4. BadSettings(env) \subseteq Settings /\ WrongButPassed \subseteq Settings
  BY DEF BadSettings, WrongButPassed
<1>5. Settings = Required \union Tunables \union {"storage_emulator_host"}
  BY DEF Settings, Tunables
<1> HIDE DEF Required, Settings
<1> QED
  BY <1>1, <1>2, <1>3, <1>4, <1>5

ReportedInv ==
    /\ env \in Environments
    /\ IsConfigured => Problems(env) = {}
    /\ stage = "bad_config" => reported = Problems(env) /\ reported # {}
    /\ stage # "bad_config" => reported = {}

LEMMA ReportedAlways == Spec => []ReportedInv
<1>1. Init => ReportedInv
  BY DataPathAssumption DEF Init, ReportedInv, IsConfigured
<1>2. ReportedInv /\ [Next]_vars => ReportedInv'
  <2> SUFFICES ASSUME ReportedInv, [Next]_vars PROVE ReportedInv'
    OBVIOUS
  <2>1. CASE StartFails
    BY <2>1 DEF StartFails, ReportedInv, IsConfigured
  <2>2. CASE Configure
    BY <2>2 DEF Configure, ReportedInv, IsConfigured
  <2>3. CASE BuildSink \/ Connect
    BY <2>3 DEF BuildSink, Connect, ReportedInv, IsConfigured
  <2>4. CASE Read \/ WritePart
    <3>1. stage = "running" /\ IsConfigured' /\ stage' # "bad_config"
      BY <2>4, AfterWriteFacts DEF Read, WritePart, IsConfigured
    <3>2. UNCHANGED <<env, reported>>
      BY <2>4 DEF Read, WritePart
    <3> QED
      BY <3>1, <3>2 DEF ReportedInv, IsConfigured
  <2>5. CASE UNCHANGED vars
    BY <2>5 DEF vars, ReportedInv, IsConfigured
  <2> QED
    BY <2>1, <2>2, <2>3, <2>4, <2>5 DEF Next
<1> QED
  BY <1>1, <1>2, PTL DEF Spec

(* Whatever is set: a process that exits for its configuration has named     *)
(* each setting that is missing or malformed, once, and no other, except     *)
(* those outside the contract that are not Unicode; one that goes on has     *)
(* nothing wrong but such a setting.                                         *)
THEOREM AllButForeignIsReportedAlways == Spec => []AllButForeignIsReported
<1>1. ReportedInv => AllButForeignIsReported
  <2> SUFFICES ASSUME ReportedInv PROVE AllButForeignIsReported
    OBVIOUS
  <2> DEFINE wrong == {k \in Settings : Missing(k) \/ IsMalformed(k)}
             passed == {k \in Settings \ Required : env[k].kind = "foreign"}
  <2>1. BadSettings(env) = wrong \ passed
    BY WrongIsBad DEF ReportedInv, WrongButPassed
  <2> HIDE DEF wrong, passed
  <2>2. {p.key : p \in Problems(env)} = BadSettings(env)
    <3>1. ASSUME NEW p \in Problems(env) PROVE p.key \in BadSettings(env)
      BY <3>1 DEF Problems
    <3>2. ASSUME NEW k \in BadSettings(env) PROVE \E p \in Problems(env) : p.key = k
      <4>1. [key |-> k, why |-> Complaint(k, env[k])] \in Problems(env)
        BY DEF Problems
      <4> QED
        BY <4>1
    <3> QED
      BY <3>1, <3>2
  <2>3. \A p, q \in Problems(env) : p.key = q.key => p = q
    BY DEF Problems
  <2>4. Problems(env) = {} <=> wrong \ passed = {}
    BY <2>1, <2>2
  <2>5. stage = "bad_config" => wrong \ passed # {} /\ {p.key : p \in reported} = wrong \ passed
    BY <2>1, <2>2, <2>4 DEF ReportedInv
  <2>6. stage \notin {"starting", "bad_config"} => wrong \subseteq passed /\ reported = {}
    BY <2>4 DEF ReportedInv, IsConfigured
  <2>7. \A p, q \in reported : p.key = q.key => p = q
    BY <2>3 DEF ReportedInv
  <2> QED
    BY <2>5, <2>6, <2>7 DEF AllButForeignIsReported, wrong, passed
<1> QED
  BY <1>1, ReportedAlways, PTL

-------------------------------------------------------------------------------
(* Cuts. *)

(* A set of naturals up to max has a largest element. *)
LEMMA LargestUpTo ==
    ASSUME NEW max \in Nat, NEW S \in SUBSET (0 .. max), S # {}
    PROVE  \E b \in S : \A d \in S : d <= b
<1> DEFINE T == {max - b : b \in S}
           Less == {pair \in Nat \X Nat : pair[1] < pair[2]}
<1>1. \A b \in S : b \in Nat /\ max - b \in Nat
  OBVIOUS
<1>2. T \subseteq Nat
  BY <1>1
<1>3. T # {}
  <2>1. PICK b \in S : TRUE
    OBVIOUS
  <2>2. max - b \in T
    BY <2>1
  <2> QED
    BY <2>2
<1>4. IsWellFoundedOn(Less, Nat)
  BY NatLessThanWellFounded DEF OpToRel
<1>5. \E x \in T : \A y \in T : ~ (<<y, x>> \in Less)
  <2> HIDE DEF Less, T
  <2> QED
    BY <1>2, <1>3, <1>4, WFMin
<1>6. PICK b \in S : \A y \in T : ~ (<<y, max - b>> \in Less)
  <2> HIDE DEF Less
  <2> QED
    BY <1>5
<1>7. ASSUME NEW d \in S PROVE d <= b
  <2>1. ~ (<<max - d, max - b>> \in Less)
    <3> HIDE DEF Less
    <3> QED
      BY <1>6
  <2>2. ~ (max - d < max - b)
    BY <2>1, <1>1
  <2> QED
    BY <2>2, <1>1
<1> QED
  BY <1>7

(* Going up one by one from 0 reaches max. *)
LEMMA InductionUpTo ==
    ASSUME NEW max \in Nat, NEW S \in SUBSET (0 .. max), 0 \in S,
           \A k \in S : k < max => k + 1 \in S
    PROVE  S = 0 .. max
<1>1. SUFFICES ASSUME (0 .. max) \ S # {} PROVE FALSE
  OBVIOUS
<1> DEFINE Missed == {max - k : k \in (0 .. max) \ S}
<1>2. Missed \in SUBSET (0 .. max) /\ Missed # {}
  BY <1>1
<1>3. PICK b \in Missed : \A d \in Missed : d <= b
  <2> HIDE DEF Missed
  <2> QED
    BY <1>2, LargestUpTo
<1>4. PICK k \in (0 .. max) \ S : b = max - k
  BY <1>3
<1>5. k # 0 /\ k - 1 \in 0 .. max
  BY <1>4
<1>6. k - 1 \in S
  <2>1. SUFFICES ASSUME k - 1 \notin S PROVE FALSE
    OBVIOUS
  <2>2. max - (k - 1) \in Missed
    BY <1>5, <2>1
  <2>3. max - (k - 1) <= max - k
    BY <1>3, <1>4, <2>2
  <2> QED
    BY <1>4, <2>3
<1>7. k - 1 < max /\ (k - 1) + 1 = k
  BY <1>4
<1> QED
  BY <1>4, <1>6, <1>7

(* The loop of truncate is a function: at each byte it stops or goes back.   *)
LEMMA WalkBackStep ==
    ASSUME NEW s, NEW max \in Nat
    PROVE  \A cut \in 0 .. max :
              WalkBack(s, max)[cut] =
                  IF cut > 0 /\ ~ IsBoundary(s, cut) THEN WalkBack(s, max)[cut - 1] ELSE cut
<1> DEFINE Walks(f, m) == f = [cut \in 0 .. m |->
                                  IF cut > 0 /\ ~ IsBoundary(s, cut) THEN f[cut - 1] ELSE cut]
           S == {m \in 0 .. max : \E f : Walks(f, m)}
<1>1. 0 \in S
  <2> DEFINE g == [cut \in 0 .. 0 |-> cut]
  <2>1. Walks(g, 0)
    OBVIOUS
  <2> HIDE DEF Walks, g
  <2> QED
    BY <2>1
<1>2. ASSUME NEW m \in S, m < max PROVE m + 1 \in S
  <2>1. PICK f : Walks(f, m)
    OBVIOUS
  <2> DEFINE g == [cut \in 0 .. (m + 1) |->
                     IF cut <= m THEN f[cut]
                     ELSE IF cut > 0 /\ ~ IsBoundary(s, cut) THEN f[cut - 1] ELSE cut]
  <2>2. \A cut \in 0 .. m : f[cut] = IF cut > 0 /\ ~ IsBoundary(s, cut) THEN f[cut - 1] ELSE cut
    BY <2>1
  <2>3. \A cut \in 0 .. (m + 1) :
           g[cut] = IF cut > 0 /\ ~ IsBoundary(s, cut) THEN g[cut - 1] ELSE cut
    BY <2>2
  <2>4. Walks(g, m + 1)
    BY <2>3
  <2>5. m + 1 \in 0 .. max
    BY <1>2
  <2> HIDE DEF Walks, g
  <2> QED
    BY <2>4, <2>5
<1>3. S = 0 .. max
  <2> HIDE DEF S
  <2>1. S \in SUBSET (0 .. max)
    BY DEF S
  <2> QED
    BY <1>1, <1>2, <2>1, InductionUpTo
<1>4. \E f : Walks(f, max)
  BY <1>3
<1>5. WalkBack(s, max) = CHOOSE f : Walks(f, max)
  BY DEF WalkBack
<1> HIDE DEF Walks
<1>6. Walks(WalkBack(s, max), max)
  BY <1>4, <1>5
<1> QED
  BY <1>6 DEF Walks

(* truncate ends at the end of a character, whatever the text: its loop     *)
(* cannot pass one, and goes no further than 0.                             *)
LEMMA CutIsBoundary ==
    ASSUME NEW s, NEW max \in Nat
    PROVE  IsBoundary(s, CutOf(s, max)) /\ CutOf(s, max) \in 0 .. max
<1> DEFINE w == WalkBack(s, max)
           S == {m \in 0 .. max : IsBoundary(s, w[m]) /\ w[m] \in 0 .. max}
<1>1. \A cut \in 0 .. max :
         w[cut] = IF cut > 0 /\ ~ IsBoundary(s, cut) THEN w[cut - 1] ELSE cut
  BY WalkBackStep
<1> HIDE DEF w
<1>2. 0 \in S
  BY <1>1 DEF IsBoundary
<1>3. ASSUME NEW m \in S, m < max PROVE m + 1 \in S
  <2>1. m + 1 \in 0 .. max /\ (m + 1) - 1 = m /\ m + 1 > 0
    BY <1>3
  <2>2. CASE IsBoundary(s, m + 1)
    <3>1. w[m + 1] = m + 1
      BY <1>1, <2>1, <2>2
    <3> QED
      BY <2>1, <2>2, <3>1
  <2>3. CASE ~ IsBoundary(s, m + 1)
    <3>1. w[m + 1] = w[m]
      BY <1>1, <2>1, <2>3
    <3> QED
      BY <2>1, <3>1
  <2> QED
    BY <2>2, <2>3
<1>4. max \in S
  <2> HIDE DEF S
  <2>1. S \in SUBSET (0 .. max)
    BY DEF S
  <2> QED
    BY <1>2, <1>3, <2>1, InductionUpTo
<1> QED
  BY <1>4 DEF CutOf, w

LEMMA ParseNeverPanics ==
    ASSUME NEW payload
    PROVE  ~ ParsePanics(payload)
  BY RecordsAssumption, CutIsBoundary DEF ParsePanics, TruncatePanics

-------------------------------------------------------------------------------
(* Rows. *)

NeverNull == {"kafka_topic", "kafka_partition", "kafka_offset", "ingested", "malformed"}

(* A record of either kind appends one cell to every builder, and never a    *)
(* null to a builder of a column that refuses them.                         *)
LEMMA CellsOfRecord ==
    ASSUME NEW r, NEW now
    PROVE  /\ DOMAIN Appended(r, now) = DOMAIN Builders
           /\ \A b \in NeverNull : Appended(r, now)[b] # << >>
<1> DEFINE own == IF r.body.kind = "parsed" THEN ParsedCells(r.body.fields)
                  ELSE MalformedCells(r.body.reason)
           all == ProvenanceCells(r, now)
<1>1. /\ DOMAIN own = {"malformed", "malformed_reason", "event_id", "gateway_id", "received_at",
                       "retry_count", "stream_name", "event_header", "payload"}
      /\ own["malformed"] # << >>
  <2>1. CASE r.body.kind = "parsed"
    BY <2>1 DEF ParsedCells
  <2>2. CASE r.body.kind # "parsed"
    BY <2>2 DEF MalformedCells
  <2> QED
    BY <2>1, <2>2
<1>2. /\ DOMAIN all = {"kafka_topic", "kafka_partition", "kafka_offset", "kafka_timestamp",
                       "ingested"}
      /\ \A b \in NeverNull \ {"malformed"} : all[b] # << >>
  <2>1. /\ all["kafka_topic"] = << r.meta.topic >> /\ all["kafka_partition"] = << r.meta.partition >>
        /\ all["kafka_offset"] = << OffsetToI64(r.meta.offset) >> /\ all["ingested"] = << now >>
    BY DEF ProvenanceCells
  <2>2. DOMAIN all = {"kafka_topic", "kafka_partition", "kafka_offset", "kafka_timestamp",
                      "ingested"}
    BY DEF ProvenanceCells
  <2>3. NeverNull \ {"malformed"} = {"kafka_topic", "kafka_partition", "kafka_offset", "ingested"}
    BY DEF NeverNull
  <2>4. \A x : << x >> # << >>
    OBVIOUS
  <2> HIDE DEF all
  <2> QED
    BY <2>1, <2>2, <2>3, <2>4
<1>3. Appended(r, now) = [b \in DOMAIN own \union DOMAIN all |->
                             IF b \in DOMAIN own THEN own[b] ELSE all[b]]
  BY DEF Appended
<1>4. DOMAIN Builders = {"malformed", "malformed_reason", "event_id", "gateway_id",
          "received_at", "retry_count", "stream_name", "event_header", "payload", "kafka_topic",
          "kafka_partition", "kafka_offset", "kafka_timestamp", "ingested"}
  BY DEF Builders
<1> HIDE DEF own, all
<1>5. DOMAIN Appended(r, now) = DOMAIN Builders
  BY <1>1, <1>2, <1>3, <1>4
<1>6. \A b \in NeverNull : Appended(r, now)[b] # << >>
  BY <1>1, <1>2, <1>3 DEF NeverNull
<1> QED
  BY <1>5, <1>6

(* Columns and Schema fit each other. *)
LEMMA ColumnsFit ==
    /\ Len(Columns) = Len(Schema)
    /\ \A j \in DOMAIN Schema :
          /\ Columns[j] \in DOMAIN Builders
          /\ Builders[Columns[j]] = Schema[j].type
          /\ ~ Schema[j].nullable => Columns[j] \in NeverNull
<1>1. Len(Columns) = 14 /\ Len(Schema) = 14 /\ DOMAIN Schema = 1 .. 14
  BY DEF Columns, Schema
<1>2. ASSUME NEW j \in 1 .. 14
      PROVE  /\ Columns[j] \in DOMAIN Builders
             /\ Builders[Columns[j]] = Schema[j].type
             /\ ~ Schema[j].nullable => Columns[j] \in NeverNull
  <2>1. \/ j = 1 \/ j = 2 \/ j = 3 \/ j = 4 \/ j = 5 \/ j = 6 \/ j = 7
        \/ j = 8 \/ j = 9 \/ j = 10 \/ j = 11 \/ j = 12 \/ j = 13 \/ j = 14
    OBVIOUS
  <2>2. CASE j \in 1 .. 7
    BY <2>1, <2>2 DEF Columns, Schema, Field, Builders
  <2>3. CASE j \in 8 .. 14
    BY <2>1, <2>3 DEF Columns, Schema, Field, Builders, NeverNull
  <2> QED
    BY <2>2, <2>3
<1> QED
  BY <1>1, <1>2

LEMMA EveryBatchIsValid ==
    ASSUME NEW records, NEW now
    PROVE  BatchIsValid(records, now)
  BY CellsOfRecord, ColumnsFit DEF BatchIsValid

-------------------------------------------------------------------------------
(* Reasons. *)

(* The last character of a beginning of a text. *)
LEMMA BytesOfPrefix ==
    ASSUME NEW s \in Seq(Nat), NEW k \in 0 .. Len(s)
    PROVE  Bytes(SubSeq(s, 1, k)) = IF k = 0 THEN 0 ELSE s[k]
<1>1. CASE k = 0
  <2>1. SubSeq(s, 1, k) = << >>
    BY <1>1
  <2> QED
    BY <1>1, <2>1 DEF Bytes
<1>2. CASE k # 0
  <2>1. Len(SubSeq(s, 1, k)) = k /\ SubSeq(s, 1, k)[k] = s[k]
    BY <1>2
  <2>2. SubSeq(s, 1, k) # << >>
    BY <1>2, <2>1
  <2> QED
    BY <1>2, <2>1, <2>2 DEF Bytes
<1> QED
  BY <1>1, <1>2

(* What truncate returns is never longer than the limit and an ellipsis. *)
LEMMA TruncatedFits ==
    ASSUME NEW s \in Seq(Nat), NEW max \in Nat
    PROVE  Bytes(Truncated(s, max)) \in Nat /\ Bytes(Truncated(s, max)) <= max + 3
<1>1. CASE Bytes(s) <= max
  <2>1. Bytes(s) \in Nat
    BY DEF Bytes
  <2> QED
    BY <1>1, <2>1 DEF Truncated
<1>2. CASE ~ (Bytes(s) <= max)
  <2> DEFINE c == CutOf(s, max)
             Ends(k) == Bytes(SubSeq(s, 1, k)) = c
             k0 == CHOOSE k \in 0 .. Len(s) : Ends(k)
  <2>1. IsBoundary(s, c) /\ c \in 0 .. max
    BY CutIsBoundary
  <2> HIDE DEF c
  <2>2. \E k \in 0 .. Len(s) : Ends(k)
    <3>1. CASE c = 0
      <4>1. 0 \in 0 .. Len(s)
        OBVIOUS
      <4> QED
        BY <3>1, <4>1, BytesOfPrefix
    <3>2. ASSUME NEW i \in DOMAIN s, s[i] = c PROVE Ends(i) /\ i \in 0 .. Len(s)
      BY <3>2, BytesOfPrefix
    <3> QED
      BY <2>1, <3>1, <3>2 DEF IsBoundary
  <2>3. k0 \in 0 .. Len(s)
    BY <2>2
  <2> DEFINE t == SubSeq(s, 1, k0)
  <2>4. UpTo(s, c) = t
    BY DEF UpTo
  <2> HIDE DEF k0
  <2>5. t \in Seq(Nat)
    BY <2>3
  <2>6. Truncated(s, max) = Append(t, c + 3)
    BY <1>2, <2>4 DEF Truncated, c
  <2> HIDE DEF t
  <2>7. c + 3 \in Nat
    BY <2>1
  <2>8. Append(t, c + 3) # << >> /\ Append(t, c + 3)[Len(Append(t, c + 3))] = c + 3
    BY <2>5, <2>7
  <2>9. Bytes(Truncated(s, max)) = c + 3
    BY <2>6, <2>8 DEF Bytes
  <2> QED
    BY <2>1, <2>7, <2>9
<1> QED
  BY <1>1, <1>2

-------------------------------------------------------------------------------
(* Rows. *)

LEMMA NamesDiffer ==
    ASSUME NEW i \in 1 .. 14, NEW j \in 1 .. 14, Schema[i].name = Schema[j].name
    PROVE  i = j
<1> DEFINE N == << "event_id", "gateway_id", "received_at", "retry_count", "stream_name",
       "event_header", "payload", "kafka_topic", "kafka_partition", "kafka_offset",
       "kafka_timestamp", "ingested_at", "malformed", "malformed_reason" >>
<1>1. \A k \in 1 .. 14 : Schema[k].name = N[k]
  <2> SUFFICES ASSUME NEW k \in 1 .. 14 PROVE Schema[k].name = N[k]
    OBVIOUS
  <2>1. \/ k = 1 \/ k = 2 \/ k = 3 \/ k = 4 \/ k = 5 \/ k = 6 \/ k = 7
        \/ k = 8 \/ k = 9 \/ k = 10 \/ k = 11 \/ k = 12 \/ k = 13 \/ k = 14
    OBVIOUS
  <2> QED
    BY <2>1 DEF Schema, Field
<1>2. \/ i = 1 \/ i = 2 \/ i = 3 \/ i = 4 \/ i = 5 \/ i = 6 \/ i = 7
      \/ i = 8 \/ i = 9 \/ i = 10 \/ i = 11 \/ i = 12 \/ i = 13 \/ i = 14
  OBVIOUS
<1>3. \/ j = 1 \/ j = 2 \/ j = 3 \/ j = 4 \/ j = 5 \/ j = 6 \/ j = 7
      \/ j = 8 \/ j = 9 \/ j = 10 \/ j = 11 \/ j = 12 \/ j = 13 \/ j = 14
  OBVIOUS
<1>4. N[i] = N[j]
  BY <1>1
<1> QED
  BY <1>2, <1>3, <1>4

RowColumns == EnvelopeColumns \union
              {"kafka_offset", "kafka_timestamp", "malformed", "malformed_reason"}

(* These columns of a row hold what its record appended to the builder of   *)
(* the same name.                                                           *)
LEMMA RowHoldsCells ==
    ASSUME NEW records, NEW now, NEW i \in DOMAIN records, NEW f \in RowColumns
    PROVE  RowsOf(records, now)[i][f] = Appended(records[i], now)[f]
<1>1. DOMAIN Schema = 1 .. 14
  BY DEF Schema
<1>2. \E j \in 1 .. 14 : Schema[j].name = f /\ Columns[j] = f
  <2>1. /\ Schema[1].name = "event_id" /\ Columns[1] = "event_id"
        /\ Schema[2].name = "gateway_id" /\ Columns[2] = "gateway_id"
        /\ Schema[3].name = "received_at" /\ Columns[3] = "received_at"
        /\ Schema[4].name = "retry_count" /\ Columns[4] = "retry_count"
        /\ Schema[5].name = "stream_name" /\ Columns[5] = "stream_name"
        /\ Schema[6].name = "event_header" /\ Columns[6] = "event_header"
        /\ Schema[7].name = "payload" /\ Columns[7] = "payload"
        /\ Schema[10].name = "kafka_offset" /\ Columns[10] = "kafka_offset"
        /\ Schema[11].name = "kafka_timestamp" /\ Columns[11] = "kafka_timestamp"
        /\ Schema[13].name = "malformed" /\ Columns[13] = "malformed"
        /\ Schema[14].name = "malformed_reason" /\ Columns[14] = "malformed_reason"
    BY DEF Schema, Field, Columns
  <2>2. \/ f \in {"event_id", "gateway_id", "received_at", "retry_count", "stream_name",
                  "event_header", "payload"}
        \/ f \in {"kafka_offset", "kafka_timestamp", "malformed", "malformed_reason"}
    BY DEF RowColumns, EnvelopeColumns
  <2>3. 1 \in 1 .. 14 /\ 2 \in 1 .. 14 /\ 3 \in 1 .. 14 /\ 4 \in 1 .. 14 /\ 5 \in 1 .. 14
        /\ 6 \in 1 .. 14 /\ 7 \in 1 .. 14 /\ 10 \in 1 .. 14 /\ 11 \in 1 .. 14 /\ 13 \in 1 .. 14
        /\ 14 \in 1 .. 14
    OBVIOUS
  <2> QED
    BY <2>1, <2>2, <2>3
<1>3. PICK j \in 1 .. 14 : Schema[j].name = f /\ Columns[j] = f
  BY <1>2
<1>4. IndexOf(f) = j
  <2>1. IndexOf(f) \in 1 .. 14 /\ Schema[IndexOf(f)].name = f
    BY <1>1, <1>3 DEF IndexOf
  <2> QED
    BY <1>3, <2>1, NamesDiffer
<1>5. f \in {Schema[k].name : k \in DOMAIN Schema}
  BY <1>1, <1>3
<1> QED
  BY <1>3, <1>4, <1>5 DEF RowsOf

LEMMA CellsByKind ==
    ASSUME NEW r, NEW now
    PROVE  /\ Appended(r, now)["kafka_offset"] = << OffsetToI64(r.meta.offset) >>
           /\ Appended(r, now)["kafka_timestamp"] = r.meta.timestamp
           /\ \A f \in EnvelopeColumns \union {"malformed", "malformed_reason"} :
                 Appended(r, now)[f] = IF r.body.kind = "parsed"
                                       THEN ParsedCells(r.body.fields)[f]
                                       ELSE MalformedCells(r.body.reason)[f]
<1> DEFINE own == IF r.body.kind = "parsed" THEN ParsedCells(r.body.fields)
                  ELSE MalformedCells(r.body.reason)
           all == ProvenanceCells(r, now)
<1>1. DOMAIN own = EnvelopeColumns \union {"malformed", "malformed_reason"}
  <2>1. CASE r.body.kind = "parsed"
    BY <2>1 DEF ParsedCells, EnvelopeColumns
  <2>2. CASE r.body.kind # "parsed"
    BY <2>2 DEF MalformedCells, EnvelopeColumns
  <2> QED
    BY <2>1, <2>2
<1>2. /\ "kafka_offset" \in DOMAIN all /\ all["kafka_offset"] = << OffsetToI64(r.meta.offset) >>
      /\ "kafka_timestamp" \in DOMAIN all /\ all["kafka_timestamp"] = r.meta.timestamp
  BY DEF ProvenanceCells
<1>3. Appended(r, now) = [b \in DOMAIN own \union DOMAIN all |->
                             IF b \in DOMAIN own THEN own[b] ELSE all[b]]
  BY DEF Appended
<1>4. "kafka_offset" \notin DOMAIN own /\ "kafka_timestamp" \notin DOMAIN own
  BY <1>1 DEF EnvelopeColumns
<1>5. \A f \in DOMAIN own :
         own[f] = IF r.body.kind = "parsed" THEN ParsedCells(r.body.fields)[f]
                  ELSE MalformedCells(r.body.reason)[f]
  OBVIOUS
<1> HIDE DEF own, all
<1> QED
  BY <1>1, <1>2, <1>3, <1>4, <1>5

LEMMA PayloadFacts ==
    ASSUME NEW p \in Payloads
    PROVE  /\ p.complaint \in Seq(Nat)
           /\ p.bytes \in BOOLEAN
           /\ p.length \in [Fields -> Nat]
           /\ DOMAIN p.fields \subseteq Fields
           /\ \A f \in DOMAIN p.fields : p.fields[f] \in Values
  BY DEF Payloads

LEMMA BodyOf ==
    ASSUME NEW msg, msg.payload \in Payloads, msg.offset \in U64
    PROVE  LET r == ToRecord(msg)
           IN  /\ r.meta.offset = msg.offset
               /\ r.meta.timestamp = msg.timestamp
               /\ IsReadable(msg.payload) =>
                     r.body = [kind |-> "parsed", fields |-> msg.payload.fields,
                               length |-> msg.payload.length]
               /\ ~ IsReadable(msg.payload) => /\ r.body.kind = "malformed"
                                               /\ Bytes(r.body.reason) \in Nat
                                               /\ Bytes(r.body.reason) <= MaxReason + 3
<1> DEFINE r == ToRecord(msg)
           p == msg.payload
<1>1. r.meta.offset = msg.offset /\ r.meta.timestamp = msg.timestamp
  BY DEF ToRecord, Parse
<1>2. IsReadable(p) =>
         r.body = [kind |-> "parsed", fields |-> p.fields, length |-> p.length]
  BY DEF ToRecord, Parse
<1>3. CASE ~ IsReadable(p) /\ p.bytes
  <2>1. r.body = Malformed(Truncated(p.complaint, MaxReason))
    BY <1>3 DEF ToRecord, Parse
  <2>2. /\ Bytes(Truncated(p.complaint, MaxReason)) \in Nat
        /\ Bytes(Truncated(p.complaint, MaxReason)) <= MaxReason + 3
    BY PayloadFacts, TruncatedFits, RecordsAssumption
  <2> QED
    BY <1>1, <1>3, <2>1, <2>2 DEF Malformed
<1>4. CASE ~ IsReadable(p) /\ ~ p.bytes
  <2>1. r.body = Malformed(TombstoneReason)
    BY <1>4 DEF ToRecord, Parse
  <2>2. Bytes(TombstoneReason) = MaxReason
    BY DEF Bytes, TombstoneReason
  <2> QED
    BY <1>1, <1>4, <2>1, <2>2, RecordsAssumption DEF Malformed
<1> QED
  BY <1>1, <1>2, <1>3, <1>4

(* A parsed record has each field in its own column. *)
LEMMA ParsedColumns ==
    ASSUME NEW p \in Payloads, IsReadable(p)
    PROVE  LET c == ParsedCells(p.fields)
           IN  /\ c["malformed"] = << FALSE >>
               /\ c["malformed_reason"] = << >>
               /\ \A f \in EnvelopeColumns :
                     c[f] # << >> => \/ f \in DOMAIN p.fields /\ c[f] = << p.fields[f] >>
                                     \/ f = "retry_count"
               /\ FromGateway(p) => \A f \in DOMAIN p.fields : c[f] = << p.fields[f] >>
<1> DEFINE e == p.fields
           c == ParsedCells(e)
<1>1. /\ c["malformed"] = << FALSE >> /\ c["malformed_reason"] = << >>
      /\ c["event_id"] = << e["event_id"] >> /\ c["gateway_id"] = << e["gateway_id"] >>
      /\ c["payload"] = << e["payload"] >>
      /\ c["received_at"] = IF e["received_at"] = "date" THEN << "date" >> ELSE << >>
      /\ c["retry_count"] = << IF "retry_count" \in DOMAIN e THEN e["retry_count"] ELSE "0" >>
      /\ c["stream_name"] = Optional(e, "stream_name")
      /\ c["event_header"] = Optional(e, "event_header")
  BY DEF ParsedCells
<1>2. {"event_id", "gateway_id", "received_at", "payload"} \subseteq DOMAIN e
  BY DEF IsReadable, IsEnvelope, Mandatory, Names
<1> HIDE DEF c
<1>3. ASSUME NEW f \in EnvelopeColumns, c[f] # << >>, f # "retry_count"
      PROVE  f \in DOMAIN e /\ c[f] = << e[f] >>
  BY <1>1, <1>2, <1>3 DEF EnvelopeColumns, Optional
<1>4. ASSUME FromGateway(p), NEW f \in DOMAIN e
      PROVE  c[f] = << e[f] >>
  <2>1. f \in Fields
    BY PayloadFacts
  <2>2. CASE f \in {"event_id", "gateway_id", "payload"}
    BY <1>1, <2>2
  <2>3. CASE f = "received_at"
    BY <1>1, <1>4, <2>3 DEF FromGateway
  <2>4. CASE f = "retry_count"
    BY <1>1, <1>4, <2>4 DEF FromGateway
  <2>5. CASE f \in {"stream_name", "event_header"}
    BY <1>1, <1>4, <2>5 DEF FromGateway, Optional
  <2> QED
    BY <2>1, <2>2, <2>3, <2>4, <2>5 DEF Fields, Mandatory, Names
<1> QED
  BY <1>1, <1>3, <1>4 DEF c

LEMMA GatewayIsReadable ==
    ASSUME NEW p \in Payloads, FromGateway(p)
    PROVE  IsReadable(p)
  BY DEF FromGateway, IsReadable, IsEnvelope, Names, Strings

LEMMA MalformedColumns ==
    ASSUME NEW reason
    PROVE  LET c == MalformedCells(reason)
           IN  /\ c["malformed"] = << TRUE >>
               /\ c["malformed_reason"] = << reason >>
               /\ \A f \in EnvelopeColumns : c[f] = << >>
<1> DEFINE c == MalformedCells(reason)
<1>1. /\ c["malformed"] = << TRUE >> /\ c["malformed_reason"] = << reason >>
      /\ c["event_id"] = << >> /\ c["gateway_id"] = << >> /\ c["received_at"] = << >>
      /\ c["retry_count"] = << >> /\ c["stream_name"] = << >> /\ c["event_header"] = << >>
      /\ c["payload"] = << >>
  BY DEF MalformedCells
<1> HIDE DEF c
<1>2. \A f \in EnvelopeColumns : c[f] = << >>
  BY <1>1 DEF EnvelopeColumns
<1> QED
  BY <1>1, <1>2 DEF c

LEMMA RowOfMessage ==
    ASSUME NEW msg, msg.payload \in Payloads, msg.offset \in U64, NEW now, NEW row,
           \A f \in RowColumns : row[f] = Appended(ToRecord(msg), now)[f]
    PROVE  IsRowOf(row, msg)
<1> DEFINE r == ToRecord(msg)
           p == msg.payload
<1> HIDE DEF r
<1>1. /\ r.meta.offset = msg.offset
      /\ r.meta.timestamp = msg.timestamp
      /\ IsReadable(p) =>
            r.body = [kind |-> "parsed", fields |-> p.fields, length |-> p.length]
      /\ ~ IsReadable(p) => r.body.kind = "malformed" /\ Bytes(r.body.reason) <= MaxReason + 3
  BY BodyOf DEF r
<1>2. /\ row["kafka_offset"] = << OffsetToI64(msg.offset) >>
      /\ row["kafka_timestamp"] = msg.timestamp
  <2>1. "kafka_offset" \in RowColumns /\ "kafka_timestamp" \in RowColumns
    BY DEF RowColumns
  <2>2. /\ row["kafka_offset"] = Appended(r, now)["kafka_offset"]
        /\ row["kafka_timestamp"] = Appended(r, now)["kafka_timestamp"]
    BY <2>1 DEF r
  <2> QED
    BY <1>1, <2>2, CellsByKind
<1>3. \A f \in EnvelopeColumns \union {"malformed", "malformed_reason"} :
         row[f] = IF r.body.kind = "parsed" THEN ParsedCells(r.body.fields)[f]
                  ELSE MalformedCells(r.body.reason)[f]
  <2>1. EnvelopeColumns \union {"malformed", "malformed_reason"} \subseteq RowColumns
    BY DEF RowColumns
  <2>2. \A f \in RowColumns : row[f] = Appended(r, now)[f]
    BY DEF r
  <2> QED
    BY <2>1, <2>2, CellsByKind
<1> DEFINE WhenParsed ==
          /\ row["malformed_reason"] = << >>
          /\ \A f \in EnvelopeColumns :
                row[f] # << >> => \/ f \in DOMAIN p.fields /\ row[f] = << p.fields[f] >>
                                  \/ f = "retry_count"
           WhenMalformed ==
          /\ row["malformed_reason"] # << >>
          /\ Bytes(row["malformed_reason"][1]) <= MaxReason + 3
          /\ \A f \in EnvelopeColumns : row[f] = << >>
           WhenFromGateway ==
          /\ row["malformed"] = << FALSE >>
          /\ \A f \in DOMAIN p.fields : row[f] = << p.fields[f] >>
           IsRow ==
          /\ row["malformed"] = << FALSE >> => WhenParsed
          /\ row["malformed"] = << TRUE >> => WhenMalformed
          /\ FromGateway(p) => WhenFromGateway
<1>4. ASSUME IsReadable(p) PROVE IsRow
  <2> DEFINE c == ParsedCells(p.fields)
  <2>1. r.body.kind = "parsed" /\ r.body.fields = p.fields
    BY <1>1, <1>4
  <2>2. \A f \in EnvelopeColumns \union {"malformed", "malformed_reason"} : row[f] = c[f]
    BY <1>3, <2>1
  <2>3. DOMAIN p.fields \subseteq EnvelopeColumns
    BY PayloadFacts DEF Fields, Mandatory, Names, EnvelopeColumns
  <2>4. /\ c["malformed"] = << FALSE >>
        /\ c["malformed_reason"] = << >>
        /\ \A f \in EnvelopeColumns :
              c[f] # << >> => \/ f \in DOMAIN p.fields /\ c[f] = << p.fields[f] >>
                              \/ f = "retry_count"
        /\ FromGateway(p) => \A f \in DOMAIN p.fields : c[f] = << p.fields[f] >>
    BY <1>4, ParsedColumns
  <2>5. << FALSE >> # << TRUE >>
    OBVIOUS
  <2> HIDE DEF c
  <2>6. row["malformed"] = << FALSE >> /\ row["malformed_reason"] = << >>
    BY <2>2, <2>4
  <2>7. \A f \in EnvelopeColumns :
           row[f] # << >> => \/ f \in DOMAIN p.fields /\ row[f] = << p.fields[f] >>
                             \/ f = "retry_count"
    BY <2>2, <2>4
  <2>8. FromGateway(p) => \A f \in DOMAIN p.fields : row[f] = << p.fields[f] >>
    BY <2>2, <2>3, <2>4
  <2>9. WhenParsed
    BY <2>6, <2>7
  <2>10. FromGateway(p) => WhenFromGateway
    BY <2>6, <2>8
  <2>11. row["malformed"] # << TRUE >>
    BY <2>5, <2>6
  <2> HIDE DEF WhenParsed, WhenMalformed, WhenFromGateway
  <2> QED
    BY <2>9, <2>10, <2>11
<1>5. ASSUME ~ IsReadable(p) PROVE IsRow
  <2> DEFINE c == MalformedCells(r.body.reason)
  <2>1. r.body.kind = "malformed" /\ Bytes(r.body.reason) <= MaxReason + 3
    BY <1>1, <1>5
  <2>2. \A f \in EnvelopeColumns \union {"malformed", "malformed_reason"} : row[f] = c[f]
    BY <1>3, <2>1
  <2>3. /\ c["malformed"] = << TRUE >>
        /\ c["malformed_reason"] = << r.body.reason >>
        /\ \A f \in EnvelopeColumns : c[f] = << >>
    BY MalformedColumns
  <2>4. ~ FromGateway(p)
    BY <1>5, GatewayIsReadable
  <2>5. << FALSE >> # << TRUE >>
    OBVIOUS
  <2>6. << r.body.reason >> # << >> /\ << r.body.reason >>[1] = r.body.reason
    OBVIOUS
  <2> HIDE DEF c
  <2>7. row["malformed"] = << TRUE >> /\ row["malformed_reason"] = << r.body.reason >>
    BY <2>2, <2>3
  <2>8. \A f \in EnvelopeColumns : row[f] = << >>
    BY <2>2, <2>3
  <2>9. WhenMalformed
    BY <2>1, <2>6, <2>7, <2>8
  <2>10. row["malformed"] # << FALSE >>
    BY <2>5, <2>7
  <2> HIDE DEF WhenParsed, WhenMalformed, WhenFromGateway
  <2> QED
    BY <2>4, <2>9, <2>10
<1>6. IsRow
  <2> HIDE DEF IsRow
  <2> QED
    BY <1>4, <1>5
<1>7. /\ row["kafka_offset"][1] \in Offsets
      /\ msg.offset \in Offsets => row["kafka_offset"][1] = msg.offset
  <2>1. row["kafka_offset"][1] = OffsetToI64(msg.offset)
    BY <1>2
  <2> QED
    BY <2>1, WordAssumption DEF OffsetToI64, Offsets, U64
<1> QED
  BY <1>2, <1>6, <1>7 DEF IsRowOf

-------------------------------------------------------------------------------
(* The records of a batch. *)

LEMMA MessageFacts ==
    ASSUME log \in MessageLogs, NEW o \in U64
    PROVE  Message(o).payload \in Payloads /\ Message(o).offset = o
<1> DEFINE Entries == [timestamp : Seq(Int), payload : Payloads]
<1>1. log \in Seq(Entries) /\ Len(log) > 0
  BY DataPathAssumption
<1>2. \A m \in Entries : m.payload \in Payloads
  OBVIOUS
<1> HIDE DEF Entries
<1>3. o \in Nat /\ Len(log) \in Nat
  BY <1>1, WordAssumption DEF U64
<1>4. o % Len(log) \in 0 .. (Len(log) - 1)
  BY <1>1, <1>3
<1>5. (o % Len(log)) + 1 \in DOMAIN log
  BY <1>1, <1>3, <1>4
<1>6. log[(o % Len(log)) + 1] \in Entries
  BY <1>1, <1>5
<1> QED
  BY <1>6, <1>2 DEF Message

Record(o) == ToRecord(Message(o))

LEMMA RecordFacts ==
    ASSUME log \in MessageLogs, NEW o \in U64
    PROVE  Record(o).meta.offset = o
<1> DEFINE msg == Message(o)
<1>1. msg.payload \in Payloads /\ msg.offset = o
  BY MessageFacts
<1> HIDE DEF msg
<1>2. ToRecord(msg).meta.offset = o
  BY <1>1, BodyOf
<1> QED
  BY <1>2 DEF Record, msg

(* Some records are those of the last offsets before o, all of one range. *)
LastBefore(records, o) ==
    /\ records \in Seq({Record(u) : u \in U64})
    /\ o - Len(records) >= 0
    /\ \A i \in DOMAIN records : records[i] = Record((o - Len(records)) + i - 1)
    /\ records # << >> => Contains(Containing(o - Len(records), n), o - 1)

(* The batch is the records of the last offsets read. *)
BatchInv ==
    /\ stage = "running" => log \in MessageLogs
    /\ stage # "running" => batch = << >>
    /\ LastBefore(batch, offset)

LEMMA NoneIsLast ==
    ASSUME NEW o \in U64
    PROVE  LastBefore(<< >>, o)
<1>1. Len(<< >>) = 0 /\ DOMAIN << >> = {} /\ << >> \in Seq({Record(u) : u \in U64})
  OBVIOUS
<1> QED
  BY <1>1, WordAssumption DEF LastBefore, U64

(* A range has no more records than offsets. *)
LEMMA LastFitTheRange ==
    ASSUME NEW o \in U64, NEW records, LastBefore(records, o), n \in Sizes
    PROVE  /\ Len(records) \in Nat /\ Len(records) <= n
           /\ \A i \in DOMAIN records : (o - Len(records)) + i - 1 \in U64
<1> DEFINE first == o - Len(records)
<1>1. Len(records) \in Nat /\ DOMAIN records = 1 .. Len(records) /\ first >= 0
  BY DEF LastBefore
<1>2. o \in Nat /\ n \in Nat \ {0} /\ first \in Nat /\ first \in U64
  BY <1>1, WordAssumption DEF U64, Sizes
<1>3. \A i \in DOMAIN records : first + i - 1 \in U64
  BY <1>1, <1>2, WordAssumption DEF U64
<1>4. CASE records = << >>
  <2>1. Len(records) = 0
    BY <1>4
  <2> QED
    BY <1>2, <1>3, <2>1
<1>5. CASE records # << >>
  <2> DEFINE r == Containing(first, n)
  <2>1. r \in BatchRanges /\ Contains(r, first)
    BY <1>2, ContainingHoldsOffset
  <2>2. Contains(r, o - 1)
    BY <1>5 DEF LastBefore
  <2>3. r.start \in Nat /\ r.end \in Nat
    BY <2>1, WordAssumption DEF BatchRanges, U64
  <2>4. Width(r) <= n
    <3>1. Width(r) = r.end - r.start + 1 /\ r.end - r.start + 1 \in Int
      BY <2>3 DEF Width
    <3> QED
      BY <1>2, <3>1, WidthFacts
  <2> HIDE DEF r
  <2>5. Len(records) <= n
    BY <1>1, <1>2, <2>1, <2>2, <2>3, <2>4 DEF Contains, Width
  <2> QED
    BY <1>1, <1>3, <2>5
<1> QED
  BY <1>4, <1>5

(* With the next message's record they are those before the next offset. *)
LEMMA JoinedAreLast ==
    ASSUME BatchInv, Started, stage = "running"
    PROVE  LastBefore(Joined(Record(offset)), offset + 1)
<1> DEFINE r == Record(offset)
           next == Joined(r)
           first == offset - Len(batch)
           Records0 == {Record(u) : u \in U64}
<1>1. log \in MessageLogs /\ offset \in U64 /\ offset \in Nat
  BY WordAssumption DEF BatchInv, Started, U64
<1>2. n \in Sizes
  BY SizeIsSet DEF IsConfigured
<1>3. r.meta.offset = offset
  BY <1>1, RecordFacts
<1>4. Contains(Containing(offset, n), offset)
  BY <1>1, <1>2, ContainingHoldsOffset
<1>5. r \in Records0
  BY <1>1
<1>6. /\ batch \in Seq(Records0) /\ first >= 0
      /\ \A i \in DOMAIN batch : batch[i] = Record(first + i - 1)
      /\ batch # << >> => Contains(Containing(first, n), offset - 1)
  BY DEF BatchInv, LastBefore
<1> HIDE DEF r, Records0
<1>7. Len(batch) \in Nat /\ first \in Nat
  BY <1>1, <1>6
<1>8. ASSUME InCurrentRange(offset) PROVE LastBefore(next, offset + 1)
  <2>1. next = Append(batch, r)
    BY <1>3, <1>8 DEF Joined
  <2>2. next \in Seq(Records0) /\ Len(next) = Len(batch) + 1
    BY <1>5, <1>6, <2>1
  <2>3. (offset + 1) - Len(next) = first
    BY <1>1, <1>7, <2>2
  <2>4. ASSUME NEW i \in DOMAIN next PROVE next[i] = Record(first + i - 1)
    <3>1. CASE i \in DOMAIN batch
      <4>1. next[i] = batch[i]
        BY <1>5, <1>6, <2>1, <3>1
      <4> QED
        BY <1>6, <3>1, <4>1
    <3>2. CASE i \notin DOMAIN batch
      <4>1. i = Len(batch) + 1
        BY <1>6, <1>7, <2>2, <3>2
      <4>2. next[i] = r
        BY <1>5, <1>6, <2>1, <4>1
      <4>3. first + i - 1 = offset
        BY <1>1, <1>7, <4>1
      <4> QED
        BY <4>2, <4>3 DEF r
    <3> QED
      BY <3>1, <3>2
  <2>5. Contains(Containing(first, n), offset)
    <3>1. CASE batch = << >>
      <4>1. first = offset
        BY <1>1, <3>1
      <4> QED
        BY <1>4, <4>1
    <3>2. CASE batch # << >>
      <4>1. 1 \in DOMAIN batch
        BY <1>6, <3>2
      <4>2. batch[1] = Record(first)
        BY <1>6, <1>7, <4>1
      <4>3. first \in U64
        BY <1>1, <1>7, WordAssumption DEF U64
      <4>4. batch[1].meta.offset = first
        BY <1>1, <4>2, <4>3, RecordFacts
      <4> QED
        BY <1>8, <3>2, <4>4 DEF InCurrentRange
    <3> QED
      BY <3>1, <3>2
  <2>6. (offset + 1) - 1 = offset
    BY <1>1
  <2> HIDE DEF next, first
  <2> QED
    BY <1>7, <2>2, <2>3, <2>4, <2>5, <2>6 DEF LastBefore, Records0
<1>9. ASSUME ~ InCurrentRange(offset) PROVE LastBefore(next, offset + 1)
  <2>1. next = << r >>
    BY <1>3, <1>9 DEF Joined
  <2>2. Len(next) = 1 /\ DOMAIN next = {1} /\ next[1] = r
    BY <2>1
  <2>3. next \in Seq(Records0)
    BY <1>5, <2>1
  <2>4. (offset + 1) - Len(next) = offset /\ (offset + 1) - 1 = offset
    BY <1>1, <2>2
  <2>5. \A i \in DOMAIN next : next[i] = Record(offset + i - 1)
    BY <1>1, <2>2 DEF r
  <2> HIDE DEF next
  <2> QED
    BY <1>1, <1>4, <2>3, <2>4, <2>5 DEF LastBefore, Records0
<1> QED
  BY <1>8, <1>9 DEF r

LEMMA BatchStep ==
    ASSUME BatchInv, Started, [Next]_vars
    PROVE  BatchInv'
<1>1. offset' \in U64
  BY StartedStep DEF Started
<1>2. ASSUME batch' = << >>, stage' = "running" => log' \in MessageLogs
      PROVE  BatchInv'
  <2>1. Len(batch') = 0 /\ DOMAIN batch' = {}
    BY <1>2
  <2>2. batch' \in Seq({Record(u) : u \in U64})'
    BY <1>2
  <2>3. offset' \in Nat
    BY <1>1, WordAssumption DEF U64
  <2>4. offset' - Len(batch') >= 0
    <3>1. \A x \in Nat, l \in Nat : l = 0 => x - l >= 0
      OBVIOUS
    <3>2. Len(batch') \in Nat
      BY <2>1
    <3> QED
      BY <2>1, <2>3, <3>1, <3>2
  <2>5. LastBefore(batch, offset)'
    BY <1>2, <2>1, <2>2, <2>4 DEF LastBefore
  <2> QED
    BY <1>2, <2>5 DEF BatchInv
<1>3. ASSUME UNCHANGED <<env, log>>, NEW records, NEW o, LastBefore(records, o),
             batch' = records, offset' = o, stage' = "running", stage = "running"
      PROVE  BatchInv'
  <2>1. (\A u : Record(u)' = Record(u)) /\ n' = n
    BY <1>3 DEF Record, Message, n, config
  <2>2. LastBefore(batch, offset)'
    BY <1>3, <2>1 DEF LastBefore
  <2> QED
    BY <1>3, <2>2 DEF BatchInv
<1>4. CASE StartFails \/ Configure
  BY <1>2, <1>4 DEF StartFails, Configure, BatchInv
<1>5. CASE BuildSink \/ Connect
  BY <1>2, <1>5 DEF BuildSink, Connect, BatchInv
<1>6. CASE Read
  <2>1. CASE stage' = "running"
    <3>1. batch' = Joined(Record(offset)) /\ offset' = offset + 1
      BY <1>6, <2>1 DEF Read, Record
    <3>2. stage = "running" /\ UNCHANGED <<env, log>>
      BY <1>6 DEF Read
    <3> QED
      BY <1>3, <2>1, <3>1, <3>2, JoinedAreLast
  <2>2. CASE stage' # "running"
    BY <1>2, <1>6, <2>2 DEF Read
  <2> QED
    BY <2>1, <2>2
<1>7. CASE WritePart
  <2>1. CASE stage' = "running"
    <3>1. batch' = batch /\ offset' = offset /\ stage = "running" /\ UNCHANGED <<env, log>>
      BY <1>7, <2>1 DEF WritePart
    <3> QED
      BY <1>3, <2>1, <3>1 DEF BatchInv
  <2>2. CASE stage' # "running"
    BY <1>2, <1>7, <2>2 DEF WritePart
  <2> QED
    BY <2>1, <2>2
<1>8. CASE UNCHANGED vars
  <2>1. CASE stage = "running"
    <3>1. batch' = batch /\ offset' = offset /\ stage' = stage /\ UNCHANGED <<env, log>>
      BY <1>8 DEF vars
    <3> QED
      BY <1>3, <2>1, <3>1 DEF BatchInv
  <2>2. CASE stage # "running"
    BY <1>2, <1>8, <2>2 DEF BatchInv, vars
  <2> QED
    BY <2>1, <2>2
<1> QED
  BY <1>4, <1>5, <1>6, <1>7, <1>8 DEF Next

LEMMA BatchInit ==
    ASSUME Init
    PROVE  BatchInv
<1>1. batch = << >> /\ offset \in U64 /\ stage = "starting"
  BY WordAssumption DEF Init, U64
<1> QED
  BY <1>1, NoneIsLast DEF BatchInv

LEMMA BatchAlways == Spec => [](BatchInv /\ Started)
<1>1. Init => BatchInv /\ Started
  BY BatchInit, StartedInit
<1>2. (BatchInv /\ Started) /\ [Next]_vars => (BatchInv /\ Started)'
  BY BatchStep, StartedStep
<1> QED
  BY <1>1, <1>2, PTL DEF Spec

(* Every offset of every batch has its row, at its place, with the fields    *)
(* that its message had.                                                    *)
THEOREM EveryOffsetHasItsRowAlways == Spec => []EveryOffsetHasItsRow
<1>1. BatchInv /\ Started => EveryOffsetHasItsRow
  <2> SUFFICES ASSUME BatchInv, Started, NEW rows \in {WriteBatch(batch, Now)} \ {<< >>}
               PROVE  /\ Len(rows[1]) = Len(batch)
                      /\ \A i \in DOMAIN batch :
                            IsRowOf(rows[1][i], Message(offset - Len(batch) + i - 1))
    BY DEF EveryOffsetHasItsRow
  <2>1. rows[1] = RowsOf(batch, Now)
    BY DEF WriteBatch
  <2>2. Len(batch) \in Nat /\ DOMAIN batch = 1 .. Len(batch)
    BY DEF BatchInv, LastBefore
  <2>3. Len(RowsOf(batch, Now)) = Len(batch)
    BY <2>2 DEF RowsOf
  <2>4. ASSUME NEW i \in DOMAIN batch
        PROVE  IsRowOf(RowsOf(batch, Now)[i], Message(offset - Len(batch) + i - 1))
    <3> DEFINE o == (offset - Len(batch)) + i - 1
               msg == Message(o)
               row == RowsOf(batch, Now)[i]
    <3>1. stage = "running"
      BY <2>2 DEF BatchInv
    <3>2. log \in MessageLogs /\ n \in Sizes
      BY <3>1, SizeIsSet DEF BatchInv, IsConfigured
    <3>3. o \in U64
      BY <3>2, LastFitTheRange DEF BatchInv, Started
    <3> HIDE DEF o
    <3>4. msg.payload \in Payloads /\ msg.offset \in U64
      BY <3>2, <3>3, MessageFacts
    <3>5. batch[i] = ToRecord(msg)
      BY DEF BatchInv, LastBefore, Record, o
    <3>6. \A f \in RowColumns : row[f] = Appended(ToRecord(msg), Now)[f]
      BY <3>5, RowHoldsCells
    <3> HIDE DEF msg, row
    <3>7. IsRowOf(row, msg)
      BY <3>4, <3>6, RowOfMessage
    <3> QED
      BY <3>7 DEF msg, row, o
  <2> QED
    BY <2>1, <2>3, <2>4
<1> QED
  BY <1>1, BatchAlways, PTL

-------------------------------------------------------------------------------
(* The texts of a batch. *)

(* The bytes of a column are added up one record after the other. *)
LEMMA ColumnBytesStep ==
    ASSUME NEW records, Len(records) \in Nat, NEW b
    PROVE  \A i \in 0 .. Len(records) :
              ColumnBytes(records, b)[i] =
                  IF i = 0 THEN 0 ELSE ColumnBytes(records, b)[i - 1] + TextBytes(records[i], b)
<1> DEFINE Adds(f, m) == f = [i \in 0 .. m |->
                          IF i = 0 THEN 0 ELSE f[i - 1] + TextBytes(records[i], b)]
           S == {m \in 0 .. Len(records) : \E f : Adds(f, m)}
<1>1. 0 \in S
  <2> DEFINE g == [i \in 0 .. 0 |-> 0]
  <2>1. Adds(g, 0)
    OBVIOUS
  <2> HIDE DEF Adds, g
  <2> QED
    BY <2>1
<1>2. ASSUME NEW m \in S, m < Len(records) PROVE m + 1 \in S
  <2>1. PICK f : Adds(f, m)
    OBVIOUS
  <2> DEFINE g == [i \in 0 .. (m + 1) |->
                     IF i <= m THEN f[i]
                     ELSE IF i = 0 THEN 0 ELSE f[i - 1] + TextBytes(records[i], b)]
  <2>2. \A i \in 0 .. m : f[i] = IF i = 0 THEN 0 ELSE f[i - 1] + TextBytes(records[i], b)
    BY <2>1
  <2>3. \A i \in 0 .. (m + 1) :
           g[i] = IF i = 0 THEN 0 ELSE g[i - 1] + TextBytes(records[i], b)
    BY <2>2
  <2>4. Adds(g, m + 1)
    BY <2>3
  <2>5. m + 1 \in 0 .. Len(records)
    BY <1>2
  <2> HIDE DEF Adds, g
  <2> QED
    BY <2>4, <2>5
<1>3. S = 0 .. Len(records)
  <2> HIDE DEF S
  <2>1. S \in SUBSET (0 .. Len(records))
    BY DEF S
  <2> QED
    BY <1>1, <1>2, <2>1, InductionUpTo
<1>4. \E f : Adds(f, Len(records))
  BY <1>3
<1>5. ColumnBytes(records, b) = CHOOSE f : Adds(f, Len(records))
  BY DEF ColumnBytes
<1> HIDE DEF Adds
<1>6. Adds(ColumnBytes(records, b), Len(records))
  BY <1>4, <1>5
<1> QED
  BY <1>6 DEF Adds

(* No column is longer than its records times the longest of its texts. *)
LEMMA ColumnBytesBound ==
    ASSUME NEW records, Len(records) \in Nat, NEW b, NEW longest \in Nat,
           \A i \in 1 .. Len(records) :
              TextBytes(records[i], b) \in Nat /\ TextBytes(records[i], b) <= longest
    PROVE  /\ ColumnBytes(records, b)[Len(records)] \in Nat
           /\ ColumnBytes(records, b)[Len(records)] <= Len(records) * longest
<1> DEFINE c == ColumnBytes(records, b)
           S == {m \in 0 .. Len(records) : c[m] \in Nat /\ c[m] <= m * longest}
<1>1. \A i \in 0 .. Len(records) : c[i] = IF i = 0 THEN 0 ELSE c[i - 1] + TextBytes(records[i], b)
  BY ColumnBytesStep
<1> HIDE DEF c
<1>2. 0 \in S
  <2>1. c[0] = 0 /\ 0 * longest = 0
    BY <1>1
  <2> QED
    BY <2>1
<1>3. ASSUME NEW m \in S, m < Len(records) PROVE m + 1 \in S
  <2>1. m + 1 \in 1 .. Len(records) /\ (m + 1) - 1 = m /\ m \in Nat
    BY <1>3
  <2>2. c[m + 1] = c[m] + TextBytes(records[m + 1], b)
    BY <1>1, <2>1
  <2>3. /\ TextBytes(records[m + 1], b) \in Nat /\ TextBytes(records[m + 1], b) <= longest
        /\ c[m] \in Nat /\ c[m] <= m * longest
    BY <2>1
  <2>4. (m + 1) * longest = m * longest + longest /\ m * longest \in Nat
    BY <2>1
  <2> QED
    BY <2>1, <2>2, <2>3, <2>4
<1>4. Len(records) \in S
  <2> HIDE DEF S
  <2>1. S \in SUBSET (0 .. Len(records))
    BY DEF S
  <2> QED
    BY <1>2, <1>3, <2>1, InductionUpTo
<1> QED
  BY <1>4 DEF c

(* n texts of at most MaxText \div n bytes fit. *)
LEMMA SharesFit ==
    ASSUME NEW k \in Nat, NEW size \in Nat \ {0}, k <= size
    PROVE  MaxText \div size \in Nat /\ k * (MaxText \div size) <= MaxText
<1> DEFINE share == MaxText \div size
<1>1. share \in Nat /\ share * size <= MaxText
  BY RecordsAssumption, DivBounds
<1> HIDE DEF share
<1>2. PICK d \in Nat : size = k + d
  BY size - k \in Nat, size = k + (size - k)
<1>3. share * size = k * share + d * share
  BY <1>1, <1>2
<1>4. d * share \in Nat /\ k * share \in Nat
  BY <1>1
<1> QED
  BY <1>1, <1>3, <1>4, RecordsAssumption DEF share

(* What a message's record adds to a text column. *)
LEMMA TextBytesFacts ==
    ASSUME log \in MessageLogs, NEW o \in U64, NEW b \in TextColumns
    PROVE  TextBytes(Record(o), b) \in Nat
<1> DEFINE msg == Message(o)
           r == ToRecord(msg)
<1>1. msg.payload \in Payloads /\ msg.offset = o
  BY MessageFacts
<1> HIDE DEF msg
<1>2. /\ IsReadable(msg.payload) =>
            r.body = [kind |-> "parsed", fields |-> msg.payload.fields,
                      length |-> msg.payload.length]
      /\ ~ IsReadable(msg.payload) => r.body.kind = "malformed" /\ Bytes(r.body.reason) \in Nat
  BY <1>1, BodyOf
<1>3. msg.payload.length \in [Fields -> Nat]
  BY <1>1, PayloadFacts
<1>4. TopicBytes \in Nat
  BY RecordsAssumption
<1> HIDE DEF r
<1>5. TextBytes(r, b) \in Nat
  <2>1. CASE IsReadable(msg.payload)
    <3>1. r.body.kind = "parsed" /\ r.body.length \in [Fields -> Nat]
      BY <1>2, <1>3, <2>1
    <3> QED
      BY <1>4, <3>1 DEF TextBytes, Fields, Mandatory, Names
  <2>2. CASE ~ IsReadable(msg.payload)
    BY <1>2, <1>4, <2>2 DEF TextBytes, Fields, Mandatory, Names
  <2> QED
    BY <2>1, <2>2
<1> QED
  BY <1>5 DEF r, msg, Record

(* A batch whose texts do not fit has a message with a long text. *)
LEMMA OverflowNeedsLongTexts ==
    ASSUME log \in MessageLogs, n \in Sizes, NEW o \in U64, NEW records,
           LastBefore(records, o), ShortTexts
    PROVE  TextsFit(records)
<1>1. n \in Nat \ {0}
  BY WordAssumption DEF Sizes
<1>2. /\ Len(records) \in Nat /\ Len(records) <= n
      /\ \A i \in DOMAIN records : (o - Len(records)) + i - 1 \in U64
  BY LastFitTheRange
<1>3. DOMAIN records = 1 .. Len(records)
  BY DEF LastBefore
<1>4. MaxText \div n \in Nat /\ Len(records) * (MaxText \div n) <= MaxText
  BY <1>1, <1>2, SharesFit
<1>5. SUFFICES ASSUME NEW b \in TextColumns
               PROVE  ColumnBytes(records, b)[Len(records)] <= MaxText
  BY DEF TextsFit
<1>6. ASSUME NEW i \in 1 .. Len(records)
      PROVE  TextBytes(records[i], b) \in Nat /\ TextBytes(records[i], b) <= MaxText \div n
  <2> DEFINE u == (o - Len(records)) + i - 1
  <2>1. u \in U64 /\ records[i] = Record(u)
    BY <1>2, <1>3 DEF LastBefore
  <2> HIDE DEF u
  <2>2. TextBytes(Record(u), b) \in Nat
    BY <2>1, TextBytesFacts
  <2>3. TextBytes(Record(u), b) <= MaxText \div n
    BY <2>1 DEF ShortTexts, Record
  <2> QED
    BY <2>1, <2>2, <2>3
<1> DEFINE total == ColumnBytes(records, b)[Len(records)]
           share == MaxText \div n
           all == Len(records) * share
<1>7. total \in Nat /\ total <= all
  BY <1>2, <1>4, <1>6, ColumnBytesBound
<1>8. all \in Nat
  BY <1>2, <1>4
<1> HIDE DEF total, all
<1> QED
  BY <1>4, <1>7, <1>8, RecordsAssumption DEF total, all

(* What has stopped a process. *)
StoppedInv ==
    /\ stage \notin {"parse_panic", "batch_refused"}
    /\ stage = "text_overflow" => ~ ShortTexts

LEMMA StoppedStep ==
    ASSUME StoppedInv, BatchInv, Started, [Next]_vars
    PROVE  StoppedInv'
<1>1. ASSUME UNCHANGED <<env, log>> PROVE ShortTexts' = ShortTexts
  BY <1>1 DEF ShortTexts, Message, n, config
<1>2. ASSUME NEW o \in U64, NEW records, LastBefore(records, o), stage = "running",
             stage' \in AfterWrite(records), UNCHANGED <<env, log>>
      PROVE  StoppedInv'
  <2>1. log \in MessageLogs /\ n \in Sizes
    BY <1>2, SizeIsSet DEF BatchInv, IsConfigured
  <2>2. stage' # "batch_refused" /\ stage' # "parse_panic"
    BY <1>2, AfterWriteFacts, EveryBatchIsValid
  <2>3. stage' = "text_overflow" => ~ ShortTexts
    BY <1>2, <2>1, AfterWriteFacts, OverflowNeedsLongTexts
  <2> QED
    BY <1>1, <1>2, <2>2, <2>3 DEF StoppedInv
<1>3. CASE StartFails \/ Configure \/ BuildSink \/ Connect
  BY <1>3 DEF StartFails, Configure, BuildSink, Connect, StoppedInv
<1>4. CASE Read
  <2>1. stage = "running" /\ UNCHANGED <<env, log>> /\ offset < MaxU64
    BY <1>4 DEF Read
  <2>2. \/ stage' = "running"
        \/ stage' \in AfterWrite(Joined(Record(offset)))
    BY <1>4, ParseNeverPanics DEF Read, Record
  <2>3. CASE stage' = "running"
    BY <2>3 DEF StoppedInv
  <2>4. CASE stage' \in AfterWrite(Joined(Record(offset)))
    <3>1. offset + 1 \in U64
      BY <2>1, WordAssumption DEF Started, U64
    <3>2. LastBefore(Joined(Record(offset)), offset + 1)
      BY <2>1, JoinedAreLast
    <3> QED
      BY <1>2, <2>1, <2>4, <3>1, <3>2
  <2> QED
    BY <2>2, <2>3, <2>4
<1>5. CASE WritePart
  <2>1. /\ stage = "running" /\ UNCHANGED <<env, log>> /\ stage' \in AfterWrite(batch)
        /\ offset \in U64 /\ LastBefore(batch, offset)
    BY <1>5 DEF WritePart, Started, BatchInv
  <2> QED
    BY <1>2, <2>1
<1>6. CASE UNCHANGED vars
  <2>1. stage' = stage /\ ShortTexts' = ShortTexts
    BY <1>1, <1>6 DEF vars
  <2> QED
    BY <2>1 DEF StoppedInv
<1> QED
  BY <1>3, <1>4, <1>5, <1>6 DEF Next

(* For every log: no complaint is cut inside a character and no batch is     *)
(* refused, and while each text is within its share of a column no write     *)
(* panics; so among the messages only a long one can stop the process.       *)
THEOREM OnlyLongTextsStopTheProcessAlways == Spec => []OnlyLongTextsStopTheProcess
<1>1. Init => StoppedInv
  BY DEF Init, StoppedInv
<1>2. StoppedInv /\ (BatchInv /\ Started) /\ [Next]_vars => StoppedInv'
  BY StoppedStep
<1>3. Spec => []StoppedInv
  BY <1>1, <1>2, BatchAlways, PTL DEF Spec
<1>4. StoppedInv => OnlyLongTextsStopTheProcess
  BY DEF StoppedInv, OnlyLongTextsStopTheProcess
<1> QED
  BY <1>3, <1>4, PTL

-------------------------------------------------------------------------------
(* Types. *)

LEMMA ComplaintIsOne ==
    ASSUME NEW k \in Settings, NEW v, Complaint(k, v) # "none"
    PROVE  Complaint(k, v) \in Complaints
<1>1. /\ RequiredComplaint(v) \in Complaints \union {"none"}
      /\ NumberComplaint(v) \in Complaints \union {"none"}
      /\ NonZeroComplaint(v) \in Complaints \union {"none"}
  BY DEF RequiredComplaint, NumberComplaint, NonZeroComplaint, Complaints
<1>2. k \in Required \union {"batch_offset_range", "batch_max_idle_ms", "storage_emulator_host"}
  BY DEF Settings
<1>3. \/ Complaint(k, v) = RequiredComplaint(v) \/ Complaint(k, v) = NonZeroComplaint(v)
      \/ Complaint(k, v) = NumberComplaint(v) \/ Complaint(k, v) = "none"
  BY <1>2 DEF Complaint, Required
<1> QED
  BY <1>1, <1>3

LEMMA RangeIsNat ==
    ASSUME NEW e
    PROVE  Loaded(e).range \in Nat
<1>1. DefaultRange \in Nat
  BY ConfigAssumption, WordAssumption DEF Sizes
<1>2. Number(e["batch_offset_range"], DefaultRange) \in Nat
  BY <1>1, WordAssumption DEF Number, IsNumber, U64
<1> QED
  BY <1>1, <1>2 DEF Loaded, NonZero

(* The type invariant, and that a batch is no longer than its range. *)
THEOREM TypeCorrect == Spec => []TypeOK
<1>1. BatchInv /\ Started /\ ReportedInv /\ stage \in Stages => TypeOK
  <2> SUFFICES ASSUME BatchInv, Started, ReportedInv, stage \in Stages PROVE TypeOK
    OBVIOUS
  <2>1. stage = "running" => Len(log) > 0
    BY DataPathAssumption DEF BatchInv
  <2>2. Problems(env) \subseteq [key : Settings, why : Complaints]
    BY ComplaintIsOne DEF Problems, BadSettings
  <2>3. reported \subseteq [key : Settings, why : Complaints]
    BY <2>2 DEF ReportedInv
  <2>4. Len(batch) <= n
    <3>1. CASE batch = << >>
      <4>1. Len(batch) = 0 /\ n \in Nat
        BY <3>1, RangeIsNat DEF n, config
      <4> QED
        BY <4>1
    <3>2. CASE batch # << >>
      <4>1. stage = "running"
        BY <3>2 DEF BatchInv
      <4>2. n \in Sizes
        BY <4>1, SizeIsSet DEF IsConfigured
      <4> QED
        BY <4>2, LastFitTheRange DEF BatchInv, Started
    <3> QED
      BY <3>1, <3>2
  <2> QED
    BY <2>1, <2>3, <2>4 DEF TypeOK, Started
<1>2. Init => stage \in Stages
  BY DEF Init, Stages
<1>3. stage \in Stages /\ [Next]_vars => (stage \in Stages)'
  <2> SUFFICES ASSUME stage \in Stages, [Next]_vars PROVE (stage \in Stages)'
    OBVIOUS
  <2>1. CASE StartFails \/ Configure \/ BuildSink \/ Connect
    BY <2>1 DEF StartFails, Configure, BuildSink, Connect, Stages
  <2>2. CASE Read \/ WritePart
    BY <2>2, AfterWriteFacts DEF Read, WritePart, Stages
  <2>3. CASE UNCHANGED vars
    BY <2>3 DEF vars, Stages
  <2> QED
    BY <2>1, <2>2, <2>3 DEF Next
<1>4. Spec => [](stage \in Stages)
  BY <1>2, <1>3, PTL DEF Spec
<1> QED
  BY <1>1, <1>4, BatchAlways, ReportedAlways, PTL
===============================================================================
