-------------------------- MODULE BootstrapProofs ---------------------------
(***************************************************************************)
(* The bootstrap script, for any reporters, any contracts on the chain      *)
(* before, any number of runs and faults, and transactions that land in any  *)
(* order: the position of a run vouches for what the chain has.              *)
(***************************************************************************)
EXTENDS Bootstrap, SequenceTheorems, TLAPS

Samples == {SampleTokens[i] : i \in 1..Len(SampleTokens)}
SettingNames == {Settings[i] : i \in 1..Len(Settings)}
Reporters == {oracle_reporters[i] : i \in 1..Len(oracle_reporters)}
Vital == {"con_vaults", "con_psm"}
DefaultArgs == [skip_sample_tokens |-> FALSE, start_governance_handoff |-> TRUE]

\* The steps of a run as a set.
Planned(args) ==
    {Deploy(c) : c \in Governed \cup (IF args.skip_sample_tokens THEN {} ELSE Samples)}
       \cup {Controller(c) : c \in Vital}
       \cup {AssetConfig}
       \cup {Reporter(a) : a \in Reporters}
       \cup (IF operator \in Reporters THEN {Price} ELSE {})
       \cup {Setting(n) : n \in SettingNames}
       \cup {VaultType}
       \cup (IF args.start_governance_handoff THEN {Handoff(c) : c \in Governed} ELSE {})

\* Every step any run can have.
Known == Planned(DefaultArgs)

-----------------------------------------------------------------------------
(* The steps of a run. *)

LEMMA Names ==
  /\ Governed = {"con_stable_token", "con_oracle", "con_savings", "con_vaults", "con_psm"}
  /\ Samples = {"con_collateral_token", "con_reserve_token"}
  /\ SettingNames = {"savings_contract", "vaults_treasury", "psm_treasury", "psm_fees"}
  /\ Contracts = Governed \cup Samples \cup ChainContracts
<1>1. Len(Protocol) = 5 /\ Len(SampleTokens) = 2 /\ Len(Settings) = 4
  BY DEF Protocol, SampleTokens, Settings
<1>2. 1..5 = {1, 2, 3, 4, 5} /\ 1..2 = {1, 2} /\ 1..4 = {1, 2, 3, 4}
  OBVIOUS
<1> QED
  BY <1>1, <1>2 DEF Governed, Samples, SettingNames, Contracts, Protocol, SampleTokens, Settings

LEMMA MappedSequence ==
  ASSUME NEW S, NEW n \in Nat, NEW f \in [1..n -> S]
  PROVE  f \in Seq(S) /\ Len(f) = n /\ Range(f) = {f[i] : i \in 1..n}
<1>1. f \in Seq(S)
  BY SeqDef
<1>2. Len(f) = n
  BY <1>1, LenProperties
<1> QED
  BY <1>1, <1>2, RangeEquality

LEMMA Joined ==
  ASSUME NEW S, NEW s \in Seq(S), NEW t \in Seq(S)
  PROVE  s \o t \in Seq(S) /\ Range(s \o t) = Range(s) \cup Range(t)
  BY ConcatProperties, RangeConcatenation

LEMMA One ==
  ASSUME NEW S, NEW x \in S
  PROVE  <<x>> \in Seq(S) /\ Range(<<x>>) = {x}
<1>1. <<x>> \in Seq(S) /\ Len(<<x>>) = 1
  OBVIOUS
<1>2. Range(<<x>>) = {<<x>>[i] : i \in 1..1}
  BY <1>1, RangeEquality
<1> QED
  BY <1>1, <1>2

LEMMA None ==
  ASSUME NEW S
  PROVE  <<>> \in Seq(S) /\ Range(<<>>) = {}
<1>1. <<>> \in Seq(S) /\ Len(<<>>) = 0
  BY EmptySeq
<1>2. Range(<<>>) = {<<>>[i] : i \in 1..0}
  BY <1>1, RangeEquality
<1> QED
  BY <1>1, <1>2

LEMMA NameSequences ==
  /\ Protocol \in Seq(Governed) /\ Range(Protocol) = Governed
  /\ SampleTokens \in Seq(Samples) /\ Range(SampleTokens) = Samples
  /\ Settings \in Seq(SettingNames) /\ Range(Settings) = SettingNames
  /\ oracle_reporters \in Seq(Reporters) /\ Range(oracle_reporters) = Reporters
<1>1. Protocol \in Seq(Governed) /\ SampleTokens \in Seq(Samples) /\ Settings \in Seq(SettingNames)
  <2>1. Protocol \in Seq(Governed)
    BY Names DEF Protocol
  <2>2. SampleTokens \in Seq(Samples)
    BY Names DEF SampleTokens
  <2>3. Settings \in Seq(SettingNames)
    BY Names DEF Settings
  <2> QED
    BY <2>1, <2>2, <2>3
<1>2. oracle_reporters \in Seq(Reporters)
  BY BootstrapAssumption DEF Reporters
<1>3. /\ Range(Protocol) = Governed
      /\ Range(SampleTokens) = Samples
      /\ Range(Settings) = SettingNames
      /\ Range(oracle_reporters) = Reporters
  BY ONLY <1>1, <1>2, RangeEquality DEF Governed, Samples, SettingNames, Reporters
<1> QED
  BY <1>1, <1>2, <1>3, SeqOfRange

\* What the plan deploys, and that it deploys one contract after the other.
LEMMA PlanNames ==
  ASSUME NEW skip \in BOOLEAN
  PROVE  LET names == <<Protocol[1]>> \o (IF skip THEN <<>> ELSE SampleTokens) \o Tail(Protocol)
         IN  /\ names \in Seq(Governed \cup Samples)
             /\ Range(names) = Governed \cup (IF skip THEN {} ELSE Samples)
<1> DEFINE first == <<Protocol[1]>>
           second == IF skip THEN <<>> ELSE SampleTokens
           third == Tail(Protocol)
           S == Governed \cup Samples
<1>1. first \in Seq(S) /\ Range(first) = {Protocol[1]}
  <2>1. Protocol[1] \in S
    BY NameSequences, Names DEF Protocol
  <2> QED
    BY <2>1, One
<1>2. second \in Seq(S) /\ Range(second) = IF skip THEN {} ELSE Samples
  <2>1. CASE skip
    BY <2>1, None
  <2>2. CASE ~skip
    BY <2>2, NameSequences, SeqMonotonic
  <2> QED
    BY <2>1, <2>2
<1>3. third \in Seq(S) /\ Range(third) = {Protocol[2], Protocol[3], Protocol[4], Protocol[5]}
  <2>1. Protocol \in Seq(S) /\ Len(Protocol) = 5 /\ Protocol # <<>>
    BY NameSequences, SeqMonotonic DEF Protocol
  <2> HIDE DEF S
  <2>2. third \in Seq(S)
    BY <2>1, HeadTailProperties
  <2>3. Len(third) = Len(Protocol) - 1 /\ \A i \in 1..Len(third) : third[i] = Protocol[i + 1]
    BY <2>1, HeadTailProperties
  <2> HIDE DEF third
  <2>4. Range(third) = {third[i] : i \in 1..4} /\ \A i \in 1..4 : third[i] = Protocol[i + 1]
    BY <2>1, <2>2, <2>3, RangeEquality
  <2>5. 1..4 = {1, 2, 3, 4}
    OBVIOUS
  <2>6. Range(third) = {third[1], third[2], third[3], third[4]}
    BY <2>4, <2>5
  <2>7. third[1] = Protocol[2] /\ third[2] = Protocol[3] /\ third[3] = Protocol[4]
        /\ third[4] = Protocol[5]
    BY <2>4
  <2> QED
    BY ONLY <2>2, <2>6, <2>7
<1>4. Governed = {Protocol[1], Protocol[2], Protocol[3], Protocol[4], Protocol[5]}
  BY Names DEF Protocol
<1> HIDE DEF first, second, third, S
<1>5. first \o second \in Seq(S) /\ Range(first \o second) = Range(first) \cup Range(second)
  BY ONLY <1>1, <1>2, Joined
<1> DEFINE both == first \o second
<1> HIDE DEF both
<1>6. both \o third \in Seq(S) /\ Range(both \o third) = Range(both) \cup Range(third)
  <2>1. both \in Seq(S)
    BY <1>5 DEF both
  <2> QED
    BY <2>1, <1>3, Joined
<1>7. Range(both \o third) = Governed \cup (IF skip THEN {} ELSE Samples)
  BY <1>1, <1>2, <1>3, <1>4, <1>5, <1>6 DEF both
<1> QED
  BY <1>6, <1>7 DEF both, first, second, third, S

\* A sequence with one step for each name.
LEMMA OneForEach ==
  ASSUME NEW N, NEW names \in Seq(N), NEW f \in [1..Len(names) -> Known]
  PROVE  /\ f \in Seq(Known)
         /\ \A x : x \in Range(f) <=> \E i \in 1..Len(names) : x = f[i]
         /\ \A c : c \in Range(names) <=> \E i \in 1..Len(names) : c = names[i]
<1> DEFINE n == Len(names)
<1>1. n \in Nat /\ \A c : c \in Range(names) <=> \E i \in 1..n : c = names[i]
  BY LenProperties, RangeEquality
<1> HIDE DEF n
<1>2. f \in [1..n -> Known]
  BY DEF n
<1>3. f \in Seq(Known) /\ Range(f) = {f[i] : i \in 1..n}
  BY ONLY <1>1, <1>2, MappedSequence
<1>4. \A x : x \in Range(f) <=> \E i \in 1..n : x = f[i]
  BY <1>3
<1> QED
  BY <1>1, <1>3, <1>4 DEF n

LEMMA KnownSteps ==
  /\ \A c \in Governed \cup Samples : Deploy(c) \in Known
  /\ \A c \in Vital : Controller(c) \in Known
  /\ \A a \in Reporters : Reporter(a) \in Known
  /\ \A n \in SettingNames : Setting(n) \in Known
  /\ \A c \in Governed : Handoff(c) \in Known
  /\ AssetConfig \in Known /\ VaultType \in Known
  /\ operator \in Reporters => Price \in Known
  BY DEF Known, Planned, DefaultArgs

LEMMA PlanSteps ==
  ASSUME NEW skip \in BOOLEAN
  PROVE  /\ _build_deployment_plan(skip) \in Seq(Known)
         /\ Range(_build_deployment_plan(skip)) =
               {Deploy(c) : c \in Governed \cup (IF skip THEN {} ELSE Samples)}
<1> DEFINE names == <<Protocol[1]>> \o (IF skip THEN <<>> ELSE SampleTokens) \o Tail(Protocol)
           f == [i \in 1..Len(names) |-> Deploy(names[i])]
<1>1. /\ names \in Seq(Governed \cup Samples)
      /\ Range(names) = Governed \cup (IF skip THEN {} ELSE Samples)
  BY PlanNames
<1>2. _build_deployment_plan(skip) = f
  BY DEF _build_deployment_plan, Each
<1> HIDE DEF names
<1>3. \A i \in 1..Len(names) : names[i] \in Governed \cup Samples
  BY <1>1, LenProperties
<1>4. f \in [1..Len(names) -> Known]
  BY <1>3, KnownSteps
<1>5. \A i \in 1..Len(names) : f[i] = Deploy(names[i])
  OBVIOUS
<1> HIDE DEF f
<1>6. /\ f \in Seq(Known)
      /\ \A x : x \in Range(f) <=> \E i \in 1..Len(names) : x = f[i]
      /\ \A c : c \in Range(names) <=> \E i \in 1..Len(names) : c = names[i]
  BY <1>1, <1>4, OneForEach
<1>7. Range(f) = {Deploy(c) : c \in Range(names)}
  BY <1>5, <1>6
<1> QED
  BY <1>1, <1>2, <1>6, <1>7

LEMMA ControllerSteps ==
  LET f == Each(<<"con_vaults", "con_psm">>, Controller)
  IN  f \in Seq(Known) /\ Range(f) = {Controller(c) : c \in Vital}
<1> DEFINE names == <<"con_vaults", "con_psm">>
           f == [i \in 1..Len(names) |-> Controller(names[i])]
<1>1. names \in Seq(Vital) /\ Range(names) = Vital
  <2>1. names \in Seq(Vital) /\ Len(names) = 2 /\ names[1] = "con_vaults" /\ names[2] = "con_psm"
    BY DEF Vital
  <2>2. Range(names) = {names[i] : i \in 1..2}
    BY <2>1, RangeEquality
  <2>3. 1..2 = {1, 2}
    OBVIOUS
  <2> QED
    BY <2>1, <2>2, <2>3 DEF Vital
<1> HIDE DEF names
<1>2. Each(names, Controller) = f
  BY DEF Each
<1>3. \A i \in 1..Len(names) : names[i] \in Vital
  BY <1>1, LenProperties
<1>4. f \in [1..Len(names) -> Known]
  BY <1>3, KnownSteps
<1>5. \A i \in 1..Len(names) : f[i] = Controller(names[i])
  OBVIOUS
<1> HIDE DEF f
<1>6. /\ f \in Seq(Known)
      /\ \A x : x \in Range(f) <=> \E i \in 1..Len(names) : x = f[i]
      /\ \A c : c \in Range(names) <=> \E i \in 1..Len(names) : c = names[i]
  BY <1>1, <1>4, OneForEach
<1>7. Range(f) = {Controller(c) : c \in Range(names)}
  BY <1>5, <1>6
<1> QED
  BY <1>1, <1>2, <1>6, <1>7 DEF names

LEMMA SettingSteps ==
  Each(Settings, Setting) \in Seq(Known)
  /\ Range(Each(Settings, Setting)) = {Setting(n) : n \in SettingNames}
<1> DEFINE f == [i \in 1..Len(Settings) |-> Setting(Settings[i])]
<1>2. Each(Settings, Setting) = f
  BY DEF Each
<1>3. \A i \in 1..Len(Settings) : Settings[i] \in SettingNames
  BY NameSequences, LenProperties
<1>4. f \in [1..Len(Settings) -> Known]
  BY <1>3, KnownSteps
<1>5. \A i \in 1..Len(Settings) : f[i] = Setting(Settings[i])
  OBVIOUS
<1> HIDE DEF f
<1>6. /\ f \in Seq(Known)
      /\ \A x : x \in Range(f) <=> \E i \in 1..Len(Settings) : x = f[i]
      /\ \A c : c \in Range(Settings) <=> \E i \in 1..Len(Settings) : c = Settings[i]
  BY <1>4, NameSequences, OneForEach
<1>7. Range(f) = {Setting(n) : n \in Range(Settings)}
  BY <1>5, <1>6
<1> QED
  BY <1>2, <1>6, <1>7, NameSequences

LEMMA HandoffSteps ==
  Each(Protocol, Handoff) \in Seq(Known)
  /\ Range(Each(Protocol, Handoff)) = {Handoff(c) : c \in Governed}
<1> DEFINE f == [i \in 1..Len(Protocol) |-> Handoff(Protocol[i])]
<1>2. Each(Protocol, Handoff) = f
  BY DEF Each
<1>3. \A i \in 1..Len(Protocol) : Protocol[i] \in Governed
  BY NameSequences, LenProperties
<1>4. f \in [1..Len(Protocol) -> Known]
  BY <1>3, KnownSteps
<1>5. \A i \in 1..Len(Protocol) : f[i] = Handoff(Protocol[i])
  OBVIOUS
<1> HIDE DEF f
<1>6. /\ f \in Seq(Known)
      /\ \A x : x \in Range(f) <=> \E i \in 1..Len(Protocol) : x = f[i]
      /\ \A c : c \in Range(Protocol) <=> \E i \in 1..Len(Protocol) : c = Protocol[i]
  BY <1>4, NameSequences, OneForEach
<1>7. Range(f) = {Handoff(c) : c \in Range(Protocol)}
  BY <1>5, <1>6
<1> QED
  BY <1>2, <1>6, <1>7, NameSequences

LEMMA OracleSteps ==
  /\ _ensure_oracle_state \in Seq(Known)
  /\ Range(_ensure_oracle_state) =
        {AssetConfig} \cup {Reporter(a) : a \in Reporters}
           \cup (IF operator \in Reporters THEN {Price} ELSE {})
<1> DEFINE f == [i \in 1..Len(oracle_reporters) |-> Reporter(oracle_reporters[i])]
           last == IF \E i \in 1..Len(oracle_reporters) : oracle_reporters[i] = operator
                   THEN <<Price>> ELSE <<>>
<1>1. Each(oracle_reporters, Reporter) = f
  BY DEF Each
<1>2. \A i \in 1..Len(oracle_reporters) : oracle_reporters[i] \in Reporters
  BY DEF Reporters
<1>3. f \in [1..Len(oracle_reporters) -> Known]
  BY <1>2, KnownSteps
<1>4. \A i \in 1..Len(oracle_reporters) : f[i] = Reporter(oracle_reporters[i])
  OBVIOUS
<1> HIDE DEF f
<1>5. /\ f \in Seq(Known)
      /\ \A x : x \in Range(f) <=> \E i \in 1..Len(oracle_reporters) : x = f[i]
      /\ \A c : c \in Range(oracle_reporters) <=> \E i \in 1..Len(oracle_reporters) : c = oracle_reporters[i]
  BY <1>3, NameSequences, OneForEach
<1>6. Range(f) = {Reporter(a) : a \in Reporters}
  <2>1. Range(f) = {Reporter(a) : a \in Range(oracle_reporters)}
    BY <1>4, <1>5
  <2> QED
    BY <2>1, NameSequences
<1>7. last \in Seq(Known) /\ Range(last) = IF operator \in Reporters THEN {Price} ELSE {}
  <2>1. operator \in Reporters <=> \E i \in 1..Len(oracle_reporters) : oracle_reporters[i] = operator
    BY DEF Reporters
  <2>2. CASE operator \in Reporters
    <3>1. Price \in Known /\ last = <<Price>>
      BY <2>1, <2>2, KnownSteps
    <3> QED
      BY <3>1, <2>2, One
  <2>3. CASE operator \notin Reporters
    BY <2>1, <2>3, None
  <2> QED
    BY <2>2, <2>3
<1> DEFINE first == <<AssetConfig>>
<1>8. first \in Seq(Known) /\ Range(first) = {AssetConfig}
  BY KnownSteps, One
<1> HIDE DEF first, last
<1> DEFINE both == first \o f
<1>9. both \in Seq(Known) /\ Range(both) = {AssetConfig} \cup Range(f)
  <2>1. f \in Seq(Known)
    BY <1>5
  <2>2. both \in Seq(Known) /\ Range(both) = Range(first) \cup Range(f)
    BY ONLY <1>8, <2>1, Joined
  <2> QED
    BY <1>8, <2>2
<1> HIDE DEF both
<1>10. both \o last \in Seq(Known) /\ Range(both \o last) = Range(both) \cup Range(last)
  BY <1>7, <1>9, Joined
<1>11. _ensure_oracle_state = both \o last
  BY <1>1 DEF _ensure_oracle_state, both, first, last
<1> QED
  BY <1>6, <1>7, <1>9, <1>10, <1>11

\* The arguments of a run.
LEMMA ArgumentFields ==
  /\ DefaultArgs \in Arguments
  /\ \A args \in Arguments :
        args.skip_sample_tokens \in BOOLEAN /\ args.start_governance_handoff \in BOOLEAN
  BY DEF DefaultArgs, Arguments

\* A run goes through the planned steps, of which there is at least one.
LEMMA StepsArePlanned ==
  ASSUME NEW args \in Arguments
  PROVE  /\ Steps(args) \in Seq(Known)
         /\ Range(Steps(args)) = Planned(args)
         /\ Len(Steps(args)) \in Nat /\ Len(Steps(args)) >= 1
<1> DEFINE s1 == _build_deployment_plan(args.skip_sample_tokens)
           s2 == Each(<<"con_vaults", "con_psm">>, Controller)
           s3 == _ensure_oracle_state
           s4 == Each(Settings, Setting)
           s5 == <<VaultType>>
           s6 == IF args.start_governance_handoff THEN Each(Protocol, Handoff) ELSE <<>>
<1>1. s1 \in Seq(Known)
      /\ Range(s1) = {Deploy(c) : c \in Governed \cup (IF args.skip_sample_tokens THEN {} ELSE Samples)}
  BY ArgumentFields, PlanSteps
<1>2. s2 \in Seq(Known) /\ Range(s2) = {Controller(c) : c \in Vital}
  BY ControllerSteps
<1>3. s3 \in Seq(Known)
      /\ Range(s3) = {AssetConfig} \cup {Reporter(a) : a \in Reporters}
                        \cup (IF operator \in Reporters THEN {Price} ELSE {})
  BY OracleSteps
<1>4. s4 \in Seq(Known) /\ Range(s4) = {Setting(n) : n \in SettingNames}
  BY SettingSteps
<1>5. s5 \in Seq(Known) /\ Range(s5) = {VaultType}
  BY KnownSteps, One
<1>6. s6 \in Seq(Known)
      /\ Range(s6) = IF args.start_governance_handoff THEN {Handoff(c) : c \in Governed} ELSE {}
  <2>1. CASE args.start_governance_handoff
    BY <2>1, HandoffSteps
  <2>2. CASE ~args.start_governance_handoff
    BY <2>2, None
  <2> QED
    BY <2>1, <2>2
<1> HIDE DEF s1, s2, s3, s4, s5, s6
<1> DEFINE t2 == s1 \o s2
<1>12. t2 \in Seq(Known) /\ Range(t2) = Range(s1) \cup Range(s2)
  BY ONLY <1>1, <1>2, Joined
<1> HIDE DEF t2
<1> DEFINE t3 == t2 \o s3
<1>13. t3 \in Seq(Known) /\ Range(t3) = Range(t2) \cup Range(s3)
  BY ONLY <1>3, <1>12, Joined
<1> HIDE DEF t3
<1> DEFINE t4 == t3 \o s4
<1>14. t4 \in Seq(Known) /\ Range(t4) = Range(t3) \cup Range(s4)
  BY ONLY <1>4, <1>13, Joined
<1> HIDE DEF t4
<1> DEFINE t5 == t4 \o s5
<1>15. t5 \in Seq(Known) /\ Range(t5) = Range(t4) \cup Range(s5)
  BY ONLY <1>5, <1>14, Joined
<1> HIDE DEF t5
<1> DEFINE t6 == t5 \o s6
<1>16. t6 \in Seq(Known) /\ Range(t6) = Range(t5) \cup Range(s6)
  BY ONLY <1>6, <1>15, Joined
<1> HIDE DEF t6
<1>7. Steps(args) = t6
  BY DEF Steps, s1, s2, s3, s4, s5, s6, t2, t3, t4, t5, t6
<1>8. Range(t6) = Planned(args)
  BY <1>1, <1>2, <1>3, <1>4, <1>5, <1>6, <1>12, <1>13, <1>14, <1>15, <1>16 DEF Planned
<1>9. Len(t6) \in Nat /\ Len(t6) >= 1
  <2>1. VaultType \in Range(t6)
    BY <1>5, <1>15, <1>16
  <2>2. Len(t6) \in Nat /\ DOMAIN t6 = 1..Len(t6)
    BY <1>16, LenProperties
  <2>3. \E i \in 1..Len(t6) : t6[i] = VaultType
    BY <2>1, <2>2 DEF Range
  <2> QED
    BY <2>2, <2>3
<1> QED
  BY <1>7, <1>8, <1>9, <1>16

\* What StepsSent, of the type invariant, is.
LEMMA SentIsKnown == StepsSent = Known
<1>1. Steps(DefaultArgs) \in Seq(Known) /\ Range(Steps(DefaultArgs)) = Known
  BY ArgumentFields, StepsArePlanned DEF Known
<1>2. StepsSent = {Steps(DefaultArgs)[i] : i \in 1..Len(Steps(DefaultArgs))}
  BY DEF StepsSent, DefaultArgs
<1> QED
  BY <1>1, <1>2, RangeEquality

\* The step a run is at is one of those of its plan.
LEMMA StepAt ==
  ASSUME NEW args \in Arguments, NEW i \in 1..Len(Steps(args))
  PROVE  Steps(args)[i] \in Planned(args) /\ Steps(args)[i] \in Known
<1>1. Steps(args) \in Seq(Known) /\ Range(Steps(args)) = Planned(args)
  BY StepsArePlanned
<1>2. Range(Steps(args)) = {Steps(args)[j] : j \in 1..Len(Steps(args))}
  BY <1>1, RangeEquality
<1> QED
  BY <1>1, <1>2, ElementOfSeq

LEMMA PlannedIsReached ==
  ASSUME NEW args \in Arguments, NEW s \in Planned(args)
  PROVE  \E i \in 1..Len(Steps(args)) : Steps(args)[i] = s
<1>1. Steps(args) \in Seq(Known) /\ Range(Steps(args)) = Planned(args)
  BY StepsArePlanned
<1>2. Range(Steps(args)) = {Steps(args)[j] : j \in 1..Len(Steps(args))}
  BY <1>1, RangeEquality
<1> QED
  BY <1>1, <1>2

\* A known step is of one of eight kinds.
LEMMA Kinds ==
  ASSUME NEW s \in Known
  PROVE  \/ \E c \in Governed \cup Samples : s = Deploy(c)
         \/ \E c \in Vital : s = Controller(c)
         \/ s = AssetConfig
         \/ \E a \in Reporters : s = Reporter(a)
         \/ s = Price /\ operator \in Reporters
         \/ \E n \in SettingNames : s = Setting(n)
         \/ s = VaultType
         \/ \E c \in Governed : s = Handoff(c)
  BY DEF Known, Planned, DefaultArgs

-----------------------------------------------------------------------------
(* The inductive invariant. *)

\* What a step is for, as it can be read off the chain.
Done(s) ==
    /\ s.do = "deploy_contract" => s.to \in deployed
    /\ s.do = "set_controller" => s.to \in controllers
    /\ s.do = "set_reporter" => s.to \in reporters
    /\ s.do = "set_asset_config" => asset_configured
    /\ s.do = "submit_price" => priced
    /\ s.do = "set" => routing[s.to] # "nobody"
    /\ s.do = "add_vault_type" => vault_type_count >= 1
    /\ s.do = "start_governance_transfer" => governance \in {governor[s.to], proposed_governor[s.to]}

\* The chain: a contract has a governor once it is deployed, only the operator
\* offers one, and the oracle has no reporters before it is there.
ChainOK ==
    /\ deployed \subseteq Contracts
    /\ governor \in [Contracts -> {operator, governance, NoOne}]
    /\ proposed_governor \in [Contracts -> {governance, NoOne}]
    /\ \A c \in Governed : governor[c] # NoOne <=> c \in deployed
    /\ \A c \in Governed : proposed_governor[c] = governance => governor[c] = operator
    /\ controllers \subseteq Vital
    /\ asset_configured \in BOOLEAN
    /\ priced \in BOOLEAN
    /\ priced => operator \in reporters
    /\ reporters # {} => "con_oracle" \in deployed
    /\ routing \in [SettingNames -> {"nobody", "script", "operator", "governance"}]
    /\ vault_type_count \in Nat

ScriptOK ==
    /\ phase \in {"idle", "looking", "waiting"}
    /\ flags \in Arguments
    /\ step \in 1..Len(Steps(flags))
    /\ outcome \in {"none", "completed", "failed"}
    /\ faults \in Nat
    /\ DOMAIN late \subseteq Known
    /\ late \in [DOMAIN late -> Nat \ {0}]

\* Behind the position of a run, everything is done.
Behind == phase # "idle" => \A i \in 1..(step - 1) : Done(Steps(flags)[i])

\* A vault type is sent by a run that saw none, and only once by a run; what may
\* still land was given up on, each at the price of a fault.
Pending == IF VaultType \in DOMAIN late THEN late[VaultType] ELSE 0
Sending == IF phase = "waiting" /\ Current = VaultType THEN 1 ELSE 0
Counted ==
    /\ Pending <= faults
    /\ vault_type_count + Pending + Sending <= 1 + faults

Inv == ChainOK /\ ScriptOK /\ Behind /\ Counted

-----------------------------------------------------------------------------
(* The chain. *)

\* What no step of anybody does: undo a step of the script, or change for the
\* script what governance has accepted.
DoneKept == \A d \in Known : Done(d) => Done(d)'

OutOfReach ==
    \A c \in Governed :
       governor[c] = governance =>
          /\ governor'[c] = governance
          /\ c = "con_stable_token" => controllers' = controllers
          /\ c = "con_oracle" => <<asset_configured, reporters>>' = <<asset_configured, reporters>>
          /\ c = "con_vaults" => vault_type_count' = vault_type_count
          /\ \A setting \in DOMAIN routing :
                OwnerOf(setting) = c /\ routing'[setting] # routing[setting] =>
                    routing'[setting] = "governance"

ChainStep == ChainOK' /\ DoneKept /\ OutOfReach

LEMMA Distinct == operator # governance /\ operator # NoOne /\ governance # NoOne
  BY BootstrapAssumption

LEMMA OwnerFacts ==
  \A n \in SettingNames : OwnerOf(n) \in Vital /\ OwnerOf(n) \in Governed
  BY Names DEF OwnerOf, Vital

\* What Done says of each kind of step.
LEMMA DoneOf ==
  /\ \A c : Done(Deploy(c)) <=> c \in deployed
  /\ \A c : Done(Controller(c)) <=> c \in controllers
  /\ \A a : Done(Reporter(a)) <=> a \in reporters
  /\ Done(AssetConfig) <=> asset_configured
  /\ Done(Price) <=> priced
  /\ \A n : Done(Setting(n)) <=> routing[n] # "nobody"
  /\ Done(VaultType) <=> vault_type_count >= 1
  /\ \A c : Done(Handoff(c)) <=> governance \in {governor[c], proposed_governor[c]}
  BY DEF Done, Deploy, Controller, Reporter, AssetConfig, Price, Setting, VaultType, Handoff

LEMMA DoneOfNext ==
  /\ \A c : Done(Deploy(c))' <=> c \in deployed'
  /\ \A c : Done(Controller(c))' <=> c \in controllers'
  /\ \A a : Done(Reporter(a))' <=> a \in reporters'
  /\ Done(AssetConfig)' <=> asset_configured'
  /\ Done(Price)' <=> priced'
  /\ \A n : Done(Setting(n))' <=> routing'[n] # "nobody"
  /\ Done(VaultType)' <=> vault_type_count' >= 1
  /\ \A c : Done(Handoff(c))' <=> governance \in {governor'[c], proposed_governor'[c]}
  BY DEF Done, Deploy, Controller, Reporter, AssetConfig, Price, Setting, VaultType, Handoff

\* Nothing is undone when the sets grow and nothing that was offered is taken back.
LEMMA DoneGrows ==
  ASSUME deployed \subseteq deployed', controllers \subseteq controllers',
         reporters \subseteq reporters',
         asset_configured => asset_configured', priced => priced',
         \A n \in SettingNames : routing[n] # "nobody" => routing'[n] # "nobody",
         vault_type_count >= 1 => vault_type_count' >= 1,
         \A c \in Governed : governance \in {governor[c], proposed_governor[c]} =>
                                governance \in {governor'[c], proposed_governor'[c]}
  PROVE  DoneKept
<1> SUFFICES ASSUME NEW d \in Known, Done(d)
             PROVE  Done(d)'
  BY DEF DoneKept
<1>1. CASE \E c \in Governed \cup Samples : d = Deploy(c)
  BY <1>1, DoneOf, DoneOfNext
<1>2. CASE \E c \in Vital : d = Controller(c)
  BY <1>2, DoneOf, DoneOfNext
<1>3. CASE d = AssetConfig
  BY <1>3, DoneOf, DoneOfNext
<1>4. CASE \E a \in Reporters : d = Reporter(a)
  BY <1>4, DoneOf, DoneOfNext
<1>5. CASE d = Price
  BY <1>5, DoneOf, DoneOfNext
<1>6. CASE \E n \in SettingNames : d = Setting(n)
  <2>1. PICK n \in SettingNames : d = Setting(n)
    BY <1>6
  <2> QED
    BY <2>1, DoneOf, DoneOfNext
<1>7. CASE d = VaultType
  BY <1>7, DoneOf, DoneOfNext
<1>8. CASE \E c \in Governed : d = Handoff(c)
  <2>1. PICK c \in Governed : d = Handoff(c)
    BY <1>8
  <2> QED
    BY <2>1, DoneOf, DoneOfNext
<1> QED
  BY <1>1, <1>2, <1>3, <1>4, <1>5, <1>6, <1>7, <1>8, Kinds

LEMMA DeployTakes ==
  ASSUME ChainOK, NEW c \in Governed \cup Samples,
         ~Reverts(Deploy(c)), Takes(Deploy(c))
  PROVE  ChainStep /\ Done(Deploy(c))'
<1> DEFINE s == Deploy(c)
<1>1. s.do = "deploy_contract" /\ s.to = c
  BY DEF Deploy
<1>2. c \notin deployed
  BY <1>1 DEF Reverts
<1>3. s = Deploy("con_oracle") <=> c = "con_oracle"
  BY <1>1 DEF Deploy
<1> HIDE DEF s
<1>4. /\ deployed' = deployed \cup {c}
      /\ governor' = [governor EXCEPT ![c] = operator]
      /\ proposed_governor' = proposed_governor
      /\ controllers' = controllers
      /\ asset_configured' = asset_configured
      /\ reporters' = IF c = "con_oracle" THEN {operator} ELSE reporters
      /\ priced' = priced
      /\ routing' = [n \in DOMAIN routing |->
                        IF c = OwnerOf(n) THEN "script" ELSE routing[n]]
      /\ vault_type_count' = vault_type_count
  <2>1. Takes(s)
    BY DEF s
  <2> QED
    BY <1>1, <1>3, <2>1 DEF Takes, ChainOK
<1>5. c \in Contracts
  BY Names
<1>6. c = "con_oracle" => reporters = {}
  BY <1>2 DEF ChainOK
<1>7. \A e \in Governed : e = c => governor[e] = NoOne /\ proposed_governor[e] # governance
  BY <1>2, Distinct DEF ChainOK
<1>8. ChainOK'
  <2>1. \A e \in Governed : governor'[e] # NoOne <=> e \in deployed'
    BY <1>4, <1>5, Distinct, Names DEF ChainOK
  <2>2. \A e \in Governed : proposed_governor'[e] = governance => governor'[e] = operator
    BY <1>4, <1>5, <1>7, Names DEF ChainOK
  <2>3. governor' \in [Contracts -> {operator, governance, NoOne}] /\ deployed' \subseteq Contracts
    BY <1>4, <1>5 DEF ChainOK
  <2>4. routing' \in [SettingNames -> {"nobody", "script", "operator", "governance"}]
    BY <1>4 DEF ChainOK
  <2>5. (priced' => operator \in reporters') /\ (reporters' # {} => "con_oracle" \in deployed')
    BY <1>4 DEF ChainOK
  <2> QED
    BY <1>4, <2>1, <2>2, <2>3, <2>4, <2>5 DEF ChainOK
<1>9. DoneKept
  <2>1. \A n \in SettingNames : routing[n] # "nobody" => routing'[n] # "nobody"
    BY <1>4 DEF ChainOK
  <2>2. \A e \in Governed : governance \in {governor[e], proposed_governor[e]} =>
                               governance \in {governor'[e], proposed_governor'[e]}
    BY <1>4, <1>5, <1>7, Distinct, Names DEF ChainOK
  <2> QED
    BY <1>4, <1>6, <2>1, <2>2, DoneGrows
<1>10. OutOfReach
  <2> SUFFICES ASSUME NEW e \in Governed, governor[e] = governance
               PROVE  /\ governor'[e] = governance
                      /\ e = "con_oracle" => reporters' = reporters
                      /\ \A n \in DOMAIN routing :
                            OwnerOf(n) = e => routing'[n] = routing[n]
    BY <1>4 DEF OutOfReach
  <2>1. e # c
    BY <1>7, Distinct
  <2> QED
    BY <1>4, <2>1, Names DEF ChainOK
<1>11. Done(Deploy(c))'
  BY <1>4, DoneOfNext
<1> QED
  BY <1>8, <1>9, <1>10, <1>11 DEF ChainStep

LEMMA ControllerTakes ==
  ASSUME ChainOK, NEW a \in Vital,
         ~Reverts(Controller(a)), Takes(Controller(a))
  PROVE  ChainStep /\ Done(Controller(a))'
<1> DEFINE s == Controller(a)
<1>1. s.do = "set_controller" /\ s.to = a
  BY DEF Controller
<1>2. governor["con_stable_token"] = operator
  BY <1>1 DEF Reverts, Target
<1>3. s # Deploy("con_oracle")
  BY <1>1 DEF Deploy
<1> HIDE DEF s
<1>4. /\ deployed' = deployed
      /\ governor' = governor
      /\ proposed_governor' = proposed_governor
      /\ controllers' = controllers \cup {a}
      /\ asset_configured' = asset_configured
      /\ reporters' = reporters
      /\ priced' = priced
      /\ routing' = routing
      /\ vault_type_count' = vault_type_count
  <2>1. Takes(s)
    BY DEF s
  <2> QED
    BY <1>1, <1>3, <2>1 DEF Takes, ChainOK
<1>5. ChainOK'
  BY <1>2, <1>4, Distinct, Names DEF ChainOK
<1>6. DoneKept
  BY <1>4, DoneGrows
<1>7. OutOfReach
  BY <1>2, <1>4, Distinct DEF OutOfReach
<1>8. Done(Controller(a))'
  BY <1>4, DoneOfNext
<1> QED
  BY <1>5, <1>6, <1>7, <1>8 DEF ChainStep

LEMMA ConfigTakes ==
  ASSUME ChainOK,
         ~Reverts(AssetConfig), Takes(AssetConfig)
  PROVE  ChainStep /\ Done(AssetConfig)'
<1> DEFINE s == AssetConfig
<1>1. s.do = "set_asset_config" /\ s.to = "con_oracle"
  BY DEF AssetConfig
<1>2. governor["con_oracle"] = operator
  BY <1>1 DEF Reverts, Target
<1>3. s # Deploy("con_oracle")
  BY <1>1 DEF Deploy
<1> HIDE DEF s
<1>4. /\ deployed' = deployed
      /\ governor' = governor
      /\ proposed_governor' = proposed_governor
      /\ controllers' = controllers
      /\ asset_configured' = TRUE
      /\ reporters' = reporters
      /\ priced' = priced
      /\ routing' = routing
      /\ vault_type_count' = vault_type_count
  <2>1. Takes(s)
    BY DEF s
  <2> QED
    BY <1>1, <1>3, <2>1 DEF Takes, ChainOK
<1>5. ChainOK'
  BY <1>2, <1>4, Distinct, Names DEF ChainOK
<1>6. DoneKept
  BY <1>4, DoneGrows
<1>7. OutOfReach
  BY <1>2, <1>4, Distinct DEF OutOfReach
<1>8. Done(AssetConfig)'
  BY <1>4, DoneOfNext
<1> QED
  BY <1>5, <1>6, <1>7, <1>8 DEF ChainStep

LEMMA ReporterTakes ==
  ASSUME ChainOK, NEW a \in Reporters,
         ~Reverts(Reporter(a)), Takes(Reporter(a))
  PROVE  ChainStep /\ Done(Reporter(a))'
<1> DEFINE s == Reporter(a)
<1>1. s.do = "set_reporter" /\ s.to = a
  BY DEF Reporter
<1>2. governor["con_oracle"] = operator
  BY <1>1 DEF Reverts, Target
<1>3. s # Deploy("con_oracle")
  BY <1>1 DEF Deploy
<1> HIDE DEF s
<1>4. /\ deployed' = deployed
      /\ governor' = governor
      /\ proposed_governor' = proposed_governor
      /\ controllers' = controllers
      /\ asset_configured' = asset_configured
      /\ reporters' = reporters \cup {a}
      /\ priced' = priced
      /\ routing' = routing
      /\ vault_type_count' = vault_type_count
  <2>1. Takes(s)
    BY DEF s
  <2> QED
    BY <1>1, <1>3, <2>1 DEF Takes, ChainOK
<1>5. ChainOK'
  BY <1>2, <1>4, Distinct, Names DEF ChainOK
<1>6. DoneKept
  BY <1>4, DoneGrows
<1>7. OutOfReach
  BY <1>2, <1>4, Distinct DEF OutOfReach
<1>8. Done(Reporter(a))'
  BY <1>4, DoneOfNext
<1> QED
  BY <1>5, <1>6, <1>7, <1>8 DEF ChainStep

LEMMA SettingTakes ==
  ASSUME ChainOK, NEW n \in SettingNames,
         ~Reverts(Setting(n)), Takes(Setting(n))
  PROVE  ChainStep /\ Done(Setting(n))'
<1> DEFINE s == Setting(n)
<1>1. s.do = "set" /\ s.to = n
  BY DEF Setting
<1>2. governor[OwnerOf(n)] = operator
  BY <1>1 DEF Reverts, Target
<1>3. s # Deploy("con_oracle")
  BY <1>1 DEF Deploy
<1> HIDE DEF s
<1>4. /\ deployed' = deployed
      /\ governor' = governor
      /\ proposed_governor' = proposed_governor
      /\ controllers' = controllers
      /\ asset_configured' = asset_configured
      /\ reporters' = reporters
      /\ priced' = priced
      /\ routing' = [m \in DOMAIN routing |-> IF m = n THEN "script" ELSE routing[m]]
      /\ vault_type_count' = vault_type_count
  <2>1. Takes(s)
    BY DEF s
  <2> QED
    BY <1>1, <1>3, <2>1 DEF Takes, ChainOK
<1>5. ChainOK'
  BY <1>2, <1>4 DEF ChainOK
<1>6. DoneKept
  <2>1. \A m \in SettingNames : routing[m] # "nobody" => routing'[m] # "nobody"
    BY <1>4 DEF ChainOK
  <2> QED
    BY <1>4, <2>1, DoneGrows
<1>7. OutOfReach
  <2> SUFFICES ASSUME NEW e \in Governed, governor[e] = governance, NEW m \in DOMAIN routing,
                      OwnerOf(m) = e
               PROVE  routing'[m] = routing[m]
    BY <1>4 DEF OutOfReach
  <2>1. m # n
    BY <1>2, Distinct
  <2> QED
    BY <1>4, <2>1
<1>8. Done(Setting(n))'
  BY <1>4, DoneOfNext DEF ChainOK
<1> QED
  BY <1>5, <1>6, <1>7, <1>8 DEF ChainStep

LEMMA VaultTypeTakes ==
  ASSUME ChainOK,
         ~Reverts(VaultType), Takes(VaultType)
  PROVE  ChainStep /\ Done(VaultType)'
<1> DEFINE s == VaultType
<1>1. s.do = "add_vault_type" /\ s.to = "con_vaults"
  BY DEF VaultType
<1>2. governor["con_vaults"] = operator
  BY <1>1 DEF Reverts, Target
<1>3. s # Deploy("con_oracle")
  BY <1>1 DEF Deploy
<1> HIDE DEF s
<1>4. /\ deployed' = deployed
      /\ governor' = governor
      /\ proposed_governor' = proposed_governor
      /\ controllers' = controllers
      /\ asset_configured' = asset_configured
      /\ reporters' = reporters
      /\ priced' = priced
      /\ routing' = routing
      /\ vault_type_count' = vault_type_count + 1
  <2>1. Takes(s)
    BY DEF s
  <2> QED
    BY <1>1, <1>3, <2>1 DEF Takes, ChainOK
<1>5. ChainOK'
  BY <1>2, <1>4 DEF ChainOK
<1>6. DoneKept
  <2>1. vault_type_count' >= 1
    BY <1>4 DEF ChainOK
  <2> QED
    BY <1>4, <2>1, DoneGrows
<1>7. OutOfReach
  BY <1>2, <1>4, Distinct DEF OutOfReach
<1>8. Done(VaultType)'
  BY <1>4, DoneOfNext DEF ChainOK
<1> QED
  BY <1>5, <1>6, <1>7, <1>8 DEF ChainStep

LEMMA HandoffTakes ==
  ASSUME ChainOK, NEW c \in Governed,
         ~Reverts(Handoff(c)), Takes(Handoff(c))
  PROVE  ChainStep /\ Done(Handoff(c))'
<1> DEFINE s == Handoff(c)
<1>1. s.do = "start_governance_transfer" /\ s.to = c
  BY DEF Handoff
<1>2. governor[c] = operator
  BY <1>1 DEF Reverts, Target
<1>3. s # Deploy("con_oracle")
  BY <1>1 DEF Deploy
<1> HIDE DEF s
<1>4. /\ deployed' = deployed
      /\ governor' = governor
      /\ proposed_governor' = [proposed_governor EXCEPT ![c] = governance]
      /\ controllers' = controllers
      /\ asset_configured' = asset_configured
      /\ reporters' = reporters
      /\ priced' = priced
      /\ routing' = routing
      /\ vault_type_count' = vault_type_count
  <2>1. Takes(s)
    BY DEF s
  <2> QED
    BY <1>1, <1>3, <2>1 DEF Takes, ChainOK
<1>5. ChainOK'
  <2>1. \A e \in Governed : proposed_governor'[e] = governance => governor'[e] = operator
    BY <1>2, <1>4, Names DEF ChainOK
  <2>2. proposed_governor' \in [Contracts -> {governance, NoOne}]
    BY <1>4 DEF ChainOK
  <2> QED
    BY <1>4, <2>1, <2>2 DEF ChainOK
<1>6. DoneKept
  <2>1. \A e \in Governed : governance \in {governor[e], proposed_governor[e]} =>
                               governance \in {governor'[e], proposed_governor'[e]}
    BY <1>4, Names DEF ChainOK
  <2> QED
    BY <1>4, <2>1, DoneGrows
<1>7. OutOfReach
  BY <1>2, <1>4, Distinct DEF OutOfReach
<1>8. Done(Handoff(c))'
  <2>1. proposed_governor'[c] = governance
    BY <1>4, Names DEF ChainOK
  <2> QED
    BY <2>1, DoneOfNext
<1> QED
  BY <1>5, <1>6, <1>7, <1>8 DEF ChainStep

LEMMA PriceTakes ==
  ASSUME ChainOK, ~Reverts(Price), Takes(Price)
  PROVE  ChainStep /\ Done(Price)'
<1> DEFINE s == Price
<1>1. s.do = "submit_price" /\ s.to = "con_oracle"
  BY DEF Price
<1>2. operator \in reporters
  BY <1>1 DEF Reverts
<1>3. s # Deploy("con_oracle")
  BY <1>1 DEF Deploy
<1> HIDE DEF s
<1>4. /\ deployed' = deployed
      /\ governor' = governor
      /\ proposed_governor' = proposed_governor
      /\ controllers' = controllers
      /\ asset_configured' = asset_configured
      /\ reporters' = reporters
      /\ priced' = TRUE
      /\ routing' = routing
      /\ vault_type_count' = vault_type_count
  <2>1. Takes(s)
    BY DEF s
  <2> QED
    BY <1>1, <1>3, <2>1 DEF Takes, ChainOK
<1>5. ChainOK'
  BY <1>2, <1>4 DEF ChainOK
<1>6. DoneKept
  BY <1>4, DoneGrows
<1>7. OutOfReach
  BY <1>4 DEF OutOfReach
<1>8. Done(Price)'
  BY <1>4, DoneOfNext
<1> QED
  BY <1>5, <1>6, <1>7, <1>8 DEF ChainStep

\* Whatever a transaction of the operator does, sent by this run or by an earlier
\* one, keeps the chain as the script relies on it.
LEMMA TakesKeepsChain ==
  ASSUME ChainOK, NEW s \in Known, ~Reverts(s), Takes(s)
  PROVE  ChainStep /\ Done(s)'
<1>1. CASE \E c \in Governed \cup Samples : s = Deploy(c)
  BY <1>1, DeployTakes
<1>2. CASE \E c \in Vital : s = Controller(c)
  BY <1>2, ControllerTakes
<1>3. CASE s = AssetConfig
  BY <1>3, ConfigTakes
<1>4. CASE \E a \in Reporters : s = Reporter(a)
  BY <1>4, ReporterTakes
<1>5. CASE s = Price
  BY <1>5, PriceTakes
<1>6. CASE \E n \in SettingNames : s = Setting(n)
  BY <1>6, SettingTakes
<1>7. CASE s = VaultType
  BY <1>7, VaultTypeTakes
<1>8. CASE \E c \in Governed : s = Handoff(c)
  BY <1>8, HandoffTakes
<1> QED
  BY <1>1, <1>2, <1>3, <1>4, <1>5, <1>6, <1>7, <1>8, Kinds

\* Only the vault type is counted.
LEMMA TakesCounts ==
  ASSUME ChainOK, NEW s \in Known, Takes(s)
  PROVE  vault_type_count' = vault_type_count + (IF s = VaultType THEN 1 ELSE 0)
<1>1. s.do = "add_vault_type" <=> s = VaultType
  BY Kinds DEF Deploy, Controller, Reporter, AssetConfig, Price, Setting, VaultType, Handoff
<1> QED
  BY <1>1 DEF Takes, ChainOK

\* What a run finds done is done.
LEMMA SkippedIsDone ==
  ASSUME ChainOK, NEW s \in Known, Skipped(s)
  PROVE  Done(s)
  BY DEF Done, Skipped, ChainOK

LEMMA UnchangedChain ==
  ASSUME ChainOK, UNCHANGED chain
  PROVE  ChainStep
<1>1. UNCHANGED <<deployed, governor, proposed_governor, controllers, asset_configured,
                  reporters, priced, routing, vault_type_count>>
  BY DEF chain
<1>2. ChainOK'
  BY <1>1 DEF ChainOK
<1>3. DoneKept
  BY <1>1, DoneGrows
<1> QED
  BY <1>1, <1>2, <1>3 DEF ChainStep, OutOfReach

LEMMA AcceptsKeepsChain ==
  ASSUME ChainOK, NEW c \in Governed, Accepts(c)
  PROVE  ChainStep
<1>1. proposed_governor[c] = governance /\ governor[c] = operator /\ c \in deployed
      /\ c \in Contracts
  BY Distinct, Names DEF Accepts, ChainOK
<1>2. /\ governor' = [governor EXCEPT ![c] = governance]
      /\ proposed_governor' = [proposed_governor EXCEPT ![c] = NoOne]
      /\ reporters' = IF c = "con_oracle" THEN reporters \cup {governance} ELSE reporters
      /\ UNCHANGED <<deployed, controllers, asset_configured, priced, routing, vault_type_count>>
  BY DEF Accepts
<1>3. ChainOK'
  <2>1. \A e \in Governed : governor'[e] # NoOne <=> e \in deployed'
    BY <1>1, <1>2, Distinct, Names DEF ChainOK
  <2>2. \A e \in Governed : proposed_governor'[e] = governance => governor'[e] = operator
    BY <1>1, <1>2, Distinct, Names DEF ChainOK
  <2>3. /\ governor' \in [Contracts -> {operator, governance, NoOne}]
        /\ proposed_governor' \in [Contracts -> {governance, NoOne}]
    BY <1>2 DEF ChainOK
  <2>4. (priced' => operator \in reporters') /\ (reporters' # {} => "con_oracle" \in deployed')
    BY <1>1, <1>2 DEF ChainOK
  <2> QED
    BY <1>2, <2>1, <2>2, <2>3, <2>4 DEF ChainOK
<1>4. DoneKept
  <2>1. \A e \in Governed : governance \in {governor[e], proposed_governor[e]} =>
                               governance \in {governor'[e], proposed_governor'[e]}
    BY <1>1, <1>2, Names DEF ChainOK
  <2> QED
    BY <1>2, <2>1, DoneGrows
<1>5. OutOfReach
  <2> SUFFICES ASSUME NEW e \in Governed, governor[e] = governance
               PROVE  governor'[e] = governance /\ (e = "con_oracle" => reporters' = reporters)
    BY <1>2 DEF OutOfReach
  <2>1. e # c
    BY <1>1, Distinct
  <2> QED
    BY <1>2, <2>1, Names DEF ChainOK
<1> QED
  BY <1>3, <1>4, <1>5 DEF ChainStep

LEMMA ReroutesKeepsChain ==
  ASSUME ChainOK, NEW n \in SettingNames, Reroutes(n)
  PROVE  ChainStep
<1>1. /\ routing' = [routing EXCEPT ![n] =
                        IF governor[OwnerOf(n)] = governance THEN "governance" ELSE "operator"]
      /\ UNCHANGED <<deployed, governor, proposed_governor, controllers, asset_configured,
                     reporters, priced, vault_type_count>>
  BY DEF Reroutes
<1>2. routing' \in [SettingNames -> {"nobody", "script", "operator", "governance"}]
      /\ \A m \in SettingNames : routing[m] # "nobody" => routing'[m] # "nobody"
  BY <1>1 DEF ChainOK
<1>3. ChainOK'
  BY <1>1, <1>2 DEF ChainOK
<1>4. DoneKept
  BY <1>1, <1>2, DoneGrows
<1>5. OutOfReach
  <2> SUFFICES ASSUME NEW e \in Governed, governor[e] = governance, NEW m \in DOMAIN routing,
                      OwnerOf(m) = e, routing'[m] # routing[m]
               PROVE  routing'[m] = "governance"
    BY <1>1 DEF OutOfReach
  <2> QED
    BY <1>1 DEF ChainOK
<1> QED
  BY <1>3, <1>4, <1>5 DEF ChainStep

-----------------------------------------------------------------------------
(* The script. *)

LEMMA CurrentIsPlanned ==
  ASSUME ScriptOK
  PROVE  Current \in Planned(flags) /\ Current \in Known
  BY StepAt DEF ScriptOK, Current

\* What a completed run has found or made.
RunDone == \A d \in Planned(flags) : Done(d)'

\* A step that is done takes the run on: what is behind it stays done, and behind
\* the last step is the whole plan.
LEMMA AdvancesKeepsBehind ==
  ASSUME ScriptOK, Behind, DoneKept, phase # "idle", Advances,
         NEW s \in Known, s = Current, Done(s)'
  PROVE  /\ phase' \in {"idle", "looking"} /\ flags' = flags
         /\ step' \in 1..Len(Steps(flags'))
         /\ outcome' \in {"none", "completed", "failed"}
         /\ Behind'
         /\ outcome # "completed" /\ outcome' = "completed" => RunDone
<1>1. flags \in Arguments /\ step \in 1..Len(Steps(flags)) /\ Len(Steps(flags)) \in Nat
      /\ Len(Steps(flags)) >= 1
  BY StepsArePlanned DEF ScriptOK
<1>2. ASSUME NEW i \in 1..step, NEW d, d = Steps(flags)[i]
      PROVE  Done(d)'
  <2>1. d \in Known
    BY <1>1, <1>2, StepAt
  <2>2. CASE i = step
    BY <1>2, <2>2 DEF Current
  <2>3. CASE i # step
    <3>1. i \in 1..(step - 1)
      BY <1>1, <2>3
    <3>2. Done(d)
      BY <1>2, <3>1 DEF Behind
    <3> QED
      BY <2>1, <3>2 DEF DoneKept
  <2> QED
    BY <2>2, <2>3
<1>3. CASE step = Len(Steps(flags))
  <2>1. phase' = "idle" /\ outcome' = "completed" /\ step' = 1 /\ flags' = flags
    BY <1>3 DEF Advances, Ends
  <2>2. RunDone
    <3> SUFFICES ASSUME NEW d \in Planned(flags)
                 PROVE  Done(d)'
      BY DEF RunDone
    <3>1. PICK i \in 1..Len(Steps(flags)) : Steps(flags)[i] = d
      BY <1>1, PlannedIsReached
    <3> QED
      BY <1>2, <1>3, <3>1
  <2>3. Behind'
    BY <2>1 DEF Behind
  <2> QED
    BY <1>1, <2>1, <2>2, <2>3
<1>4. CASE step # Len(Steps(flags))
  <2>1. phase' = "looking" /\ step' = step + 1 /\ flags' = flags /\ outcome' = outcome
    BY <1>4 DEF Advances
  <2>2. step' \in 1..Len(Steps(flags'))
    BY <1>1, <1>4, <2>1
  <2>3. Behind'
    <3> SUFFICES ASSUME NEW i \in 1..(step' - 1)
                 PROVE  Done(Steps(flags)[i])'
      BY DEF Behind
    <3>1. i \in 1..step
      BY <1>1, <2>1
    <3>2. PICK d : d = Steps(flags)[i]
      OBVIOUS
    <3>3. Done(d)'
      BY <1>2, <3>1, <3>2
    <3>4. d = Steps(flags')[i]
      BY <2>1, <3>2
    <3> QED
      BY <3>3, <3>4
  <2>4. outcome \in {"none", "completed", "failed"}
    BY DEF ScriptOK
  <2> QED
    BY <2>1, <2>2, <2>3, <2>4
<1> QED
  BY <1>3, <1>4

\* The end of a run that failed.
LEMMA EndsKeepsBehind ==
  ASSUME ScriptOK, Ends("failed")
  PROVE  /\ phase' = "idle" /\ flags' = flags /\ outcome' = "failed"
         /\ step' \in 1..Len(Steps(flags'))
         /\ Behind'
<1>1. flags \in Arguments /\ Len(Steps(flags)) \in Nat /\ Len(Steps(flags)) >= 1
  BY StepsArePlanned DEF ScriptOK
<1> QED
  BY <1>1 DEF Ends, Behind

\* The script stays where it is while the chain goes on.
LEMMA IdleScript ==
  ASSUME ScriptOK, Behind, DoneKept, UNCHANGED script
  PROVE  /\ UNCHANGED <<phase, step, flags, outcome>>
         /\ Behind'
         /\ Sending' = Sending
<1>1. UNCHANGED <<phase, step, flags, outcome>>
  BY DEF script
<1>2. Behind'
  <2> SUFFICES ASSUME phase' # "idle", NEW i \in 1..(step' - 1)
               PROVE  Done(Steps(flags)[i])'
    BY DEF Behind
  <2>1. step \in 1..Len(Steps(flags)) /\ flags \in Arguments /\ i \in 1..(step - 1)
        /\ Len(Steps(flags)) \in Nat
    BY <1>1, StepsArePlanned DEF ScriptOK
  <2>2. PICK d : d = Steps(flags)[i]
    OBVIOUS
  <2>3. d \in Known
    BY <2>1, <2>2, StepAt
  <2>4. Done(d)
    BY <1>1, <2>1, <2>2 DEF Behind
  <2>5. Done(d)'
    BY <2>3, <2>4 DEF DoneKept
  <2>6. d = Steps(flags')[i]
    BY <1>1, <2>2
  <2> QED
    BY <2>5, <2>6
<1>3. Sending' = Sending
  BY <1>1 DEF Sending, Current
<1> QED
  BY <1>1, <1>2, <1>3

\* One more, or one less, of the transactions that were left behind.
LEMMA LeftBehind ==
  ASSUME ScriptOK, NEW s \in Known, late' = Left(s)
  PROVE  /\ DOMAIN late' \subseteq Known
         /\ late' \in [DOMAIN late' -> Nat \ {0}]
         /\ Pending' = Pending + (IF s = VaultType THEN 1 ELSE 0)
         /\ Pending \in Nat
<1>1. /\ DOMAIN late' = DOMAIN late \cup {s}
      /\ \A d \in DOMAIN late' :
            late'[d] = (IF d \in DOMAIN late THEN late[d] ELSE 0) + (IF d = s THEN 1 ELSE 0)
      /\ late' = [d \in DOMAIN late' |-> late'[d]]
  BY DEF Left
<1>2. DOMAIN late \subseteq Known /\ \A d \in DOMAIN late : late[d] \in Nat \ {0}
  BY DEF ScriptOK
<1>3. \A d \in DOMAIN late' : late'[d] \in Nat \ {0}
  BY <1>1, <1>2
<1> QED
  BY <1>1, <1>2, <1>3 DEF Pending

LEMMA WithoutIt ==
  ASSUME ScriptOK, NEW s \in DOMAIN late, late' = Without(s)
  PROVE  /\ DOMAIN late' \subseteq Known
         /\ late' \in [DOMAIN late' -> Nat \ {0}]
         /\ Pending' = Pending - (IF s = VaultType THEN 1 ELSE 0)
         /\ Pending \in Nat
<1>1. DOMAIN late \subseteq Known /\ late \in [DOMAIN late -> Nat \ {0}]
  BY DEF ScriptOK
<1>2. CASE late[s] > 1
  <2>1. late' = [late EXCEPT ![s] = late[s] - 1]
    BY <1>2 DEF Without
  <2>2. DOMAIN late' = DOMAIN late
        /\ \A d \in DOMAIN late : late'[d] = IF d = s THEN late[s] - 1 ELSE late[d]
    BY <1>1, <2>1
  <2>3. late' \in [DOMAIN late' -> Nat \ {0}]
    BY <1>1, <1>2, <2>1, <2>2
  <2> QED
    BY <1>1, <2>2, <2>3 DEF Pending
<1>3. CASE ~(late[s] > 1)
  <2>1. late' = [d \in DOMAIN late \ {s} |-> late[d]]
    BY <1>3 DEF Without
  <2>2. DOMAIN late' = DOMAIN late \ {s}
        /\ \A d \in DOMAIN late' : late'[d] = late[d]
    BY <2>1
  <2>3. late[s] = 1
    BY <1>1, <1>3
  <2>4. late' \in [DOMAIN late' -> Nat \ {0}]
    BY <1>1, <2>1, <2>2
  <2> QED
    BY <1>1, <2>2, <2>3, <2>4 DEF Pending
<1> QED
  BY <1>2, <1>3

-----------------------------------------------------------------------------
(* The actions. *)

\* What has to be shown of a step.
Completes == outcome # "completed" /\ outcome' = "completed"
RunStep == Inv' /\ OutOfReach /\ (Completes => RunDone)

\* The parts a step of the script has to establish, besides what it does to the
\* chain and to what was left behind.
LEMMA StepOf ==
  ASSUME ChainStep, Behind',
         phase' \in {"idle", "looking", "waiting"},
         flags' \in Arguments, step' \in 1..Len(Steps(flags')),
         outcome' \in {"none", "completed", "failed"},
         faults' \in Nat, DOMAIN late' \subseteq Known,
         late' \in [DOMAIN late' -> Nat \ {0}],
         Counted',
         Completes => RunDone
  PROVE  RunStep
  BY DEF RunStep, Inv, ChainStep, ScriptOK

LEMMA LateKept ==
  ASSUME ScriptOK, late' = late
  PROVE  /\ DOMAIN late' \subseteq Known /\ late' \in [DOMAIN late' -> Nat \ {0}]
         /\ Pending' = Pending /\ Pending \in Nat
  BY DEF ScriptOK, Pending

LEMMA InitEstablishesInv == Init => Inv
<1> SUFFICES ASSUME Init PROVE Inv
  OBVIOUS
<1>1. ChainOK
  <2>1. deployed \subseteq Contracts \ Governed
    BY BootstrapAssumption DEF Init
  <2>2. \A c \in Governed : c \in Contracts
    BY Names
  <2>3. routing \in [SettingNames -> {"nobody", "script", "operator", "governance"}]
    BY DEF Init, SettingNames
  <2> QED
    BY <2>1, <2>2, <2>3, Distinct DEF Init, ChainOK
<1>2. flags = DefaultArgs /\ flags \in Arguments /\ step = 1 /\ phase = "idle"
  BY ArgumentFields DEF Init, DefaultArgs
<1>3. DOMAIN late = {} /\ late \in [DOMAIN late -> Nat \ {0}] /\ faults = 0
  BY DEF Init
<1>4. ScriptOK
  BY <1>2, <1>3, StepsArePlanned DEF Init, ScriptOK
<1>5. Behind
  BY <1>2 DEF Behind
<1>6. Counted
  BY <1>2, <1>3 DEF Init, Counted, Pending, Sending
<1> QED
  BY <1>1, <1>4, <1>5, <1>6 DEF Inv

LEMMA StartRunStep ==
  ASSUME Inv, NEW args \in Arguments, StartRun(args)
  PROVE  RunStep
<1>1. /\ phase = "idle" /\ flags' = args /\ step' = 1
      /\ phase' \in {"idle", "looking"} /\ outcome' \in {"none", "failed"}
      /\ UNCHANGED <<chain, late, faults>>
  BY DEF StartRun
<1>2. ChainStep
  BY <1>1, UnchangedChain DEF Inv
<1>3. step' \in 1..Len(Steps(flags'))
  BY <1>1, StepsArePlanned
<1>4. Behind'
  BY <1>1 DEF Behind
<1>5. Counted'
  <2>1. Sending = 0 /\ Sending' = 0
    BY <1>1 DEF Sending
  <2>2. vault_type_count' = vault_type_count /\ Pending' = Pending /\ faults' = faults
    BY <1>1 DEF chain, Pending
  <2> QED
    BY <2>1, <2>2 DEF Inv, Counted
<1>6. ~Completes
  BY <1>1 DEF Completes
<1> QED
  BY <1>1, <1>2, <1>3, <1>4, <1>5, <1>6, LateKept, StepOf DEF Inv, ScriptOK

LEMMA LookStep ==
  ASSUME Inv, Look
  PROVE  RunStep
<1>1. phase = "looking" /\ UNCHANGED <<chain, late, faults>>
  BY DEF Look
<1>2. ChainStep /\ ChainOK
  BY <1>1, UnchangedChain DEF Inv
<1>3. /\ vault_type_count' = vault_type_count /\ Pending' = Pending /\ faults' = faults
      /\ vault_type_count \in Nat /\ Pending \in Nat /\ faults \in Nat
      /\ DOMAIN late' \subseteq Known /\ late' \in [DOMAIN late' -> Nat \ {0}]
  BY <1>1, LateKept DEF chain, Inv, ChainOK, ScriptOK
<1>4. PICK s \in Known : s = Current
  BY CurrentIsPlanned DEF Inv
<1>5. CASE Skipped(Current) /\ Advances
  <2>1. Done(s)
    BY <1>2, <1>4, <1>5, SkippedIsDone
  <2>2. Done(s)'
    BY <1>2, <2>1 DEF ChainStep, DoneKept
  <2>3. /\ phase' \in {"idle", "looking"} /\ flags' = flags
        /\ step' \in 1..Len(Steps(flags'))
        /\ outcome' \in {"none", "completed", "failed"}
        /\ Behind'
        /\ Completes => RunDone
    BY <1>1, <1>2, <1>4, <1>5, <2>2, AdvancesKeepsBehind DEF Inv, ChainStep, Completes
  <2>4. Sending' = 0 /\ Sending = 0
    BY <1>1, <2>3 DEF Sending
  <2>5. Counted'
    BY <1>3, <2>4 DEF Inv, Counted
  <2> QED
    BY <1>2, <1>3, <2>3, <2>5, StepOf DEF Inv, ScriptOK
<1>6. CASE /\ ~Skipped(Current)
           /\ phase' = "waiting"
           /\ UNCHANGED <<step, flags, outcome>>
  <2>1. /\ phase' = "waiting" /\ step' = step /\ flags' = flags /\ outcome' = outcome
        /\ flags \in Arguments /\ step \in 1..Len(Steps(flags))
        /\ outcome \in {"none", "completed", "failed"}
    BY <1>6 DEF Inv, ScriptOK
  <2>2. Behind'
    <3> SUFFICES ASSUME NEW i \in 1..(step' - 1)
                 PROVE  Done(Steps(flags)[i])'
      BY DEF Behind
    <3>1. i \in 1..(step - 1) /\ i \in 1..Len(Steps(flags))
      BY <2>1, StepsArePlanned
    <3>2. PICK d : d = Steps(flags)[i]
      OBVIOUS
    <3>3. d \in Known /\ Done(d)
      BY <1>1, <2>1, <3>1, <3>2, StepAt DEF Inv, Behind
    <3>4. Done(d)'
      BY <1>2, <3>3 DEF ChainStep, DoneKept
    <3>5. d = Steps(flags')[i]
      BY <2>1, <3>2
    <3> QED
      BY <3>4, <3>5
  <2>3. Counted'
    <3>1. Current' = Current
      BY <2>1 DEF Current
    <3>2. Sending' = IF Current = VaultType THEN 1 ELSE 0
      BY <2>1, <3>1 DEF Sending
    <3>3. Current = VaultType => vault_type_count = 0
      BY <1>3, <1>6 DEF Skipped, VaultType
    <3>4. Sending = 0
      BY <1>1 DEF Sending
    <3> QED
      BY <1>3, <3>2, <3>3, <3>4 DEF Inv, Counted
  <2>4. ~Completes
    BY <2>1 DEF Completes
  <2> QED
    BY <1>2, <1>3, <2>1, <2>2, <2>3, <2>4, StepOf DEF Inv, ScriptOK
<1> QED
  BY <1>5, <1>6 DEF Look

LEMMA IncludedStep ==
  ASSUME Inv, Included
  PROVE  RunStep
<1>1. phase = "waiting" /\ UNCHANGED <<late, faults>>
  BY DEF Included
<1>2. ChainOK /\ ScriptOK /\ Behind /\ Counted
  BY DEF Inv
<1>3. /\ Pending' = Pending /\ faults' = faults
      /\ vault_type_count \in Nat /\ Pending \in Nat /\ faults \in Nat
      /\ DOMAIN late' \subseteq Known /\ late' \in [DOMAIN late' -> Nat \ {0}]
  BY <1>1, <1>2, LateKept DEF ChainOK, ScriptOK
<1>4. PICK s \in Known : s = Current
  BY <1>2, CurrentIsPlanned
<1>5. Sending = IF s = VaultType THEN 1 ELSE 0
  BY <1>1, <1>4 DEF Sending
<1>6. CASE Reverts(Current) /\ Ends("failed") /\ UNCHANGED chain
  <2>1. ChainStep
    BY <1>2, <1>6, UnchangedChain
  <2>2. /\ phase' = "idle" /\ flags' = flags /\ outcome' = "failed"
        /\ step' \in 1..Len(Steps(flags'))
        /\ Behind'
    BY <1>2, <1>6, EndsKeepsBehind
  <2>3. Sending' = 0 /\ vault_type_count' = vault_type_count
    BY <1>6, <2>2 DEF Sending, chain
  <2>4. Counted'
    BY <1>2, <1>3, <1>5, <2>3 DEF Counted
  <2>5. ~Completes
    BY <2>2 DEF Completes
  <2> QED
    BY <1>2, <1>3, <2>1, <2>2, <2>4, <2>5, StepOf DEF ScriptOK
<1>7. CASE ~Reverts(Current) /\ Takes(Current) /\ Advances
  <2>1. ~Reverts(s) /\ Takes(s)
    BY <1>4, <1>7
  <2>2. ChainStep /\ Done(s)'
    BY <1>2, <2>1, TakesKeepsChain
  <2>3. /\ phase' \in {"idle", "looking"} /\ flags' = flags
        /\ step' \in 1..Len(Steps(flags'))
        /\ outcome' \in {"none", "completed", "failed"}
        /\ Behind'
        /\ Completes => RunDone
    BY <1>1, <1>2, <1>4, <1>7, <2>2, AdvancesKeepsBehind DEF ChainStep, Completes
  <2>4. Sending' = 0
    BY <2>3 DEF Sending
  <2>5. vault_type_count' = vault_type_count + Sending
    BY <1>2, <1>5, <2>1, TakesCounts
  <2>6. Counted'
    BY <1>2, <1>3, <1>5, <2>4, <2>5 DEF Counted
  <2> QED
    BY <1>2, <1>3, <2>2, <2>3, <2>6, StepOf DEF ScriptOK
<1> QED
  BY <1>6, <1>7 DEF Included

LEMMA StoppedStep ==
  ASSUME Inv, Stopped
  PROVE  RunStep
<1>1. faults' = faults + 1 /\ Ends("failed") /\ UNCHANGED <<chain, late>>
  BY DEF Stopped
<1>2. ChainOK /\ ScriptOK /\ Behind /\ Counted
  BY DEF Inv
<1>3. /\ Pending' = Pending /\ vault_type_count' = vault_type_count
      /\ vault_type_count \in Nat /\ Pending \in Nat /\ faults \in Nat
      /\ DOMAIN late' \subseteq Known /\ late' \in [DOMAIN late' -> Nat \ {0}]
  BY <1>1, <1>2, LateKept DEF ChainOK, ScriptOK, chain
<1>4. ChainStep
  BY <1>1, <1>2, UnchangedChain
<1>5. /\ phase' = "idle" /\ flags' = flags /\ outcome' = "failed"
      /\ step' \in 1..Len(Steps(flags'))
      /\ Behind'
  BY <1>1, <1>2, EndsKeepsBehind
<1>6. Sending \in {0, 1} /\ Sending' = 0
  BY <1>5 DEF Sending
<1>7. Counted'
  BY <1>1, <1>2, <1>3, <1>6 DEF Counted
<1>8. ~Completes
  BY <1>5 DEF Completes
<1> QED
  BY <1>1, <1>2, <1>3, <1>4, <1>5, <1>7, <1>8, StepOf DEF ScriptOK

LEMMA GivenUpStep ==
  ASSUME Inv, GivenUp
  PROVE  RunStep
<1>1. phase = "waiting" /\ faults' = faults + 1 /\ Ends("failed") /\ late' = Left(Current)
      /\ UNCHANGED chain
  BY DEF GivenUp
<1>2. ChainOK /\ ScriptOK /\ Behind /\ Counted
  BY DEF Inv
<1>3. PICK s \in Known : s = Current
  BY <1>2, CurrentIsPlanned
<1>4. Sending = IF s = VaultType THEN 1 ELSE 0
  BY <1>1, <1>3 DEF Sending
<1>5. /\ DOMAIN late' \subseteq Known /\ late' \in [DOMAIN late' -> Nat \ {0}]
      /\ Pending' = Pending + Sending /\ Pending \in Nat
  BY <1>1, <1>2, <1>3, <1>4, LeftBehind
<1>6. ChainStep
  BY <1>1, <1>2, UnchangedChain
<1>7. /\ phase' = "idle" /\ flags' = flags /\ outcome' = "failed"
      /\ step' \in 1..Len(Steps(flags'))
      /\ Behind'
  BY <1>1, <1>2, EndsKeepsBehind
<1>8. Sending \in {0, 1} /\ Sending' = 0
  BY <1>4, <1>7 DEF Sending
<1>9. Counted'
  <2>1. vault_type_count' = vault_type_count /\ vault_type_count \in Nat /\ faults \in Nat
    BY <1>1, <1>2 DEF chain, ChainOK, ScriptOK
  <2> QED
    BY <1>1, <1>2, <1>5, <1>8, <2>1 DEF Counted
<1>10. ~Completes
  BY <1>7 DEF Completes
<1> QED
  BY <1>1, <1>2, <1>5, <1>6, <1>7, <1>9, <1>10, StepOf DEF ScriptOK

\* A step of the chain that the script does not see.
LEMMA OutsideStep ==
  ASSUME Inv, ChainStep, UNCHANGED script, faults' = faults,
         DOMAIN late' \subseteq Known, late' \in [DOMAIN late' -> Nat \ {0}],
         Pending' \in Nat, Pending' <= Pending,
         vault_type_count' + Pending' <= vault_type_count + Pending
  PROVE  RunStep
<1>1. ChainOK /\ ScriptOK /\ Behind /\ Counted
  BY DEF Inv
<1>2. UNCHANGED <<phase, step, flags, outcome>> /\ Behind' /\ Sending' = Sending
  BY <1>1, IdleScript DEF ChainStep
<1>3. Counted'
  <2>1. vault_type_count \in Nat /\ vault_type_count' \in Nat /\ faults \in Nat
    BY <1>1 DEF ChainOK, ScriptOK, ChainStep
  <2>2. Sending \in {0, 1} /\ Pending \in Nat
    BY <1>1 DEF Sending, Pending, ScriptOK
  <2> QED
    BY <1>1, <1>2, <2>1, <2>2 DEF Counted
<1>4. ~Completes
  BY <1>2 DEF Completes
<1> QED
  BY <1>1, <1>2, <1>3, <1>4, StepOf DEF ScriptOK

LEMMA LandsStep ==
  ASSUME Inv, NEW s \in DOMAIN late, Lands(s)
  PROVE  RunStep
<1>1. late' = Without(s) /\ UNCHANGED <<script, faults>>
  BY DEF Lands
<1>2. ChainOK /\ ScriptOK /\ s \in Known
  BY DEF Inv, ScriptOK
<1>3. /\ DOMAIN late' \subseteq Known /\ late' \in [DOMAIN late' -> Nat \ {0}]
      /\ Pending' = Pending - (IF s = VaultType THEN 1 ELSE 0) /\ Pending \in Nat
  BY <1>1, <1>2, WithoutIt
<1>4. Pending' \in Nat
  BY <1>3 DEF Pending
<1>5. ChainStep /\ vault_type_count' <= vault_type_count + (IF s = VaultType THEN 1 ELSE 0)
      /\ vault_type_count' \in Nat /\ vault_type_count \in Nat
  <2>1. CASE Reverts(s) /\ UNCHANGED chain
    <3>1. ChainStep /\ vault_type_count' = vault_type_count
      BY <1>2, <2>1, UnchangedChain DEF chain
    <3> QED
      BY <1>2, <3>1 DEF ChainOK
  <2>2. CASE ~Reverts(s) /\ Takes(s)
    <3>1. ChainStep /\ vault_type_count' = vault_type_count + (IF s = VaultType THEN 1 ELSE 0)
      BY <1>2, <2>2, TakesKeepsChain, TakesCounts
    <3> QED
      BY <1>2, <3>1 DEF ChainOK
  <2> QED
    BY <2>1, <2>2 DEF Lands
<1> QED
  BY <1>1, <1>3, <1>4, <1>5, OutsideStep

LEMMA DropsStep ==
  ASSUME Inv, NEW s \in DOMAIN late, Drops(s)
  PROVE  RunStep
<1>1. late' = Without(s) /\ UNCHANGED <<chain, script, faults>>
  BY DEF Drops
<1>2. ChainOK /\ ScriptOK /\ s \in Known
  BY DEF Inv, ScriptOK
<1>3. /\ DOMAIN late' \subseteq Known /\ late' \in [DOMAIN late' -> Nat \ {0}]
      /\ Pending' = Pending - (IF s = VaultType THEN 1 ELSE 0) /\ Pending \in Nat
  BY <1>1, <1>2, WithoutIt
<1>4. Pending' \in Nat
  BY <1>3 DEF Pending
<1>5. ChainStep /\ vault_type_count' = vault_type_count /\ vault_type_count \in Nat
  BY <1>1, <1>2, UnchangedChain DEF chain, ChainOK
<1> QED
  BY <1>1, <1>3, <1>4, <1>5, OutsideStep

LEMMA AcceptsStep ==
  ASSUME Inv, NEW c \in Governed, Accepts(c)
  PROVE  RunStep
<1>1. ChainStep /\ UNCHANGED <<script, late, faults, vault_type_count>>
  BY AcceptsKeepsChain DEF Inv, Accepts
<1>2. vault_type_count \in Nat /\ ScriptOK
  BY DEF Inv, ChainOK
<1> QED
  BY <1>1, <1>2, LateKept, OutsideStep

LEMMA ReroutesStep ==
  ASSUME Inv, NEW n \in Rerouted, Reroutes(n)
  PROVE  RunStep
<1>1. n \in SettingNames
  BY BootstrapAssumption DEF SettingNames
<1>2. ChainStep /\ UNCHANGED <<script, late, faults, vault_type_count>>
  BY <1>1, ReroutesKeepsChain DEF Inv, Reroutes
<1>3. vault_type_count \in Nat /\ ScriptOK
  BY DEF Inv, ChainOK
<1> QED
  BY <1>2, <1>3, LateKept, OutsideStep

LEMMA NextStep ==
  ASSUME Inv, [Next]_vars
  PROVE  RunStep
<1>1. CASE UNCHANGED vars
  <2>1. UNCHANGED <<chain, script, late, faults>>
    BY <1>1 DEF vars
  <2>2. ChainStep /\ vault_type_count' = vault_type_count /\ vault_type_count \in Nat /\ ScriptOK
    BY <2>1, UnchangedChain DEF Inv, chain, ChainOK
  <2> QED
    BY <2>1, <2>2, LateKept, OutsideStep
<1>2. CASE \E args \in Arguments : StartRun(args)
  BY <1>2, StartRunStep
<1>3. CASE Look
  BY <1>3, LookStep
<1>4. CASE Included
  BY <1>4, IncludedStep
<1>5. CASE Stopped
  BY <1>5, StoppedStep
<1>6. CASE GivenUp
  BY <1>6, GivenUpStep
<1>7. CASE \E s \in DOMAIN late : Lands(s) \/ Drops(s)
  BY <1>7, LandsStep, DropsStep
<1>8. CASE \E c \in Governed : Accepts(c)
  BY <1>8, AcceptsStep
<1>9. CASE \E setting \in Rerouted : Reroutes(setting)
  BY <1>9, ReroutesStep
<1> QED
  BY <1>1, <1>2, <1>3, <1>4, <1>5, <1>6, <1>7, <1>8, <1>9 DEF Next, Script

-----------------------------------------------------------------------------
(* The theorems. *)

\* The position of a run vouches for the chain, in every reachable state.
THEOREM BootstrapInvariant == Spec => []Inv
<1>1. Inv /\ [Next]_vars => Inv'
  BY NextStep DEF RunStep
<1> QED
  BY <1>1, InitEstablishesInv, PTL DEF Spec

\* A contract has a governor exactly when it is deployed, whoever reports a price
\* is a reporter, and nothing the script does not send is ever left behind.
THEOREM BootstrapTypeCorrect == Spec => []TypeOK
<1>1. Inv => TypeOK
  BY SentIsKnown DEF Inv, ChainOK, ScriptOK, TypeOK, Vital, SettingNames
<1> QED
  BY <1>1, BootstrapInvariant, PTL

\* Each default vault type beyond the first took a run that was cut short.
THEOREM VaultTypesAreCounted == Spec => []OneVaultTypePerGivenUp
<1>1. Inv => OneVaultTypePerGivenUp
  <2> SUFFICES ASSUME Inv PROVE OneVaultTypePerGivenUp
    OBVIOUS
  <2>1. vault_type_count \in Nat /\ Pending \in Nat /\ Sending \in {0, 1} /\ faults \in Nat
    BY DEF Inv, ChainOK, ScriptOK, Pending, Sending
  <2> QED
    BY <2>1 DEF Inv, Counted, OneVaultTypePerGivenUp
<1> QED
  BY <1>1, BootstrapInvariant, PTL

\* What governance has accepted is out of the script's reach, and of the reach of
\* any transaction the script ever sent.
THEOREM AcceptedStaysOutOfReach == Spec => AcceptedIsOutOfReach
<1>1. Inv /\ [Next]_vars => OutOfReach
  BY NextStep DEF RunStep
<1>2. Inv /\ [Next]_vars =>
        [\A c \in Governed :
          governor[c] = governance =>
             /\ governor'[c] = governance
             /\ c = "con_stable_token" => controllers' = controllers
             /\ c = "con_oracle" => <<asset_configured, reporters>>' = <<asset_configured, reporters>>
             /\ c = "con_vaults" => vault_type_count' = vault_type_count
             /\ \A setting \in DOMAIN routing :
                   OwnerOf(setting) = c /\ routing'[setting] # routing[setting] =>
                       routing'[setting] = "governance"]_vars
  BY <1>1 DEF OutOfReach
<1> QED
  BY <1>2, BootstrapInvariant, PTL DEF Spec, AcceptedIsOutOfReach

\* A completed run leaves a wired protocol, whatever happened to the runs before
\* it and lands after them.
THEOREM CompletionWiresTheProtocol == Spec => CompletedRunsWireTheProtocol
<1>1. Inv /\ [Next]_vars =>
        [outcome # "completed" /\ outcome' = "completed" =>
          /\ Governed \subseteq deployed'
          /\ {"con_vaults", "con_psm"} \subseteq controllers'
          /\ asset_configured'
          /\ \A i \in 1..Len(oracle_reporters) :
                /\ oracle_reporters[i] \in reporters'
                /\ oracle_reporters[i] = operator => priced'
          /\ vault_type_count' >= 1
          /\ \A setting \in DOMAIN routing :
                routing'[setting] # "nobody"
          /\ flags.start_governance_handoff =>
                \A c \in Governed : governance \in {governor'[c], proposed_governor'[c]}]_vars
  <2> SUFFICES ASSUME Inv, [Next]_vars, outcome # "completed", outcome' = "completed"
               PROVE  /\ Governed \subseteq deployed'
                      /\ {"con_vaults", "con_psm"} \subseteq controllers'
                      /\ asset_configured'
                      /\ \A i \in 1..Len(oracle_reporters) :
                            /\ oracle_reporters[i] \in reporters'
                            /\ oracle_reporters[i] = operator => priced'
                      /\ vault_type_count' >= 1
                      /\ \A setting \in DOMAIN routing : routing'[setting] # "nobody"
                      /\ flags.start_governance_handoff =>
                            \A c \in Governed :
                               governance \in {governor'[c], proposed_governor'[c]}
    OBVIOUS
  <2>1. RunDone
    BY NextStep DEF RunStep, Completes
  <2>2. DOMAIN routing = SettingNames
    BY DEF Inv, ChainOK
  <2>3. /\ \A c \in Governed : Deploy(c) \in Planned(flags)
        /\ \A c \in Vital : Controller(c) \in Planned(flags)
        /\ AssetConfig \in Planned(flags) /\ VaultType \in Planned(flags)
        /\ \A a \in Reporters : Reporter(a) \in Planned(flags)
        /\ operator \in Reporters => Price \in Planned(flags)
        /\ \A n \in SettingNames : Setting(n) \in Planned(flags)
        /\ flags.start_governance_handoff => \A c \in Governed : Handoff(c) \in Planned(flags)
    BY DEF Planned
  <2>4. \A c \in Governed : c \in deployed'
    BY <2>1, <2>3, DoneOfNext DEF RunDone
  <2>5. \A c \in Vital : c \in controllers'
    BY <2>1, <2>3, DoneOfNext DEF RunDone
  <2>6. asset_configured' /\ vault_type_count' >= 1
    BY <2>1, <2>3, DoneOfNext DEF RunDone
  <2>7. \A a \in Reporters : a \in reporters' /\ (a = operator => priced')
    BY <2>1, <2>3, DoneOfNext DEF RunDone
  <2>8. \A n \in SettingNames : routing'[n] # "nobody"
    BY <2>1, <2>3, DoneOfNext DEF RunDone
  <2>9. flags.start_governance_handoff =>
          \A c \in Governed : governance \in {governor'[c], proposed_governor'[c]}
    BY <2>1, <2>3, DoneOfNext DEF RunDone
  <2>10. \A i \in 1..Len(oracle_reporters) : oracle_reporters[i] \in Reporters
    BY DEF Reporters
  <2> QED
    BY <2>2, <2>4, <2>5, <2>6, <2>7, <2>8, <2>9, <2>10 DEF Vital
<1> QED
  BY <1>1, BootstrapInvariant, PTL DEF Spec, CompletedRunsWireTheProtocol
=============================================================================
