----------------------------- MODULE Bootstrap ------------------------------
(***************************************************************************)
(* scripts/bootstrap_protocol.py against a chain.  A run of the script goes  *)
(* through its steps in order: it looks at the chain, skips a step that is   *)
(* done, or sends a transaction and waits for it.  Any error ends the run:   *)
(* the operator stops it, a transaction is refused, reverts, or is not       *)
(* finalized in time, in which case it may still land long after the run     *)
(* that sent it.  Runs follow one another.  Meanwhile governance accepts,    *)
(* contract by contract and when it pleases, what has been offered to it,    *)
(* and whoever governs a contract may route its fees elsewhere.              *)
(* Prices, ratios, names, budgets and the printed summary are left out; a    *)
(* configuration does not change between runs.                               *)
(***************************************************************************)
EXTENDS Naturals, Sequences, FiniteSets

CONSTANTS operator,             \* operator_address, the bootstrap wallet
          governance,           \* governance_contract_name
          NoOne,
          oracle_reporters,     \* a sequence of accounts
          ChainContracts,       \* the membership and the governance contract
          InitiallyDeployed,    \* the contracts a chain may have before the first run
          Rerouted,             \* bound: the settings that are changed by others
          MaxFaults             \* bound on runs cut short

SampleTokens == <<"con_collateral_token", "con_reserve_token">>
Protocol == <<"con_stable_token", "con_oracle", "con_savings", "con_vaults", "con_psm">>
Governed == {Protocol[i] : i \in 1..Len(Protocol)}
Contracts == Governed \cup {SampleTokens[i] : i \in 1..Len(SampleTokens)} \cup ChainContracts

\* The settings _ensure_fee_destinations applies, and the contract of each.
Settings == <<"savings_contract", "vaults_treasury", "psm_treasury", "psm_fees">>
OwnerOf(setting) ==
    IF setting \in {"savings_contract", "vaults_treasury"} THEN "con_vaults" ELSE "con_psm"

ASSUME BootstrapAssumption ==
    /\ operator # governance
    /\ NoOne \notin {operator, governance}
    /\ oracle_reporters \in Seq({oracle_reporters[i] : i \in 1..Len(oracle_reporters)})
    /\ \A deployed \in InitiallyDeployed : deployed \subseteq Contracts \ Governed
    /\ Rerouted \subseteq {Settings[i] : i \in 1..Len(Settings)}
    /\ MaxFaults \in Nat

VARIABLES deployed,             \* names get_contract_source knows
          governor, proposed_governor,
          controllers,          \* of the stable token
          asset_configured, reporters, priced,  \* of the oracle
          routing,              \* who chose the value of each setting
          vault_type_count,
          phase,                \* of the script: "idle", "looking" or "waiting"
          step,                 \* the position of the run
          flags,                \* its arguments
          outcome,              \* of the last run
          late,                 \* transactions that outlived their runs, and how often
          faults

chain == <<deployed, governor, proposed_governor, controllers, asset_configured,
           reporters, priced, routing, vault_type_count>>
script == <<phase, step, flags, outcome>>
vars == <<chain, script, late, faults>>

-----------------------------------------------------------------------------
(* The steps of a run. *)

Each(names, Do(_)) == [i \in 1..Len(names) |-> Do(names[i])]

Deploy(name) == [do |-> "deploy_contract", to |-> name]
Controller(account) == [do |-> "set_controller", to |-> account]
Reporter(account) == [do |-> "set_reporter", to |-> account]
Setting(name) == [do |-> "set", to |-> name]
Handoff(name) == [do |-> "start_governance_transfer", to |-> name]
AssetConfig == [do |-> "set_asset_config", to |-> "con_oracle"]
Price == [do |-> "submit_price", to |-> "con_oracle"]
VaultType == [do |-> "add_vault_type", to |-> "con_vaults"]

\* The order of the bundle, with the sample tokens behind the stable token.
_build_deployment_plan(skip_sample_tokens) ==
    Each(<<Protocol[1]>> \o (IF skip_sample_tokens THEN <<>> ELSE SampleTokens)
             \o Tail(Protocol), Deploy)

_ensure_oracle_state ==
    <<AssetConfig>> \o Each(oracle_reporters, Reporter)
       \o (IF \E i \in 1..Len(oracle_reporters) : oracle_reporters[i] = operator
           THEN <<Price>> ELSE <<>>)

\* main, from the plan to the handoff.
Steps(args) ==
    _build_deployment_plan(args.skip_sample_tokens)
       \o Each(<<"con_vaults", "con_psm">>, Controller)
       \o _ensure_oracle_state
       \o Each(Settings, Setting)
       \o <<VaultType>>
       \o (IF args.start_governance_handoff THEN Each(Protocol, Handoff) ELSE <<>>)

\* Mutant: sends the vault type again.
Skipped_VaultTypeAgain(s) ==
    \/ s.do = "deploy_contract" /\ s.to \in deployed
    \/ s.do = "set_controller" /\ s.to \in controllers
    \/ s.do = "set_reporter" /\ s.to \in reporters
    \/ s.do = "start_governance_transfer" /\ governor[s.to] = governance

\* Mutant: deploys what is there.
Skipped_DeploysAgain(s) ==
    \/ s.do = "set_controller" /\ s.to \in controllers
    \/ s.do = "set_reporter" /\ s.to \in reporters
    \/ s.do = "add_vault_type" /\ vault_type_count > 0
    \/ s.do = "start_governance_transfer" /\ governor[s.to] = governance

\* What a step finds done.  The other steps are sent in every run.
Skipped(s) ==
    \/ s.do = "deploy_contract" /\ s.to \in deployed
    \/ s.do = "set_controller" /\ s.to \in controllers
    \/ s.do = "set_reporter" /\ s.to \in reporters
    \/ s.do = "add_vault_type" /\ vault_type_count > 0
    \/ s.do = "start_governance_transfer" /\ governor[s.to] = governance

-----------------------------------------------------------------------------
(* The chain: what a transaction of the operator does. *)

Target(s) ==
    CASE s.do = "set_controller" -> "con_stable_token"
      [] s.do \in {"set_reporter", "set_asset_config", "submit_price"} -> "con_oracle"
      [] s.do = "set" -> OwnerOf(s.to)
      [] OTHER -> s.to

\* Mutant: no contract asks who its governor is.
Reverts_NotGoverned(s) ==
    CASE s.do = "deploy_contract" -> s.to \in deployed
      [] s.do = "submit_price" -> operator \notin reporters
      [] OTHER -> FALSE

\* A name is deployed once, only a reporter reports, and everything else is for
\* the governor of the contract.
Reverts(s) ==
    CASE s.do = "deploy_contract" -> s.to \in deployed
      [] s.do = "submit_price" -> operator \notin reporters
      [] OTHER -> governor[Target(s)] # operator

\* A deployed contract has the operator for its governor, who is a reporter of
\* the oracle, and the fee destinations of its constructor arguments.
Takes(s) ==
    /\ deployed' = IF s.do = "deploy_contract" THEN deployed \cup {s.to} ELSE deployed
    /\ governor' = IF s.do = "deploy_contract" THEN [governor EXCEPT ![s.to] = operator]
                   ELSE governor
    /\ proposed_governor' = IF s.do = "start_governance_transfer"
                            THEN [proposed_governor EXCEPT ![s.to] = governance]
                            ELSE proposed_governor
    /\ controllers' = IF s.do = "set_controller" THEN controllers \cup {s.to} ELSE controllers
    /\ asset_configured' = (asset_configured \/ s.do = "set_asset_config")
    /\ reporters' = CASE s.do = "set_reporter" -> reporters \cup {s.to}
                       [] s = Deploy("con_oracle") -> {operator}
                       [] OTHER -> reporters
    /\ priced' = (priced \/ s.do = "submit_price")
    /\ routing' = [setting \in DOMAIN routing |->
                      IF \/ s.do = "deploy_contract" /\ s.to = OwnerOf(setting)
                         \/ s.do = "set" /\ s.to = setting
                      THEN "script" ELSE routing[setting]]
    /\ vault_type_count' = IF s.do = "add_vault_type" THEN vault_type_count + 1
                           ELSE vault_type_count

-----------------------------------------------------------------------------
(* The script. *)

Current == Steps(flags)[step]

Ends(result) ==
    /\ phase' = "idle"
    /\ outcome' = result
    /\ step' = 1
    /\ UNCHANGED flags

\* Mutant: goes one step too far.
Advances_TooFar ==
    IF step > Len(Steps(flags)) THEN Ends("completed")
    ELSE /\ phase' = "looking"
         /\ step' = step + 1
         /\ UNCHANGED <<flags, outcome>>

\* On to the next step, or out of the last one.
Advances ==
    IF step = Len(Steps(flags)) THEN Ends("completed")
    ELSE /\ phase' = "looking"
         /\ step' = step + 1
         /\ UNCHANGED <<flags, outcome>>

Init ==
    /\ deployed \in InitiallyDeployed
    /\ governor = [c \in Contracts |-> NoOne]
    /\ proposed_governor = [c \in Contracts |-> NoOne]
    /\ controllers = {}
    /\ asset_configured = FALSE
    /\ reporters = {}
    /\ priced = FALSE
    /\ routing = [setting \in {Settings[i] : i \in 1..Len(Settings)} |-> "nobody"]
    /\ vault_type_count = 0
    /\ phase = "idle"
    /\ step = 1
    /\ flags = [skip_sample_tokens |-> FALSE, start_governance_handoff |-> TRUE]
    /\ outcome = "none"
    /\ late = [s \in {} |-> 0]
    /\ faults = 0

\* The checks of main before it sends anything.
StartRun(args) ==
    /\ phase = "idle"
    /\ flags' = args
    /\ step' = 1
    /\ IF \/ ~(ChainContracts \subseteq deployed)
          \/ args.skip_sample_tokens
             /\ ~({SampleTokens[i] : i \in 1..Len(SampleTokens)} \subseteq deployed)
       THEN phase' = "idle" /\ outcome' = "failed"
       ELSE phase' = "looking" /\ outcome' = "none"
    /\ UNCHANGED <<chain, late, faults>>

Look ==
    /\ phase = "looking"
    /\ \/ Skipped(Current) /\ Advances
       \/ /\ ~Skipped(Current)
          /\ phase' = "waiting"
          /\ UNCHANGED <<step, flags, outcome>>
    /\ UNCHANGED <<chain, late, faults>>

\* The transaction the run waits for is finalized, and its receipt says what became
\* of it: _send waits for it, and a transaction without one is not modelled.
Included ==
    /\ phase = "waiting"
    /\ \/ Reverts(Current) /\ Ends("failed") /\ UNCHANGED chain
       \/ ~Reverts(Current) /\ Takes(Current) /\ Advances
    /\ UNCHANGED <<late, faults>>

\* Stopped by the operator, or by a transaction that does not reach the chain.
Stopped ==
    /\ phase # "idle"
    /\ faults < MaxFaults
    /\ faults' = faults + 1
    /\ Ends("failed")
    /\ UNCHANGED <<chain, late>>

Left(s) == [other \in DOMAIN late \cup {s} |->
               (IF other \in DOMAIN late THEN late[other] ELSE 0) + (IF other = s THEN 1 ELSE 0)]

\* Mutant: does not look whether the transaction was finalized.
GivenUp_GoesOn ==
    /\ phase = "waiting"
    /\ faults < MaxFaults
    /\ faults' = faults + 1
    /\ Advances
    /\ late' = Left(Current)
    /\ UNCHANGED chain

\* "was not finalized": the transaction is left behind.
GivenUp ==
    /\ phase = "waiting"
    /\ faults < MaxFaults
    /\ faults' = faults + 1
    /\ Ends("failed")
    /\ late' = Left(Current)
    /\ UNCHANGED chain

Without(s) == IF late[s] > 1 THEN [late EXCEPT ![s] = @ - 1]
              ELSE [other \in DOMAIN late \ {s} |-> late[other]]

\* A transaction left behind lands, with or without effect, or never does.
Lands(s) ==
    /\ \/ Reverts(s) /\ UNCHANGED chain
       \/ ~Reverts(s) /\ Takes(s)
    /\ late' = Without(s)
    /\ UNCHANGED <<script, faults>>

Drops(s) ==
    /\ late' = Without(s)
    /\ UNCHANGED <<chain, script, faults>>

-----------------------------------------------------------------------------
(* Everybody else. *)

\* A proposal of the governance contract calls accept_governance, which in the
\* oracle makes it a reporter.
Accepts(c) ==
    /\ proposed_governor[c] = governance
    /\ governor' = [governor EXCEPT ![c] = governance]
    /\ proposed_governor' = [proposed_governor EXCEPT ![c] = NoOne]
    /\ reporters' = IF c = "con_oracle" THEN reporters \cup {governance} ELSE reporters
    /\ UNCHANGED <<deployed, controllers, asset_configured, priced, routing,
                   vault_type_count, script, late, faults>>

\* The governor of a contract sets something else than the script does.
Reroutes(setting) ==
    /\ OwnerOf(setting) \in deployed
    /\ routing' = [routing EXCEPT ![setting] =
                      IF governor[OwnerOf(setting)] = governance THEN "governance" ELSE "operator"]
    /\ UNCHANGED <<deployed, governor, proposed_governor, controllers, asset_configured,
                   reporters, priced, vault_type_count, script, late, faults>>

Arguments == [skip_sample_tokens : BOOLEAN, start_governance_handoff : BOOLEAN]

Script == (\E args \in Arguments : StartRun(args)) \/ Look \/ Included \/ Stopped \/ GivenUp

Next ==
    \/ Script
    \/ \E s \in DOMAIN late : Lands(s) \/ Drops(s)
    \/ \E c \in Governed : Accepts(c)
    \/ \E setting \in Rerouted : Reroutes(setting)

Spec == Init /\ [][Next]_vars

\* A run goes on, the chain answers, and the operator keeps running the script
\* without arguments, as the deployment guide tells to, whatever else it runs.
FairSpec ==
    /\ Spec
    /\ WF_vars(Look)
    /\ WF_vars(Included)
    /\ SF_vars(StartRun([skip_sample_tokens |-> FALSE, start_governance_handoff |-> TRUE]))

-----------------------------------------------------------------------------
(* Properties. *)

StepsSent == {Steps([skip_sample_tokens |-> FALSE, start_governance_handoff |-> TRUE])[i] :
                 i \in 1..Len(Steps([skip_sample_tokens |-> FALSE,
                                     start_governance_handoff |-> TRUE]))}

\* The state a run leaves is one it can be in.
TypeOK ==
    /\ deployed \subseteq Contracts
    /\ governor \in [Contracts -> {operator, governance, NoOne}]
    /\ proposed_governor \in [Contracts -> {governance, NoOne}]
    /\ \A c \in Governed : governor[c] # NoOne <=> c \in deployed
    /\ controllers \subseteq {"con_vaults", "con_psm"}
    /\ asset_configured \in BOOLEAN
    /\ priced \in BOOLEAN
    /\ priced => operator \in reporters
    /\ routing \in [{Settings[i] : i \in 1..Len(Settings)} ->
                       {"nobody", "script", "operator", "governance"}]
    /\ vault_type_count \in Nat
    /\ phase \in {"idle", "looking", "waiting"}
    /\ step \in 1..Len(Steps(flags))
    /\ outcome \in {"none", "completed", "failed"}
    /\ DOMAIN late \subseteq StepsSent

\* A run that completes leaves a wired protocol: each contract is there, the
\* token obeys the vaults and the PSM, the oracle has its reporters and a price,
\* there is a default vault type, no fee destination is one that nobody chose,
\* and with the handoff every contract is governance's or is offered to it -
\* however many runs it took, whatever was left behind by the earlier ones and
\* has landed since, and whatever governance accepted meanwhile.
CompletedRunsWireTheProtocol ==
    [][outcome # "completed" /\ outcome' = "completed" =>
          /\ Governed \subseteq deployed'
          /\ {"con_vaults", "con_psm"} \subseteq controllers'
          /\ asset_configured'
          /\ \A i \in 1..Len(oracle_reporters) :
                /\ oracle_reporters[i] \in reporters'
                /\ oracle_reporters[i] = operator => priced'
          /\ vault_type_count' >= 1
          /\ \A setting \in DOMAIN routing :
                routing'[setting] # "nobody"
          /\ flags.start_governance_handoff =>
                \A c \in Governed : governance \in {governor'[c], proposed_governor'[c]}]_vars

\* Runs that are repeated, cut short and repeated add one default vault type;
\* a second one takes a transaction that was given up on and landed later.
OneVaultTypePerGivenUp == vault_type_count <= 1 + faults

\* What governance has accepted is its own: no run, and no transaction that was
\* sent while the operator was still the governor, changes anything of it but
\* the price, for which the operator only has to be a reporter.
AcceptedIsOutOfReach ==
    [][\A c \in Governed :
          governor[c] = governance =>
             /\ governor'[c] = governance
             /\ c = "con_stable_token" => controllers' = controllers
             /\ c = "con_oracle" => <<asset_configured, reporters>>' = <<asset_configured, reporters>>
             /\ c = "con_vaults" => vault_type_count' = vault_type_count
             /\ \A setting \in DOMAIN routing :
                   OwnerOf(setting) = c /\ routing'[setting] # routing[setting] =>
                       routing'[setting] = "governance"]_vars

\* An operator who keeps running the script gets to hand over every contract,
\* unless governance accepts one while others are not yet offered: from then on
\* every run fails at its first step on the accepted one.
RunsConverge ==
    ChainContracts \subseteq deployed ~>
       \/ \A c \in Governed : c \in deployed /\ governance \in {governor[c], proposed_governor[c]}
       \/ \E c \in Governed : governor[c] = governance

\* docs/DEPLOYMENT.md: the script "is intentionally idempotent".  A run fails
\* only for what happens to that run, never for what an earlier run has done.
OnlyFaultsFailRuns == [][phase = "waiting" /\ outcome' = "failed" => faults' # faults]_vars
=============================================================================
