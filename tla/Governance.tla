----------------------------- MODULE Governance -----------------------------
(***************************************************************************)
(* contracts/governance_harness.s.py on top of the members contract.        *)
(* Members propose a patch of the state, to be applied at a block height, or *)
(* a call of another contract.  Weights are copied when the proposal is      *)
(* made; votes are weighed by the copy, in any order, while the membership   *)
(* goes on changing; the vote that decides a proposal also carries it out.   *)
(* The calls modelled are those of the members contract, whose governor the  *)
(* governance contract may become; a call that reverts takes the vote with   *)
(* it.  Texts (summary, uri, bundle hash) and views are left out.            *)
(***************************************************************************)
EXTENDS Members

CONSTANTS ThresholdNumerator, ThresholdDenominator,     \* approval_threshold_*
          EmergencyNumerator, EmergencyDenominator,     \* emergency_threshold_*
          ProposalExpiry,           \* proposal_expiry_days, in the unit of now
          MinPatchDelay,            \* min_patch_delay_blocks
          EmergencyPatchDelay,      \* emergency_patch_delay_blocks
          PatchIds, NoPatch,
          Heights,                  \* arguments of propose_state_patch
          Calls,                    \* contract calls that are proposed
          Candidates, Weights,      \* arguments of set_member and set_member_weight
          Nominees,                 \* arguments of start_governance_transfer
          MaxProposals,             \* bound on proposal_count
          MaxTime                   \* bound on now and on every expires_at

ProposalIds == 1..MaxProposals

CallRecords == [function : {"set_member", "set_member_weight", "start_governance_transfer",
                            "accept_governance"},
                account : Users, enabled : BOOLEAN, weight : Nat]

ASSUME GovernanceAssumption ==
    /\ ThresholdNumerator \in Nat \ {0}
    /\ ThresholdDenominator \in Nat \ {0}
    /\ ThresholdNumerator <= ThresholdDenominator
    /\ EmergencyNumerator \in Nat \ {0}
    /\ EmergencyDenominator \in Nat \ {0}
    /\ EmergencyNumerator <= EmergencyDenominator
    /\ ProposalExpiry \in Nat \ {0}
    /\ MinPatchDelay \in Nat \ {0}
    /\ EmergencyPatchDelay \in Nat \ {0}
    /\ NoPatch \notin PatchIds
    /\ Heights \subseteq Nat
    /\ Calls \subseteq CallRecords
    /\ Candidates \subseteq Users
    /\ Weights \subseteq Nat
    /\ Nominees \subseteq Callers
    /\ MaxProposals \in Nat
    /\ MaxTime \in Nat

VARIABLES now, block_num,
          proposal_count,
          proposals,
          proposal_votes,           \* by <<proposal_id, account>>
          proposal_vote_counts,
          proposal_vote_weights,    \* by <<proposal_id, account>>
          patches,
          scheduled_patches         \* pairs <<activation_height, patch_id>>

chain == <<now, block_num>>
ballot_box == <<proposals, proposal_votes, proposal_vote_counts>>
patch_book == <<patches, scheduled_patches>>
vars == <<chain, proposal_count, ballot_box, proposal_vote_weights, patch_book, membership>>

-----------------------------------------------------------------------------
NoCall == [function |-> "none"]

NoProposal == [kind |-> "none", status |-> "none", expires_at |-> 0, emergency |-> FALSE,
               member_count_snapshot |-> 0, required_yes_votes |-> 0,
               total_weight_snapshot |-> 0, required_yes_weight |-> 0,
               patch_id |-> NoPatch, activation_height |-> 0, call |-> NoCall]

NoTally == [yes |-> 0, no |-> 0, yes_weight |-> 0, no_weight |-> 0]

NoPatchRecord == [proposal_id |-> 0, status |-> "none", activation_height |-> 0]

\* The harness membership exports member_weight and total_member_weight.
snapshot_member_weights == [a \in Users |-> member_weight(a)]

\* Mutant: rounds the number of votes that are needed down.
ceil_div_Floor(value, divisor) == value \div divisor
ceil_div(value, divisor) == (value + divisor - 1) \div divisor

\* The share of a total that a proposal needs.
Required(total, emergency) ==
    IF emergency THEN ceil_div(total * EmergencyNumerator, EmergencyDenominator)
    ELSE ceil_div(total * ThresholdNumerator, ThresholdDenominator)

initialize_proposal(kind, emergency) ==
    LET member_count == Cardinality(members)
        total_weight == Total(snapshot_member_weights)
    IN  [kind |-> kind, status |-> "pending", expires_at |-> now + ProposalExpiry,
         emergency |-> emergency,
         member_count_snapshot |-> member_count,
         required_yes_votes |-> Required(member_count, emergency),
         total_weight_snapshot |-> total_weight,
         required_yes_weight |-> Required(total_weight, emergency),
         patch_id |-> NoPatch, activation_height |-> 0, call |-> NoCall]

-----------------------------------------------------------------------------
(* Votes. *)

Counted(tally, support, weight) ==
    IF support
    THEN [tally EXCEPT !.yes = @ + 1, !.yes_weight = @ + weight]
    ELSE [tally EXCEPT !.no = @ + 1, !.no_weight = @ + weight]

\* Neither the weight that is left nor the heads that are left can be enough.
Lost(proposal, tally) ==
    \/ proposal.total_weight_snapshot - tally.no_weight < proposal.required_yes_weight
    \/ tally.no > proposal.member_count_snapshot - proposal.required_yes_votes

\* The status maybe_finalize leaves: an approved call is executed at once.
maybe_finalize(proposal, tally) ==
    IF tally.yes_weight >= proposal.required_yes_weight
    THEN IF proposal.kind = "state_patch" THEN "approved" ELSE "executed"
    ELSE IF Lost(proposal, tally) THEN "rejected"
    ELSE "pending"

\* The call of a proposal, made by the governance contract; disabled when the
\* target reverts.
execute_contract_call(call) ==
    \/ /\ call.function = "set_member"
       /\ set_member(governance, call.account, call.enabled, call.weight)
    \/ /\ call.function = "set_member_weight"
       /\ set_member_weight(governance, call.account, call.weight)
    \/ /\ call.function = "start_governance_transfer"
       /\ start_governance_transfer(governance, call.account)
    \/ /\ call.function = "accept_governance"
       /\ accept_governance(governance)

\* approve_proposal and its two kinds; known is the patches before the vote.
CarriedOut(proposal, status, known) ==
    \/ /\ status \in {"pending", "rejected"}
       /\ patches' = known
       /\ UNCHANGED <<scheduled_patches, membership>>
    \/ /\ status = "approved"
       /\ patches' = [known EXCEPT ![proposal.patch_id].status = "approved"]
       /\ scheduled_patches' =
             scheduled_patches \cup {<<proposal.activation_height, proposal.patch_id>>}
       /\ UNCHANGED membership
    \/ /\ status = "executed"
       /\ patches' = known
       /\ execute_contract_call(proposal.call)
       /\ UNCHANGED scheduled_patches

\* record_vote: the vote is counted and, in the same transaction, takes effect.
record_vote(caller, id, proposal, weights, tally, support, known) ==
    LET counted == Counted(tally, support, weights[<<id, caller>>])
        status == maybe_finalize(proposal, counted)
    IN  /\ proposal.status = "pending"
        /\ now < proposal.expires_at
        /\ proposal_votes[<<id, caller>>] = "none"
        /\ weights[<<id, caller>>] > 0
        /\ proposal_votes' = [proposal_votes EXCEPT
                                 ![<<id, caller>>] = IF support THEN "yes" ELSE "no"]
        /\ proposal_vote_counts' = [proposal_vote_counts EXCEPT ![id] = counted]
        /\ proposals' = [proposals EXCEPT ![id] = [proposal EXCEPT !.status = status]]
        /\ CarriedOut(proposal, status, known)

-----------------------------------------------------------------------------
Init ==
    /\ now = 0
    /\ block_num = 0
    /\ proposal_count = 0
    /\ proposals = [id \in ProposalIds |-> NoProposal]
    /\ proposal_votes = [ballot \in ProposalIds \X Users |-> "none"]
    /\ proposal_vote_counts = [id \in ProposalIds |-> NoTally]
    /\ proposal_vote_weights = [ballot \in ProposalIds \X Users |-> 0]
    /\ patches = [patch \in PatchIds |-> NoPatchRecord]
    /\ scheduled_patches = {}
    /\ MembersInit

\* A new proposal, with the weights of this moment and the proposer's vote for it.
Propose(caller, proposal, known) ==
    LET id == proposal_count + 1
        weights == [ballot \in ProposalIds \X Users |->
                       IF ballot[1] = id THEN snapshot_member_weights[ballot[2]]
                       ELSE proposal_vote_weights[ballot]]
    IN  /\ caller \in members
        /\ proposal_count < MaxProposals
        /\ proposal.expires_at <= MaxTime
        /\ proposal_count' = id
        /\ proposal_vote_weights' = weights
        /\ record_vote(caller, id, proposal, weights, NoTally, TRUE, known)
        /\ UNCHANGED chain

\* Mutant: does not look whether the patch id is taken.
propose_state_patch_Again(caller, patch_id, activation_height, emergency) ==
    LET min_delay == IF emergency THEN EmergencyPatchDelay ELSE MinPatchDelay
        known == [patches EXCEPT ![patch_id] =
                     [proposal_id |-> proposal_count + 1, status |-> "proposed",
                      activation_height |-> activation_height]]
    IN  /\ activation_height > block_num
        /\ activation_height >= block_num + min_delay
        /\ Propose(caller,
                   [initialize_proposal("state_patch", emergency) EXCEPT
                       !.patch_id = patch_id, !.activation_height = activation_height],
                   known)

\* A patch id is taken for good, also when its proposal fails.
propose_state_patch(caller, patch_id, activation_height, emergency) ==
    LET min_delay == IF emergency THEN EmergencyPatchDelay ELSE MinPatchDelay
        known == [patches EXCEPT ![patch_id] =
                     [proposal_id |-> proposal_count + 1, status |-> "proposed",
                      activation_height |-> activation_height]]
    IN  /\ patches[patch_id].proposal_id = 0
        /\ activation_height > block_num
        /\ activation_height >= block_num + min_delay
        /\ Propose(caller,
                   [initialize_proposal("state_patch", emergency) EXCEPT
                       !.patch_id = patch_id, !.activation_height = activation_height],
                   known)

propose_contract_call(caller, call) ==
    Propose(caller, [initialize_proposal("contract_call", FALSE) EXCEPT !.call = call], patches)

\* Mutant: weighs a vote by today's membership.
vote_LiveWeight(caller, id, support) ==
    /\ record_vote(caller, id, proposals[id],
                   [ballot \in ProposalIds \X Users |-> member_weight(ballot[2])],
                   proposal_vote_counts[id], support, patches)
    /\ UNCHANGED <<chain, proposal_count, proposal_vote_weights>>

vote(caller, id, support) ==
    /\ record_vote(caller, id, proposals[id], proposal_vote_weights,
                   proposal_vote_counts[id], support, patches)
    /\ UNCHANGED <<chain, proposal_count, proposal_vote_weights>>

\* Mutant: expires patches only.
expire_proposal_PatchesOnly(id) ==
    /\ proposals[id].status = "pending"
    /\ proposals[id].kind = "state_patch"
    /\ now >= proposals[id].expires_at
    /\ proposals' = [proposals EXCEPT ![id].status = "expired"]
    /\ UNCHANGED <<chain, proposal_count, proposal_votes, proposal_vote_counts,
                   proposal_vote_weights, patch_book, membership>>

\* Anybody may declare an old proposal expired.
expire_proposal(id) ==
    /\ proposals[id].status = "pending"
    /\ now >= proposals[id].expires_at
    /\ proposals' = [proposals EXCEPT ![id].status = "expired"]
    /\ UNCHANGED <<chain, proposal_count, proposal_votes, proposal_vote_counts,
                   proposal_vote_weights, patch_book, membership>>

-----------------------------------------------------------------------------
(* The members contract's own callers, and the chain. *)

MembersCall(caller) ==
    /\ \/ \E account \in Candidates, enabled \in BOOLEAN, weight \in Weights :
             set_member(caller, account, enabled, weight)
       \/ \E account \in Candidates, weight \in Weights :
             set_member_weight(caller, account, weight)
       \/ \E nominee \in Nominees : start_governance_transfer(caller, nominee)
       \/ accept_governance(caller)
    /\ UNCHANGED <<chain, proposal_count, ballot_box, proposal_vote_weights, patch_book>>

\* One block, one unit of time.
NextBlock ==
    /\ now < MaxTime
    /\ now' = now + 1
    /\ block_num' = block_num + 1
    /\ UNCHANGED <<proposal_count, ballot_box, proposal_vote_weights, patch_book, membership>>

Call(caller) ==
    \/ \E patch \in PatchIds, height \in Heights, emergency \in BOOLEAN :
          propose_state_patch(caller, patch, height, emergency)
    \/ \E call \in Calls : propose_contract_call(caller, call)
    \/ \E id \in ProposalIds, support \in BOOLEAN : vote(caller, id, support)
    \/ MembersCall(caller)

Next ==
    \/ \E caller \in Users : Call(caller)
    \/ \E id \in ProposalIds : expire_proposal(id)
    \/ NextBlock

Spec == Init /\ [][Next]_vars

\* Blocks are produced, and somebody expires a proposal that is overdue, which
\* the contract lets anybody do.  Nobody has to vote.
FairSpec == Spec /\ WF_vars(NextBlock) /\ \A id \in ProposalIds : WF_vars(expire_proposal(id))

-----------------------------------------------------------------------------
(* Properties. *)

Statuses == {"none", "pending", "approved", "executed", "rejected", "expired"}

ProposalRecords ==
    [kind : {"none", "state_patch", "contract_call"}, status : Statuses, expires_at : Nat,
     emergency : BOOLEAN, member_count_snapshot : Nat, required_yes_votes : Nat,
     total_weight_snapshot : Nat, required_yes_weight : Nat,
     patch_id : PatchIds \cup {NoPatch}, activation_height : Nat, call : Calls \cup {NoCall}]

Tallies == [yes : Nat, no : Nat, yes_weight : Nat, no_weight : Nat]

PatchRecords == [proposal_id : 0..MaxProposals, status : {"none", "proposed", "approved"},
                 activation_height : Nat]

TypeOK ==
    /\ now \in Nat
    /\ block_num \in Nat
    /\ proposal_count \in 0..MaxProposals
    /\ proposals \in [ProposalIds -> ProposalRecords]
    /\ proposal_votes \in [ProposalIds \X Users -> {"none", "yes", "no"}]
    /\ proposal_vote_counts \in [ProposalIds -> Tallies]
    /\ proposal_vote_weights \in [ProposalIds \X Users -> Nat]
    /\ patches \in [PatchIds -> PatchRecords]
    /\ scheduled_patches \subseteq Nat \X PatchIds
    /\ MembersTypeOK

\* What voters decided on a proposal, with sets instead of counters.
VotersFor(id, side) == {a \in Users : proposal_votes[<<id, a>>] = side}
SnapshotOf(id) == [a \in Users |-> proposal_vote_weights[<<id, a>>]]
OutcomeOf(status) ==
    CASE status = "pending" -> "open"
      [] status \in {"approved", "executed"} -> "passed"
      [] OTHER -> status
BallotOf(id) ==
    [weights |-> SnapshotOf(id),
     quota |-> proposals[id].required_yes_weight,
     spare_heads |-> proposals[id].member_count_snapshot - proposals[id].required_yes_votes,
     yes |-> VotersFor(id, "yes"),
     no |-> VotersFor(id, "no"),
     outcome |-> OutcomeOf(proposals[id].status)]
Ballots == [id \in ProposalIds |-> BallotOf(id)]

B == INSTANCE Ballot WITH Voters <- Users, BallotIds <- ProposalIds, ballots <- Ballots

\* The counters, the copied weights and the order of checks amount to weighted
\* ballots: the votes of distinct members of the moment of the proposal decide
\* it once and for all, whatever happens to the membership meanwhile.
ImplementsBallot == B!Spec

Passed(id) == proposals[id].status \in {"approved", "executed"}
YesWeight(id) == B!WeightOf(SnapshotOf(id), VotersFor(id, "yes"))

\* What was decided, distinct accounts with the asked share of the weight of
\* that moment asked for, to the last fraction: no rounding of the threshold and
\* no change of the membership since lets less than the share decide, and an
\* emergency patch has the emergency share.  Nothing is left pending that has it.
SharesDecide ==
    \A id \in ProposalIds :
        LET total == Total(SnapshotOf(id))
        IN  /\ Passed(id) =>
                  IF proposals[id].emergency
                  THEN YesWeight(id) * EmergencyDenominator >= EmergencyNumerator * total
                  ELSE YesWeight(id) * ThresholdDenominator >= ThresholdNumerator * total
            /\ proposals[id].status = "pending" =>
                  IF proposals[id].emergency
                  THEN YesWeight(id) * EmergencyDenominator < EmergencyNumerator * total
                  ELSE YesWeight(id) * ThresholdDenominator < ThresholdNumerator * total

\* The chain is told to apply a patch exactly when the proposal that introduced
\* it has passed, at the height it was proposed for and at no other; a patch id
\* is never used twice.
SchedulesFollowVotes ==
    /\ \A patch \in PatchIds :
          {height \in Heights : <<height, patch>> \in scheduled_patches} =
              {proposals[id].activation_height : id \in
                  {i \in ProposalIds : proposals[i].patch_id = patch /\ Passed(i)}}
    /\ \A i, j \in ProposalIds :
          proposals[i].patch_id = proposals[j].patch_id =>
              i = j \/ proposals[i].patch_id = NoPatch

\* The members change, or a governor after the present one is named.
Named == proposed_governor' \notin {proposed_governor, NoOne}
Changed == <<members, member_weights>>' # <<members, member_weights>> \/ Named

\* The step does what a call says.
AsCalled(call) ==
    CASE call.function = "set_member" -> (call.account \in members') = call.enabled
      [] call.function = "set_member_weight" -> member_weights'[call.account] = call.weight
      [] OTHER -> Named /\ proposed_governor' = call.account

\* The step is the vote that decides a proposal, and it is as that one says.
DecidedInStep(id) ==
    /\ proposals[id].status \in {"none", "pending"}
    /\ proposals'[id].status = "executed"
    /\ VotersFor(id, "yes")' # VotersFor(id, "yes")
    /\ AsCalled(proposals'[id].call)

\* Once the members contract has governance for its governor, its members and
\* their weights change, and a governor after governance is named, only in the
\* step of a vote that decides a proposal, by the call of that proposal. A call
\* that reverts leaves its proposal pending and the vote uncast.
GovernedByVotes ==
    [][governor = governance /\ Changed => \E id \in ProposalIds : DecidedInStep(id)]_vars

\* Every proposal is decided or expires, whoever votes or does not.
ProposalsAreSettled ==
    \A id \in ProposalIds : proposals[id].status = "pending" ~> proposals[id].status # "pending"
=============================================================================
