-------------------------- MODULE GovernanceProofs --------------------------
(***************************************************************************)
(* Governance, for any users, weights, thresholds, patches and calls: its   *)
(* counters amount to the ballots of module Ballot, and nothing passes       *)
(* without the asked share of the weight of its moment.                      *)
(***************************************************************************)
EXTENDS Governance, SumsProofs

\* A proposal of a patch names one.
Formed(proposal) == proposal.kind = "state_patch" => proposal.patch_id \in PatchIds

\* The counters are the votes, weighed by the copy, and the thresholds are those
\* of the copied total.
Tallied(id) ==
    /\ proposal_vote_counts[id].yes_weight = B!WeightOf(SnapshotOf(id), VotersFor(id, "yes"))
    /\ proposal_vote_counts[id].no_weight = B!WeightOf(SnapshotOf(id), VotersFor(id, "no"))
    /\ proposal_vote_counts[id].no = Cardinality(VotersFor(id, "no"))
    /\ proposals[id].total_weight_snapshot = Total(SnapshotOf(id))

\* The status is what the counters say, until the proposal expires.
Decided(id) ==
    /\ proposals[id].status # "none" =>
          proposals[id].required_yes_weight =
              Required(proposals[id].total_weight_snapshot, proposals[id].emergency)
    /\ proposals[id].status \in {"approved", "executed"} =>
          proposal_vote_counts[id].yes_weight >= proposals[id].required_yes_weight
    /\ proposals[id].status = "pending" =>
          proposal_vote_counts[id].yes_weight < proposals[id].required_yes_weight

\* A number that is not used yet has left nothing behind.
Unborn(id) ==
    /\ proposals[id] = NoProposal
    /\ proposal_vote_counts[id] = NoTally
    /\ \A a \in Users : proposal_votes[<<id, a>>] = "none" /\ proposal_vote_weights[<<id, a>>] = 0

Inv ==
    /\ TypeOK
    /\ \A id \in ProposalIds : Formed(proposals[id]) /\ Tallied(id) /\ Decided(id)
    /\ \A id \in ProposalIds : id > proposal_count => Unborn(id)

-----------------------------------------------------------------------------
(* Sums and shares. *)

LEMMA RoundedUp ==
  ASSUME NEW a \in Nat, NEW n \in Nat, NEW d \in Nat, n > 0, n <= d
  PROVE  /\ ceil_div(a * n, d) \in Nat
         /\ ceil_div(a * n, d) <= a
         /\ a > 0 => ceil_div(a * n, d) > 0
         /\ \A w \in Nat : w >= ceil_div(a * n, d) <=> w * d >= n * a
<1> DEFINE s == a * n
           q == (s + d - 1) \div d
<1>1. s \in Nat /\ s = n * a
  BY ProductOfNats
<1>2. q \in Int /\ d * q <= s + d - 1 /\ s + d - 1 < d * q + d
  BY <1>1, Floor
<1>3. s <= d * a
  <2>1. a * n <= a * d
    BY ProductMonotonic
  <2> QED
    BY <2>1
<1>4. q >= 0
  BY <1>1, QuotientAtLeast
<1>5. q <= a
  <2> SUFFICES ASSUME q >= a + 1 PROVE FALSE
    BY <1>2
  <2>1. d * (a + 1) <= d * q
    BY <1>2, ProductMonotonic
  <2>2. d * (a + 1) = d * a + d
    OBVIOUS
  <2> QED
    BY <1>1, <1>2, <1>3, <2>1, <2>2
<1>6. ASSUME a > 0 PROVE q > 0
  <2>1. n * 1 <= n * a
    BY <1>6, ProductMonotonic
  <2>2. d * 1 <= s + d - 1
    BY <1>1, <2>1
  <2> QED
    BY <1>1, <2>2, QuotientAtLeast
<1>7. ASSUME NEW w \in Nat PROVE w >= q <=> w * d >= n * a
  <2>1. w * d = d * w
    OBVIOUS
  <2>2. ASSUME w >= q PROVE d * w >= s
    <3>1. d * q <= d * w
      BY <2>2, <1>2, ProductMonotonic
    <3>2. d * w \in Int /\ d * q \in Int
      BY <1>2
    <3> QED
      BY <1>1, <1>2, <3>1, <3>2
  <2>3. ASSUME w < q PROVE d * w < s
    <3>1. d * (w + 1) <= d * q
      BY <2>3, <1>2, ProductMonotonic
    <3>2. d * (w + 1) = d * w + d
      OBVIOUS
    <3>3. d * w \in Int /\ d * q \in Int
      BY <1>2
    <3> QED
      BY <1>1, <1>2, <3>1, <3>2, <3>3
  <2> QED
    BY <1>1, <1>2, <2>1, <2>2, <2>3
<1> QED
  BY <1>2, <1>4, <1>5, <1>6, <1>7 DEF ceil_div

LEMMA RequiredShare ==
  ASSUME NEW total \in Nat, NEW emergency \in BOOLEAN
  PROVE  /\ Required(total, emergency) \in Nat
         /\ Required(total, emergency) <= total
         /\ total > 0 => Required(total, emergency) > 0
<1>1. CASE emergency
  <2>1. Required(total, emergency) = ceil_div(total * EmergencyNumerator, EmergencyDenominator)
    BY <1>1 DEF Required
  <2> QED
    BY <2>1, RoundedUp, GovernanceAssumption
<1>2. CASE ~emergency
  <2>1. Required(total, emergency) = ceil_div(total * ThresholdNumerator, ThresholdDenominator)
    BY <1>2 DEF Required
  <2> QED
    BY <2>1, RoundedUp, GovernanceAssumption
<1> QED
  BY <1>1, <1>2

\* The sums of the ballots are the sums of the contract.
LEMMA SameTotal ==
  ASSUME NEW f
  PROVE  B!Total(f) = Total(f)
<1>1. \A a, n : B!QuantaOf(a, n) = QuantaOf(a, n)
  BY DEF B!QuantaOf, QuantaOf
<1>2. B!QuantaIn(f) = QuantaIn(f)
  BY <1>1 DEF B!QuantaIn, QuantaIn
<1> QED
  BY <1>2 DEF B!Total, Total, B!Cardinality, Cardinality

LEMMA WeightType ==
  ASSUME NEW w \in [Users -> Nat], NEW voters
  PROVE  B!WeightOf(w, voters) \in Nat
  BY TotalType, SameTotal, MembersAssumption DEF B!WeightOf

LEMMA WeightOfAll ==
  ASSUME NEW w \in [Users -> Nat]
  PROVE  B!WeightOf(w, Users) = Total(w) /\ Total(w) \in Nat
<1>1. [v \in Users |-> IF v \in Users THEN w[v] ELSE 0] = w
  OBVIOUS
<1> QED
  BY <1>1, TotalType, SameTotal, MembersAssumption DEF B!WeightOf

LEMMA WeightOfNobody ==
  ASSUME NEW w
  PROVE  B!WeightOf(w, {}) = 0
<1>1. [v \in Users |-> IF v \in {} THEN w[v] ELSE 0] = [v \in Users |-> 0]
  OBVIOUS
<1> QED
  BY <1>1, TotalZero, SameTotal DEF B!WeightOf

LEMMA WeightOfOneMore ==
  ASSUME NEW w \in [Users -> Nat], NEW voters, NEW v \in Users, v \notin voters
  PROVE  B!WeightOf(w, voters \cup {v}) = B!WeightOf(w, voters) + w[v]
<1> DEFINE before == [u \in Users |-> IF u \in voters THEN w[u] ELSE 0]
           after == [u \in Users |-> IF u \in voters \cup {v} THEN w[u] ELSE 0]
<1>1. before \in [Users -> Nat] /\ before[v] = 0
  OBVIOUS
<1>2. after = [before EXCEPT ![v] = w[v]]
  OBVIOUS
<1>3. Total(after) = Total(before) + w[v] - before[v]
  BY <1>1, <1>2, TotalUpdate, MembersAssumption
<1>4. Total(before) \in Nat /\ w[v] \in Nat
  BY <1>1, TotalType, MembersAssumption
<1> QED
  BY <1>1, <1>3, <1>4, SameTotal DEF B!WeightOf
LEMMA SameCardinality ==
  ASSUME NEW S
  PROVE  B!Cardinality(S) = Cardinality(S)
  BY DEF B!Cardinality, Cardinality

\* An unused number fits the invariant.
LEMMA UnbornFits ==
  ASSUME NEW id \in ProposalIds, Unborn(id)
  PROVE  Tallied(id) /\ Decided(id) /\ Formed(proposals[id])
<1>1. VotersFor(id, "yes") = {} /\ VotersFor(id, "no") = {}
  BY DEF Unborn, VotersFor
<1>2. SnapshotOf(id) = [a \in Users |-> 0]
  BY DEF Unborn, SnapshotOf
<1>3. Total(SnapshotOf(id)) = 0 /\ Cardinality({}) = 0
  BY <1>2, TotalZero, FS_EmptySet
<1>4. Tallied(id)
  BY <1>1, <1>3, WeightOfNobody DEF Unborn, Tallied, NoProposal, NoTally
<1> QED
  BY <1>4 DEF Unborn, Decided, Formed, NoProposal

-----------------------------------------------------------------------------
(* The initial state. *)

LEMMA InitEstablishesInv == Init => Inv
<1> SUFFICES ASSUME Init PROVE Inv
  OBVIOUS
<1> USE MembersAssumption, GovernanceAssumption
<1>1. NoProposal \in ProposalRecords /\ Formed(NoProposal)
  BY DEF NoProposal, ProposalRecords, Statuses, NoCall, Formed
<1>2. NoTally \in Tallies /\ NoPatchRecord \in PatchRecords
  BY DEF NoTally, Tallies, NoPatchRecord, PatchRecords
<1>3. MembersTypeOK
  BY DEF Init, MembersInit, MembersTypeOK
<1>4. TypeOK
  BY <1>1, <1>2, <1>3 DEF Init, TypeOK
<1>5. ASSUME NEW id \in ProposalIds PROVE Unborn(id)
  BY DEF Init, Unborn
<1> QED
  BY <1>1, <1>4, <1>5, UnbornFits DEF Inv, Init
-----------------------------------------------------------------------------
(* One vote. *)

\* The proposals a step does not touch keep their ballot.
LEMMA Untouched ==
  ASSUME NEW j \in ProposalIds,
         proposals'[j] = proposals[j],
         proposal_vote_counts'[j] = proposal_vote_counts[j],
         \A a \in Users : /\ proposal_votes'[<<j, a>>] = proposal_votes[<<j, a>>]
                          /\ proposal_vote_weights'[<<j, a>>] = proposal_vote_weights[<<j, a>>]
  PROVE  /\ BallotOf(j)' = BallotOf(j)
         /\ Tallied(j) => Tallied(j)'
         /\ Decided(j) => Decided(j)'
         /\ Formed(proposals[j]) => Formed(proposals'[j])
         /\ Unborn(j) => Unborn(j)'
<1>1. SnapshotOf(j)' = SnapshotOf(j)
  BY DEF SnapshotOf
<1>2. \A side \in {"yes", "no"} : VotersFor(j, side)' = VotersFor(j, side)
  BY DEF VotersFor
<1>3. BallotOf(j)' = BallotOf(j)
  BY <1>1, <1>2 DEF BallotOf
<1>4. Tallied(j) => Tallied(j)'
  BY <1>1, <1>2 DEF Tallied
<1>5. Decided(j) => Decided(j)'
  BY DEF Decided
<1>6. Unborn(j) => Unborn(j)'
  BY DEF Unborn
<1> QED
  BY <1>3, <1>4, <1>5, <1>6

\* The status of the contract is the outcome of the ballot.
LEMMA StatusIsOutcome ==
  ASSUME NEW w \in [Users -> Nat], NEW proposal \in ProposalRecords, NEW tally \in Tallies, NEW b,
         b.weights = w,
         b.quota = proposal.required_yes_weight,
         b.spare_heads = proposal.member_count_snapshot - proposal.required_yes_votes,
         tally.yes_weight = B!WeightOf(w, b.yes),
         tally.no_weight = B!WeightOf(w, b.no),
         tally.no = Cardinality(b.no),
         proposal.total_weight_snapshot = Total(w)
  PROVE  OutcomeOf(maybe_finalize(proposal, tally)) = B!Outcome(b)
<1>1. B!WeightOf(b.weights, Users) = proposal.total_weight_snapshot
  BY WeightOfAll
<1>2. B!Cardinality(b.no) = tally.no
  BY SameCardinality
<1>3. /\ proposal.required_yes_weight \in Nat
      /\ proposal.total_weight_snapshot \in Nat
      /\ tally \in [yes : Nat, no : Nat, yes_weight : Nat, no_weight : Nat]
  BY DEF ProposalRecords, Tallies
<1>4. B!Outcome(b) =
         IF tally.yes_weight >= proposal.required_yes_weight THEN "passed"
         ELSE IF Lost(proposal, tally) THEN "rejected" ELSE "open"
  BY <1>1, <1>2 DEF B!Outcome, Lost
<1> QED
  BY <1>4 DEF maybe_finalize, OutcomeOf

\* What a counted vote leaves: counters, status and ballot in step.
VoteCounted(caller, id, proposal, w, support) ==
    /\ proposal_votes' \in [ProposalIds \X Users -> {"none", "yes", "no"}]
    /\ proposal_vote_counts' \in [ProposalIds -> Tallies]
    /\ proposals' \in [ProposalIds -> ProposalRecords]
    /\ proposals'[id].status # "none"
    /\ Tallied(id)' /\ Decided(id)' /\ Formed(proposals'[id])
    /\ SnapshotOf(id)' = w
    /\ VotersFor(id, "yes")' =
          IF support THEN VotersFor(id, "yes") \cup {caller} ELSE VotersFor(id, "yes")
    /\ VotersFor(id, "no")' =
          IF support THEN VotersFor(id, "no") ELSE VotersFor(id, "no") \cup {caller}
    /\ BallotOf(id)'.quota = proposal.required_yes_weight
    /\ BallotOf(id)'.spare_heads =
          proposal.member_count_snapshot - proposal.required_yes_votes
    /\ BallotOf(id)'.outcome = B!Outcome(BallotOf(id)')

LEMMA VoteDecides ==
  ASSUME NEW caller \in Users, NEW id \in ProposalIds, NEW proposal \in ProposalRecords,
         NEW weights \in [ProposalIds \X Users -> Nat], NEW tally \in Tallies,
         NEW support \in BOOLEAN, NEW known,
         TypeOK, Formed(proposal),
         NEW w \in [Users -> Nat], \A a \in Users : w[a] = weights[<<id, a>>],
         tally.yes_weight = B!WeightOf(w, VotersFor(id, "yes")),
         tally.no_weight = B!WeightOf(w, VotersFor(id, "no")),
         tally.no = Cardinality(VotersFor(id, "no")),
         proposal.total_weight_snapshot = Total(w),
         proposal.required_yes_weight =
            Required(proposal.total_weight_snapshot, proposal.emergency),
         proposal_vote_weights' = weights,
         record_vote(caller, id, proposal, weights, tally, support, known)
  PROVE  VoteCounted(caller, id, proposal, w, support)
<1> DEFINE yes == VotersFor(id, "yes")
           no == VotersFor(id, "no")
           counted == Counted(tally, support, weights[<<id, caller>>])
           status == maybe_finalize(proposal, counted)
           more_yes == IF support THEN yes \cup {caller} ELSE yes
           more_no == IF support THEN no ELSE no \cup {caller}
<1>1. /\ proposal_votes[<<id, caller>>] = "none"
      /\ proposal_votes' = [proposal_votes EXCEPT
                               ![<<id, caller>>] = IF support THEN "yes" ELSE "no"]
      /\ proposal_vote_counts' = [proposal_vote_counts EXCEPT ![id] = counted]
      /\ proposals' = [proposals EXCEPT ![id] = [proposal EXCEPT !.status = status]]
  BY DEF record_vote
<1>2. /\ proposal_votes \in [ProposalIds \X Users -> {"none", "yes", "no"}]
      /\ proposal_vote_counts \in [ProposalIds -> Tallies]
      /\ proposals \in [ProposalIds -> ProposalRecords]
  BY DEF TypeOK
<1>3. proposal_votes' \in [ProposalIds \X Users -> {"none", "yes", "no"}]
  BY <1>1, <1>2
<1>4. /\ yes \in SUBSET Users /\ no \in SUBSET Users
      /\ caller \notin yes \cup no
  BY <1>1 DEF VotersFor
<1>5. /\ VotersFor(id, "yes")' = more_yes
      /\ VotersFor(id, "no")' = more_no
  <2>1. \A a \in Users : proposal_votes'[<<id, a>>] =
           IF a = caller THEN IF support THEN "yes" ELSE "no" ELSE proposal_votes[<<id, a>>]
    BY <1>1, <1>2
  <2> QED
    BY <2>1, <1>1 DEF VotersFor
<1>6. SnapshotOf(id)' = w
  BY DEF SnapshotOf
<1>7. /\ counted \in Tallies
      /\ counted.yes_weight = B!WeightOf(w, more_yes)
      /\ counted.no_weight = B!WeightOf(w, more_no)
      /\ counted.no = Cardinality(more_no)
  <2>1. /\ weights[<<id, caller>>] = w[caller] /\ w[caller] \in Nat
        /\ tally \in [yes : Nat, no : Nat, yes_weight : Nat, no_weight : Nat]
        /\ tally.yes + 1 \in Nat /\ tally.no + 1 \in Nat
        /\ tally.yes_weight + w[caller] \in Nat /\ tally.no_weight + w[caller] \in Nat
    BY DEF Tallies
  <2>2. IsFiniteSet(no) /\ Cardinality(no \cup {caller}) = Cardinality(no) + 1
    BY <1>4, FS_Subset, FS_AddElement, MembersAssumption
  <2>3. /\ B!WeightOf(w, yes \cup {caller}) = B!WeightOf(w, yes) + w[caller]
        /\ B!WeightOf(w, no \cup {caller}) = B!WeightOf(w, no) + w[caller]
    BY <1>4, WeightOfOneMore
  <2>4. CASE support
    <3>1. counted = [yes |-> tally.yes + 1, no |-> tally.no,
                     yes_weight |-> tally.yes_weight + w[caller],
                     no_weight |-> tally.no_weight]
      BY <2>1, <2>4 DEF Counted
    <3>2. /\ counted \in Tallies
          /\ counted.yes_weight = tally.yes_weight + w[caller]
          /\ counted.no_weight = tally.no_weight
          /\ counted.no = tally.no
      BY <2>1, <3>1 DEF Tallies
    <3>3. more_yes = yes \cup {caller} /\ more_no = no
      BY <2>4
    <3> HIDE DEF counted, more_yes, more_no
    <3> QED
      BY <2>3, <3>2, <3>3
  <2>5. CASE ~support
    <3>1. counted = [yes |-> tally.yes, no |-> tally.no + 1,
                     yes_weight |-> tally.yes_weight,
                     no_weight |-> tally.no_weight + w[caller]]
      BY <2>1, <2>5 DEF Counted
    <3>2. /\ counted \in Tallies
          /\ counted.yes_weight = tally.yes_weight
          /\ counted.no_weight = tally.no_weight + w[caller]
          /\ counted.no = tally.no + 1
      BY <2>1, <3>1 DEF Tallies
    <3>3. more_yes = yes /\ more_no = no \cup {caller}
      BY <2>5
    <3> HIDE DEF counted, more_yes, more_no
    <3> QED
      BY <2>2, <2>3, <3>2, <3>3
  <2> QED
    BY <2>4, <2>5
<1>8. status \in Statuses \ {"none", "expired"}
  BY DEF maybe_finalize, Statuses
<1>9. /\ [proposal EXCEPT !.status = status] \in ProposalRecords
      /\ proposals'[id] = [proposal EXCEPT !.status = status]
      /\ proposals'[id].status = status
      /\ proposals'[id].required_yes_weight = proposal.required_yes_weight
      /\ proposals'[id].total_weight_snapshot = proposal.total_weight_snapshot
      /\ proposals'[id].emergency = proposal.emergency
      /\ proposals'[id].member_count_snapshot = proposal.member_count_snapshot
      /\ proposals'[id].required_yes_votes = proposal.required_yes_votes
      /\ Formed(proposals'[id])
  BY <1>1, <1>2, <1>8 DEF ProposalRecords, Formed
<1>10. /\ proposals' \in [ProposalIds -> ProposalRecords]
       /\ proposal_vote_counts' \in [ProposalIds -> Tallies]
       /\ proposal_vote_counts'[id] = counted
  BY <1>1, <1>2, <1>7, <1>9
<1>11. Tallied(id)'
  BY <1>5, <1>6, <1>7, <1>9, <1>10 DEF Tallied
<1>12. Decided(id)'
  <2>1. counted.yes_weight \in Nat /\ proposal.required_yes_weight \in Nat
    BY <1>7 DEF Tallies, ProposalRecords
  <2> QED
    BY <2>1, <1>9, <1>10 DEF Decided, maybe_finalize
<1>13. /\ BallotOf(id)'.weights = w
       /\ BallotOf(id)'.quota = proposal.required_yes_weight
       /\ BallotOf(id)'.spare_heads =
             proposal.member_count_snapshot - proposal.required_yes_votes
       /\ BallotOf(id)'.yes = more_yes
       /\ BallotOf(id)'.no = more_no
       /\ BallotOf(id)'.outcome = OutcomeOf(status)
  BY <1>5, <1>6, <1>9 DEF BallotOf
<1>14. BallotOf(id)'.outcome = B!Outcome(BallotOf(id)')
  BY <1>7, <1>13, StatusIsOutcome
<1> QED
  BY <1>3, <1>5, <1>6, <1>8, <1>9, <1>10, <1>11, <1>12, <1>13, <1>14 DEF VoteCounted
-----------------------------------------------------------------------------
(* What a decision carries out. *)

LEMMA MembersKept ==
  ASSUME MembersTypeOK, NEW caller, NEW account \in Users, NEW weight \in Nat,
         NEW enabled \in BOOLEAN,
         \/ set_member(caller, account, enabled, weight)
         \/ set_member_weight(caller, account, weight)
         \/ accept_governance(caller)
         \/ \E nominee \in Callers : start_governance_transfer(caller, nominee)
  PROVE  MembersTypeOK'
<1> USE DEF MembersTypeOK
<1>1. CASE set_member(caller, account, enabled, weight)
  <2>1. CASE weight > 0 /\ members' = members \cup {account}
               /\ member_weights' = [member_weights EXCEPT ![account] = weight]
    BY <1>1, <2>1 DEF set_member
  <2>2. CASE members' = members \ {account}
               /\ member_weights' = [member_weights EXCEPT ![account] = 0]
    BY <1>1, <2>2 DEF set_member
  <2> QED
    BY <1>1, <2>1, <2>2 DEF set_member
<1>2. CASE set_member_weight(caller, account, weight)
  BY <1>2 DEF set_member_weight
<1>3. CASE accept_governance(caller)
  BY <1>3 DEF accept_governance
<1>4. CASE \E nominee \in Callers : start_governance_transfer(caller, nominee)
  BY <1>4 DEF start_governance_transfer
<1> QED
  BY <1>1, <1>2, <1>3, <1>4

LEMMA CallKeepsMembers ==
  ASSUME MembersTypeOK, NEW call \in Calls \cup {NoCall}, execute_contract_call(call)
  PROVE  MembersTypeOK'
<1>1. call.function \in {"set_member", "set_member_weight", "start_governance_transfer",
                         "accept_governance"}
  BY DEF execute_contract_call
<1>2. call \in CallRecords
  BY <1>1, GovernanceAssumption DEF NoCall
<1>3. call.account \in Users /\ call.weight \in Nat /\ call.enabled \in BOOLEAN
  BY <1>2 DEF CallRecords
<1> QED
  BY <1>3, MembersKept DEF execute_contract_call, Callers

LEMMA CarriedOutTypes ==
  ASSUME TypeOK, NEW proposal \in ProposalRecords, Formed(proposal),
         NEW tally, NEW known \in [PatchIds -> PatchRecords],
         CarriedOut(proposal, maybe_finalize(proposal, tally), known)
  PROVE  /\ patches' \in [PatchIds -> PatchRecords]
         /\ scheduled_patches' \subseteq Nat \X PatchIds
         /\ MembersTypeOK'
<1> DEFINE status == maybe_finalize(proposal, tally)
<1>1. scheduled_patches \subseteq Nat \X PatchIds /\ MembersTypeOK
  BY DEF TypeOK
<1>2. status = "approved" => proposal.patch_id \in PatchIds
  BY DEF maybe_finalize, Formed
<1>3. /\ proposal.activation_height \in Nat
      /\ proposal.call \in Calls \cup {NoCall}
  BY DEF ProposalRecords
<1> HIDE DEF status
<1>4. CASE /\ status \in {"pending", "rejected"}
           /\ patches' = known
           /\ UNCHANGED <<scheduled_patches, membership>>
  BY <1>1, <1>4 DEF membership, MembersTypeOK
<1>5. CASE /\ status = "approved"
           /\ patches' = [known EXCEPT ![proposal.patch_id].status = "approved"]
           /\ scheduled_patches' =
                 scheduled_patches \cup {<<proposal.activation_height, proposal.patch_id>>}
           /\ UNCHANGED membership
  <2>1. MembersTypeOK'
    BY <1>1, <1>5 DEF membership, MembersTypeOK
  <2>2. patches' \in [PatchIds -> PatchRecords]
    BY <1>2, <1>5 DEF PatchRecords
  <2> QED
    BY <1>1, <1>2, <1>3, <1>5, <2>1, <2>2
<1>6. CASE /\ patches' = known
           /\ execute_contract_call(proposal.call)
           /\ UNCHANGED scheduled_patches
  BY <1>1, <1>3, <1>6, CallKeepsMembers
<1> QED
  BY <1>4, <1>5, <1>6 DEF CarriedOut, status
-----------------------------------------------------------------------------
(* The operations. *)

Implemented == Inv' /\ [B!Next]_Ballots

\* The step is about one proposal.
OnlyTouches(id) ==
    \A j \in ProposalIds \ {id} :
        /\ proposals'[j] = proposals[j]
        /\ proposal_vote_counts'[j] = proposal_vote_counts[j]
        /\ \A a \in Users : /\ proposal_votes'[<<j, a>>] = proposal_votes[<<j, a>>]
                            /\ proposal_vote_weights'[<<j, a>>] = proposal_vote_weights[<<j, a>>]

LEMMA OneProposal ==
  ASSUME Inv, NEW id \in ProposalIds, OnlyTouches(id), TypeOK',
         Tallied(id)', Decided(id)', Formed(proposals'[id]),
         proposal_count' >= proposal_count, id <= proposal_count'
  PROVE  Inv' /\ Ballots' = [Ballots EXCEPT ![id] = BallotOf(id)']
<1>1. ASSUME NEW j \in ProposalIds \ {id}
      PROVE  /\ BallotOf(j)' = BallotOf(j)
             /\ Formed(proposals'[j]) /\ Tallied(j)' /\ Decided(j)'
             /\ Unborn(j) => Unborn(j)'
  <2>1. /\ proposals'[j] = proposals[j]
        /\ proposal_vote_counts'[j] = proposal_vote_counts[j]
        /\ \A a \in Users : /\ proposal_votes'[<<j, a>>] = proposal_votes[<<j, a>>]
                            /\ proposal_vote_weights'[<<j, a>>] = proposal_vote_weights[<<j, a>>]
    BY DEF OnlyTouches
  <2>2. Formed(proposals[j]) /\ Tallied(j) /\ Decided(j)
    BY DEF Inv
  <2> QED
    BY <2>1, <2>2, Untouched
<1>2. Ballots' = [Ballots EXCEPT ![id] = BallotOf(id)']
  BY <1>1 DEF Ballots
<1>3. ASSUME NEW j \in ProposalIds, j > proposal_count'
      PROVE  Unborn(j)'
  <2>1. proposal_count \in Int /\ proposal_count' \in Int /\ j \in Int /\ id \in Int
    BY GovernanceAssumption DEF Inv, TypeOK, ProposalIds
  <2>2. j > proposal_count /\ j # id
    BY <1>3, <2>1
  <2>3. Unborn(j)
    BY <2>2 DEF Inv
  <2> QED
    BY <1>1, <2>2, <2>3
<1>4. ASSUME NEW j \in ProposalIds PROVE Formed(proposals'[j]) /\ Tallied(j)' /\ Decided(j)'
  BY <1>1
<1>5. Inv'
  BY <1>3, <1>4 DEF Inv
<1> QED
  BY <1>2, <1>5

\* What a recorded vote does to the state, for the proposal and the weights it is
\* recorded with.
Recorded(caller, id, proposal, w, support) ==
    /\ VoteCounted(caller, id, proposal, w, support)
    /\ patches' \in [PatchIds -> PatchRecords]
    /\ scheduled_patches' \subseteq Nat \X PatchIds
    /\ MembersTypeOK'

LEMMA RecordVote ==
  ASSUME NEW caller \in Users, NEW id \in ProposalIds, NEW proposal \in ProposalRecords,
         NEW weights \in [ProposalIds \X Users -> Nat], NEW tally \in Tallies,
         NEW support \in BOOLEAN, NEW known \in [PatchIds -> PatchRecords],
         TypeOK, Formed(proposal),
         NEW w \in [Users -> Nat], \A a \in Users : w[a] = weights[<<id, a>>],
         tally.yes_weight = B!WeightOf(w, VotersFor(id, "yes")),
         tally.no_weight = B!WeightOf(w, VotersFor(id, "no")),
         tally.no = Cardinality(VotersFor(id, "no")),
         proposal.total_weight_snapshot = Total(w),
         proposal.required_yes_weight =
            Required(proposal.total_weight_snapshot, proposal.emergency),
         proposal_vote_weights' = weights,
         record_vote(caller, id, proposal, weights, tally, support, known)
  PROVE  Recorded(caller, id, proposal, w, support)
<1>1. VoteCounted(caller, id, proposal, w, support)
  BY VoteDecides
<1>2. CarriedOut(proposal,
                 maybe_finalize(proposal, Counted(tally, support, weights[<<id, caller>>])),
                 known)
  BY DEF record_vote
<1>3. /\ patches' \in [PatchIds -> PatchRecords]
      /\ scheduled_patches' \subseteq Nat \X PatchIds
      /\ MembersTypeOK'
  BY <1>2, CarriedOutTypes
<1> QED
  BY <1>1, <1>3 DEF Recorded

LEMMA VoteImplemented ==
  ASSUME Inv, NEW caller \in Users, NEW id \in ProposalIds, NEW support \in BOOLEAN,
         vote(caller, id, support)
  PROVE  Implemented
<1>1. /\ TypeOK
      /\ Formed(proposals[id]) /\ Tallied(id) /\ Decided(id)
      /\ \A j \in ProposalIds : j > proposal_count => Unborn(j)
  BY DEF Inv
<1>2. /\ proposals \in [ProposalIds -> ProposalRecords]
      /\ proposal_votes \in [ProposalIds \X Users -> {"none", "yes", "no"}]
      /\ proposal_vote_counts \in [ProposalIds -> Tallies]
      /\ proposal_vote_weights \in [ProposalIds \X Users -> Nat]
      /\ patches \in [PatchIds -> PatchRecords]
      /\ proposal_count \in 0..MaxProposals
  BY <1>1 DEF TypeOK
<1>3. PICK p, t, u, k, w : /\ p = proposals[id] /\ t = proposal_vote_counts[id]
                           /\ u = proposal_vote_weights /\ k = patches /\ w = SnapshotOf(id)
  OBVIOUS
<1>4. /\ record_vote(caller, id, p, u, t, support, k)
      /\ UNCHANGED <<chain, proposal_count, proposal_vote_weights>>
  BY <1>3 DEF vote, record_vote, CarriedOut
<1>5. /\ p.status = "pending"
      /\ proposal_votes[<<id, caller>>] = "none"
      /\ u[<<id, caller>>] > 0
      /\ \E r : proposals' = [proposals EXCEPT ![id] = r]
      /\ \E r : proposal_vote_counts' = [proposal_vote_counts EXCEPT ![id] = r]
      /\ \E r : proposal_votes' = [proposal_votes EXCEPT ![<<id, caller>>] = r]
  BY <1>4 DEF record_vote
<1>6. /\ p \in ProposalRecords /\ u \in [ProposalIds \X Users -> Nat] /\ t \in Tallies
      /\ k \in [PatchIds -> PatchRecords]
      /\ Formed(p) /\ w \in [Users -> Nat] /\ \A a \in Users : w[a] = u[<<id, a>>]
  BY <1>1, <1>2, <1>3 DEF SnapshotOf
<1>7. /\ t.yes_weight = B!WeightOf(w, VotersFor(id, "yes"))
      /\ t.no_weight = B!WeightOf(w, VotersFor(id, "no"))
      /\ t.no = Cardinality(VotersFor(id, "no"))
      /\ p.total_weight_snapshot = Total(w)
      /\ p.required_yes_weight = Required(p.total_weight_snapshot, p.emergency)
      /\ proposal_vote_weights' = u
  BY <1>1, <1>3, <1>4, <1>5 DEF Tallied, Decided
<1>8. Recorded(caller, id, p, w, support)
  BY <1>1, <1>4, <1>6, <1>7, RecordVote
<1>9. VoteCounted(caller, id, p, w, support)
  BY <1>8 DEF Recorded
<1>10. OnlyTouches(id)
  BY <1>2, <1>3, <1>4, <1>5 DEF OnlyTouches
<1>11. TypeOK'
  BY <1>1, <1>2, <1>3, <1>4, <1>7, <1>8, <1>9 DEF TypeOK, Recorded, VoteCounted, chain
<1>12. id <= proposal_count /\ proposal_count' = proposal_count
  <2>1. proposals[id].status # "none"
    BY <1>3, <1>5
  <2>2. id \in Int /\ proposal_count \in Int
    BY <1>2, GovernanceAssumption DEF ProposalIds
  <2> QED
    BY <1>1, <1>4, <2>1, <2>2 DEF Unborn, NoProposal
<1>13. Inv' /\ Ballots' = [Ballots EXCEPT ![id] = BallotOf(id)']
  <2>1. Tallied(id)' /\ Decided(id)' /\ Formed(proposals'[id])
    BY <1>9 DEF VoteCounted
  <2>2. proposal_count' >= proposal_count /\ id <= proposal_count'
    BY <1>2, <1>12
  <2> QED
    BY <1>10, <1>11, <2>1, <2>2, OneProposal
<1>14. B!Cast(id, caller)
  <2> DEFINE b == BallotOf(id)
             new == BallotOf(id)'
             for == [b EXCEPT !.yes = b.yes \cup {caller}]
             against == [b EXCEPT !.no = b.no \cup {caller}]
  <2>1. /\ b = [weights |-> w, quota |-> p.required_yes_weight,
                spare_heads |-> p.member_count_snapshot - p.required_yes_votes,
                yes |-> VotersFor(id, "yes"), no |-> VotersFor(id, "no"), outcome |-> "open"]
        /\ Ballots[id] = b
    BY <1>3, <1>5 DEF BallotOf, Ballots, OutcomeOf
  <2>2. new = [weights |-> w, quota |-> p.required_yes_weight,
               spare_heads |-> p.member_count_snapshot - p.required_yes_votes,
               yes |-> IF support THEN b.yes \cup {caller} ELSE b.yes,
               no |-> IF support THEN b.no ELSE b.no \cup {caller},
               outcome |-> B!Outcome(new)]
    BY <1>9, <2>1 DEF BallotOf, VoteCounted
  <2>3. /\ b.outcome = "open"
        /\ caller \notin b.yes \cup b.no
        /\ b.weights[caller] > 0
    BY <1>5, <1>6, <2>1 DEF VotersFor
  <2>4. ASSUME support PROVE new = [for EXCEPT !.outcome = B!Outcome(for)]
    <3>1. /\ for.weights = new.weights /\ for.quota = new.quota
          /\ for.spare_heads = new.spare_heads /\ for.yes = new.yes /\ for.no = new.no
      BY <2>1, <2>2, <2>4
    <3>2. B!Outcome(for) = B!Outcome(new)
      BY <3>1 DEF B!Outcome
    <3>3. PICK o : o = B!Outcome(new)
      OBVIOUS
    <3> HIDE DEF new
    <3>4. new = [weights |-> w, quota |-> p.required_yes_weight,
                 spare_heads |-> p.member_count_snapshot - p.required_yes_votes,
                 yes |-> b.yes \cup {caller}, no |-> b.no, outcome |-> o]
      BY <2>2, <2>4, <3>3
    <3> HIDE DEF b
    <3>5. for = [weights |-> w, quota |-> p.required_yes_weight,
                 spare_heads |-> p.member_count_snapshot - p.required_yes_votes,
                 yes |-> b.yes \cup {caller}, no |-> b.no, outcome |-> "open"]
      BY <2>1
    <3> HIDE DEF for
    <3>6. [for EXCEPT !.outcome = o] = new
      BY <3>4, <3>5
    <3> QED
      BY <3>2, <3>3, <3>6
  <2>5. ASSUME ~support PROVE new = [against EXCEPT !.outcome = B!Outcome(against)]
    <3>1. /\ against.weights = new.weights /\ against.quota = new.quota
          /\ against.spare_heads = new.spare_heads
          /\ against.yes = new.yes /\ against.no = new.no
      BY <2>1, <2>2, <2>5
    <3>2. B!Outcome(against) = B!Outcome(new)
      BY <3>1 DEF B!Outcome
    <3>3. PICK o : o = B!Outcome(new)
      OBVIOUS
    <3> HIDE DEF new
    <3>4. new = [weights |-> w, quota |-> p.required_yes_weight,
                 spare_heads |-> p.member_count_snapshot - p.required_yes_votes,
                 yes |-> b.yes, no |-> b.no \cup {caller}, outcome |-> o]
      BY <2>2, <2>5, <3>3
    <3> HIDE DEF b
    <3>5. against = [weights |-> w, quota |-> p.required_yes_weight,
                 spare_heads |-> p.member_count_snapshot - p.required_yes_votes,
                 yes |-> b.yes, no |-> b.no \cup {caller}, outcome |-> "open"]
      BY <2>1
    <3> HIDE DEF against
    <3>6. [against EXCEPT !.outcome = o] = new
      BY <3>4, <3>5
    <3> QED
      BY <3>2, <3>3, <3>6
  <2> HIDE DEF b, new
  <2> QED
    BY <1>13, <2>1, <2>3, <2>4, <2>5 DEF B!Cast, new
<1> QED
  BY <1>13, <1>14 DEF Implemented, B!Next

LEMMA SnapshotType ==
  ASSUME TypeOK
  PROVE  snapshot_member_weights \in [Users -> Nat]
  BY DEF TypeOK, MembersTypeOK, snapshot_member_weights, member_weight

LEMMA ProposeImplemented ==
  ASSUME Inv, NEW caller \in Users, NEW proposal \in ProposalRecords, Formed(proposal),
         proposal.total_weight_snapshot = Total(snapshot_member_weights),
         proposal.required_yes_weight =
            Required(proposal.total_weight_snapshot, proposal.emergency),
         NEW known \in [PatchIds -> PatchRecords],
         Propose(caller, proposal, known)
  PROVE  Implemented
<1> DEFINE id == proposal_count + 1
<1>1. /\ TypeOK
      /\ \A j \in ProposalIds : j > proposal_count => Unborn(j)
  BY DEF Inv
<1>2. /\ proposals \in [ProposalIds -> ProposalRecords]
      /\ proposal_votes \in [ProposalIds \X Users -> {"none", "yes", "no"}]
      /\ proposal_vote_counts \in [ProposalIds -> Tallies]
      /\ proposal_vote_weights \in [ProposalIds \X Users -> Nat]
      /\ proposal_count \in 0..MaxProposals
  BY <1>1 DEF TypeOK
<1>3. PICK n : n = id
  OBVIOUS
<1>4. n \in ProposalIds /\ n > proposal_count /\ n \in Int
  BY <1>2, <1>3, GovernanceAssumption DEF Propose, ProposalIds
<1>5. PICK u, w : /\ w = snapshot_member_weights
                  /\ u = [ballot \in ProposalIds \X Users |->
                             IF ballot[1] = n THEN w[ballot[2]]
                             ELSE proposal_vote_weights[ballot]]
  OBVIOUS
<1>6. /\ w \in [Users -> Nat]
      /\ u \in [ProposalIds \X Users -> Nat]
      /\ \A a \in Users : w[a] = u[<<n, a>>]
      /\ \A j \in ProposalIds \ {n} : \A a \in Users :
            u[<<j, a>>] = proposal_vote_weights[<<j, a>>]
  <2>1. w \in [Users -> Nat]
    BY <1>1, <1>5, SnapshotType
  <2> QED
    BY <1>2, <1>4, <1>5, <2>1
<1>7. /\ record_vote(caller, n, proposal, u, NoTally, TRUE, known)
      /\ proposal_vote_weights' = u
      /\ proposal_count' = n
      /\ UNCHANGED chain
  BY <1>3, <1>5 DEF Propose, record_vote, CarriedOut
<1>8. /\ proposal.status = "pending"
      /\ u[<<n, caller>>] > 0
      /\ \E r : proposals' = [proposals EXCEPT ![n] = r]
      /\ \E r : proposal_vote_counts' = [proposal_vote_counts EXCEPT ![n] = r]
      /\ \E r : proposal_votes' = [proposal_votes EXCEPT ![<<n, caller>>] = r]
  BY <1>7 DEF record_vote
<1>9. Unborn(n)
  BY <1>1, <1>4
<1>10. VotersFor(n, "yes") = {} /\ VotersFor(n, "no") = {}
  BY <1>9 DEF Unborn, VotersFor
<1>11. /\ NoTally \in Tallies
       /\ NoTally.yes_weight = B!WeightOf(w, VotersFor(n, "yes"))
       /\ NoTally.no_weight = B!WeightOf(w, VotersFor(n, "no"))
       /\ NoTally.no = Cardinality(VotersFor(n, "no"))
  BY <1>10, WeightOfNobody, FS_EmptySet DEF NoTally, Tallies
<1>12. proposal.total_weight_snapshot = Total(w)
  BY <1>5
<1>13. Recorded(caller, n, proposal, w, TRUE)
  BY <1>1, <1>4, <1>6, <1>7, <1>11, <1>12, RecordVote
<1>14. VoteCounted(caller, n, proposal, w, TRUE)
  BY <1>13 DEF Recorded
<1>15. OnlyTouches(n)
  BY <1>2, <1>4, <1>6, <1>7, <1>8 DEF OnlyTouches
<1>16. TypeOK'
  <2>1. proposal_count' \in 0..MaxProposals
    BY <1>4, <1>7, GovernanceAssumption DEF ProposalIds
  <2> QED
    BY <1>1, <1>6, <1>7, <1>13, <1>14, <2>1 DEF TypeOK, Recorded, VoteCounted, chain
<1>17. Inv' /\ Ballots' = [Ballots EXCEPT ![n] = BallotOf(n)']
  <2>1. Tallied(n)' /\ Decided(n)' /\ Formed(proposals'[n])
    BY <1>14 DEF VoteCounted
  <2>2. proposal_count' >= proposal_count /\ n <= proposal_count'
    BY <1>2, <1>4, <1>7
  <2> QED
    BY <1>4, <1>15, <1>16, <2>1, <2>2, OneProposal
<1>18. B!Open(n, caller)
  <2> DEFINE new == BallotOf(n)'
  <2>1. Ballots' = [Ballots EXCEPT ![n] = new] /\ Ballots'[n] = new
    BY <1>4, <1>17 DEF Ballots
  <2>2. Ballots[n].outcome = "none"
    BY <1>4, <1>9 DEF Ballots, BallotOf, Unborn, NoProposal, OutcomeOf
  <2>3. /\ new.weights = w
        /\ new.quota = proposal.required_yes_weight
        /\ new.yes = {caller} /\ new.no = {}
        /\ new.outcome = B!Outcome(new)
    BY <1>10, <1>14 DEF VoteCounted, BallotOf
  <2>4. w[caller] > 0 /\ w[caller] <= Total(w) /\ Total(w) \in Nat /\ w[caller] \in Nat
    BY <1>6, <1>8, TotalAtLeast, TotalType, MembersAssumption
  <2>5. proposal.required_yes_weight \in 1..B!WeightOf(w, Users)
    <3>1. proposal.emergency \in BOOLEAN
      BY DEF ProposalRecords
    <3>2. Total(w) > 0 /\ B!WeightOf(w, Users) = Total(w)
      BY <1>6, <2>4, WeightOfAll
    <3>3. /\ Required(Total(w), proposal.emergency) \in Nat
          /\ Required(Total(w), proposal.emergency) <= Total(w)
          /\ Required(Total(w), proposal.emergency) > 0
      BY <2>4, <3>1, <3>2, RequiredShare
    <3> QED
      BY <1>12, <2>4, <3>2, <3>3
  <2> HIDE DEF new
  <2> QED
    BY <1>6, <2>1, <2>2, <2>3, <2>4, <2>5 DEF B!Open
<1> QED
  BY <1>4, <1>17, <1>18 DEF Implemented, B!Next

LEMMA InitialProposal ==
  ASSUME TypeOK, NEW kind \in {"state_patch", "contract_call"}, NEW emergency \in BOOLEAN
  PROVE  LET proposal == initialize_proposal(kind, emergency)
         IN  /\ proposal \in ProposalRecords
             /\ proposal.kind = kind
             /\ proposal.total_weight_snapshot = Total(snapshot_member_weights)
             /\ proposal.emergency = emergency
             /\ proposal.required_yes_weight = Required(proposal.total_weight_snapshot, emergency)
<1>1. snapshot_member_weights \in [Users -> Nat] /\ Total(snapshot_member_weights) \in Nat
  BY SnapshotType, TotalType, MembersAssumption
<1>2. Cardinality(members) \in Nat
  BY FS_Subset, FS_CardinalityType, MembersAssumption DEF TypeOK, MembersTypeOK
<1>3. /\ Required(Cardinality(members), emergency) \in Nat
      /\ Required(Total(snapshot_member_weights), emergency) \in Nat
  BY <1>1, <1>2, RequiredShare
<1>4. now + ProposalExpiry \in Nat
  BY GovernanceAssumption DEF TypeOK
<1>5. PICK c, r, s, q, x : /\ c = Cardinality(members)
                           /\ r = Required(Cardinality(members), emergency)
                           /\ s = Total(snapshot_member_weights)
                           /\ q = Required(Total(snapshot_member_weights), emergency)
                           /\ x = now + ProposalExpiry
  OBVIOUS
<1>6. initialize_proposal(kind, emergency) =
         [kind |-> kind, status |-> "pending", expires_at |-> x, emergency |-> emergency,
          member_count_snapshot |-> c, required_yes_votes |-> r, total_weight_snapshot |-> s,
          required_yes_weight |-> q, patch_id |-> NoPatch, activation_height |-> 0,
          call |-> NoCall]
  BY <1>5 DEF initialize_proposal
<1>7. PICK p : p = initialize_proposal(kind, emergency)
  OBVIOUS
<1>8. p \in ProposalRecords
  BY <1>1, <1>2, <1>3, <1>4, <1>5, <1>6, <1>7 DEF ProposalRecords, Statuses
<1>9. p.kind = kind /\ p.emergency = emergency /\ p.total_weight_snapshot = s
      /\ p.required_yes_weight = q
  BY <1>6, <1>7
<1> QED
  BY <1>5, <1>7, <1>8, <1>9

LEMMA ProposeStatePatchImplemented ==
  ASSUME Inv, NEW caller \in Users, NEW patch_id \in PatchIds, NEW height \in Heights,
         NEW emergency \in BOOLEAN, propose_state_patch(caller, patch_id, height, emergency)
  PROVE  Implemented
<1> DEFINE known == [patches EXCEPT ![patch_id] =
                        [proposal_id |-> proposal_count + 1, status |-> "proposed",
                         activation_height |-> height]]
<1>1. TypeOK
  BY DEF Inv
<1>2. PICK i : i = initialize_proposal("state_patch", emergency)
  OBVIOUS
<1>3. PICK p, k : /\ p = [i EXCEPT !.patch_id = patch_id, !.activation_height = height]
                  /\ k = known
  OBVIOUS
<1>4. Propose(caller, p, k)
  BY <1>2, <1>3 DEF propose_state_patch, Propose, record_vote, CarriedOut
<1>5. /\ i \in ProposalRecords /\ i.kind = "state_patch"
      /\ i.total_weight_snapshot = Total(snapshot_member_weights)
      /\ i.required_yes_weight = Required(i.total_weight_snapshot, i.emergency)
  BY <1>1, <1>2, InitialProposal
<1>6. /\ p \in ProposalRecords /\ p.patch_id = patch_id /\ p.kind = "state_patch"
      /\ p.total_weight_snapshot = i.total_weight_snapshot /\ p.emergency = i.emergency
      /\ p.required_yes_weight = i.required_yes_weight
  BY <1>3, <1>5, GovernanceAssumption DEF ProposalRecords
<1>7. k \in [PatchIds -> PatchRecords]
  <2>1. patches \in [PatchIds -> PatchRecords] /\ proposal_count \in 0..MaxProposals
    BY <1>1 DEF TypeOK
  <2>2. proposal_count + 1 \in 0..MaxProposals
    BY <1>4, <2>1, GovernanceAssumption DEF Propose
  <2>3. [proposal_id |-> proposal_count + 1, status |-> "proposed", activation_height |-> height]
           \in PatchRecords
    BY <2>2, GovernanceAssumption DEF PatchRecords
  <2> QED
    BY <1>3, <2>1, <2>3
<1>8. Formed(p)
  BY <1>6 DEF Formed
<1> QED
  BY <1>4, <1>5, <1>6, <1>7, <1>8, ProposeImplemented

LEMMA ProposeContractCallImplemented ==
  ASSUME Inv, NEW caller \in Users, NEW call \in Calls, propose_contract_call(caller, call)
  PROVE  Implemented
<1>1. TypeOK
  BY DEF Inv
<1>2. PICK i : i = initialize_proposal("contract_call", FALSE)
  OBVIOUS
<1>3. PICK p, k : p = [i EXCEPT !.call = call] /\ k = patches
  OBVIOUS
<1>4. Propose(caller, p, k)
  BY <1>2, <1>3 DEF propose_contract_call, Propose, record_vote, CarriedOut
<1>5. /\ i \in ProposalRecords /\ i.kind = "contract_call"
      /\ i.total_weight_snapshot = Total(snapshot_member_weights)
      /\ i.required_yes_weight = Required(i.total_weight_snapshot, i.emergency)
  BY <1>1, <1>2, InitialProposal
<1>6. /\ p \in ProposalRecords /\ p.kind = "contract_call"
      /\ p.total_weight_snapshot = i.total_weight_snapshot /\ p.emergency = i.emergency
      /\ p.required_yes_weight = i.required_yes_weight
  BY <1>3, <1>5 DEF ProposalRecords
<1>7. k \in [PatchIds -> PatchRecords] /\ Formed(p)
  BY <1>1, <1>3, <1>6 DEF TypeOK, Formed
<1> QED
  BY <1>4, <1>5, <1>6, <1>7, ProposeImplemented

LEMMA ExpireImplemented ==
  ASSUME Inv, NEW id \in ProposalIds, expire_proposal(id)
  PROVE  Implemented
<1>1. TypeOK /\ Formed(proposals[id]) /\ Tallied(id) /\ Decided(id)
  BY DEF Inv
<1>2. proposals \in [ProposalIds -> ProposalRecords]
  BY <1>1 DEF TypeOK
<1>3. /\ proposals[id].status = "pending"
      /\ proposals' = [proposals EXCEPT ![id].status = "expired"]
      /\ UNCHANGED <<chain, proposal_count, proposal_votes, proposal_vote_counts,
                     proposal_vote_weights, patch_book, membership>>
  BY DEF expire_proposal
<1>4. PICK p, q : p = proposals[id] /\ q = proposals'[id]
  OBVIOUS
<1>5. /\ q \in ProposalRecords
      /\ q.status = "expired" /\ q.kind = p.kind /\ q.patch_id = p.patch_id
      /\ q.total_weight_snapshot = p.total_weight_snapshot
      /\ q.required_yes_weight = p.required_yes_weight
      /\ q.emergency = p.emergency
      /\ q.member_count_snapshot = p.member_count_snapshot
      /\ q.required_yes_votes = p.required_yes_votes
  BY <1>2, <1>3, <1>4 DEF ProposalRecords, Statuses
<1>6. proposals' \in [ProposalIds -> ProposalRecords]
  BY <1>2, <1>3, <1>4, <1>5
<1>7. TypeOK'
  BY <1>1, <1>3, <1>6 DEF TypeOK, chain, patch_book, membership, MembersTypeOK
<1>8. SnapshotOf(id)' = SnapshotOf(id) /\ \A side : VotersFor(id, side)' = VotersFor(id, side)
  BY <1>3 DEF SnapshotOf, VotersFor
<1>9. Tallied(id)' /\ Decided(id)' /\ Formed(proposals'[id])
  BY <1>1, <1>3, <1>4, <1>5, <1>8 DEF Tallied, Decided, Formed
<1>10. OnlyTouches(id)
  BY <1>2, <1>3 DEF OnlyTouches
<1>11. proposal_count' >= proposal_count /\ id <= proposal_count'
  <2>1. Unborn(id) => proposals[id].status = "none"
    BY DEF Unborn, NoProposal
  <2>2. proposal_count \in Int /\ id \in Int
    BY <1>1, GovernanceAssumption DEF TypeOK, ProposalIds
  <2> QED
    BY <1>3, <2>1, <2>2 DEF Inv
<1>12. Inv' /\ Ballots' = [Ballots EXCEPT ![id] = BallotOf(id)']
  BY <1>7, <1>9, <1>10, <1>11, OneProposal
<1>13. B!Expire(id)
  <2>1. Ballots[id] = BallotOf(id) /\ Ballots[id].outcome = "open"
    BY <1>3 DEF Ballots, BallotOf, OutcomeOf
  <2>2. BallotOf(id)' = [BallotOf(id) EXCEPT !.outcome = "expired"]
    BY <1>4, <1>5, <1>8 DEF BallotOf, OutcomeOf
  <2> QED
    BY <1>12, <2>1, <2>2 DEF B!Expire
<1> QED
  BY <1>12, <1>13 DEF Implemented, B!Next

\* What happens beside the proposals leaves every ballot alone.
LEMMA BallotsUntouched ==
  ASSUME Inv, TypeOK', UNCHANGED <<proposal_count, ballot_box, proposal_vote_weights>>
  PROVE  Implemented
<1>1. ASSUME NEW j \in ProposalIds
      PROVE  /\ BallotOf(j)' = BallotOf(j)
             /\ Formed(proposals'[j]) /\ Tallied(j)' /\ Decided(j)'
             /\ Unborn(j) => Unborn(j)'
  <2>1. Formed(proposals[j]) /\ Tallied(j) /\ Decided(j)
    BY DEF Inv
  <2> QED
    BY <2>1, Untouched DEF ballot_box
<1>2. Ballots' = Ballots
  BY <1>1 DEF Ballots
<1>3. Inv'
  BY <1>1 DEF Inv
<1> QED
  BY <1>2, <1>3 DEF Implemented

LEMMA OthersImplemented ==
  ASSUME Inv, (\E caller \in Users : MembersCall(caller)) \/ NextBlock \/ UNCHANGED vars
  PROVE  Implemented
<1>1. TypeOK
  BY DEF Inv
<1>2. ASSUME NEW caller \in Users, MembersCall(caller) PROVE Implemented
  <2>1. MembersTypeOK'
    <3>1. MembersTypeOK /\ Users # {} /\ 0 \in Nat
      BY <1>1 DEF TypeOK
    <3>2. CASE \E account \in Candidates, enabled \in BOOLEAN, weight \in Weights :
                  set_member(caller, account, enabled, weight)
      BY <3>1, <3>2, GovernanceAssumption, MembersKept
    <3>3. CASE \E account \in Candidates, weight \in Weights :
                  set_member_weight(caller, account, weight)
      BY <3>1, <3>3, GovernanceAssumption, MembersKept
    <3>4. CASE \E nominee \in Nominees : start_governance_transfer(caller, nominee)
      BY <3>1, <3>4, GovernanceAssumption, MembersKept
    <3>5. CASE accept_governance(caller)
      BY <3>1, <3>5, MembersKept
    <3> QED
      BY <1>2, <3>2, <3>3, <3>4, <3>5 DEF MembersCall
  <2>2. UNCHANGED <<chain, proposal_count, ballot_box, proposal_vote_weights, patch_book>>
    BY <1>2 DEF MembersCall
  <2>3. TypeOK'
    BY <1>1, <2>1, <2>2 DEF TypeOK, chain, ballot_box, patch_book
  <2> QED
    BY <2>2, <2>3, BallotsUntouched
<1>3. CASE NextBlock
  <2>1. TypeOK'
    BY <1>1, <1>3 DEF NextBlock, TypeOK, ballot_box, patch_book, membership, MembersTypeOK
  <2> QED
    BY <1>3, <2>1, BallotsUntouched DEF NextBlock
<1>4. CASE UNCHANGED vars
  <2>1. TypeOK'
    BY <1>1, <1>4 DEF vars, TypeOK, chain, ballot_box, patch_book, membership, MembersTypeOK
  <2> QED
    BY <1>4, <2>1, BallotsUntouched DEF vars
<1> QED
  BY <1>2, <1>3, <1>4

LEMMA StepImplemented == Inv /\ [Next]_vars => Implemented
<1> SUFFICES ASSUME Inv, [Next]_vars PROVE Implemented
  OBVIOUS
<1>1. CASE \E caller \in Users, patch \in PatchIds, height \in Heights, emergency \in BOOLEAN :
              propose_state_patch(caller, patch, height, emergency)
  BY <1>1, ProposeStatePatchImplemented
<1>2. CASE \E caller \in Users, call \in Calls : propose_contract_call(caller, call)
  BY <1>2, ProposeContractCallImplemented
<1>3. CASE \E caller \in Users, id \in ProposalIds, support \in BOOLEAN :
              vote(caller, id, support)
  BY <1>3, VoteImplemented
<1>4. CASE \E caller \in Users : MembersCall(caller)
  BY <1>4, OthersImplemented
<1>5. CASE \E id \in ProposalIds : expire_proposal(id)
  BY <1>5, ExpireImplemented
<1>6. CASE NextBlock \/ UNCHANGED vars
  BY <1>6, OthersImplemented
<1> QED
  BY <1>1, <1>2, <1>3, <1>4, <1>5, <1>6 DEF Next, Call

-----------------------------------------------------------------------------
(* The theorems. *)

LEMMA InitImplemented ==
  ASSUME Init
  PROVE  B!Init
<1>1. ASSUME NEW id \in ProposalIds PROVE BallotOf(id) = B!NoBallot
  <2>1. Unborn(id)
    BY DEF Init, Unborn
  <2>2. VotersFor(id, "yes") = {} /\ VotersFor(id, "no") = {}
    BY <2>1 DEF Unborn, VotersFor
  <2>3. SnapshotOf(id) = [v \in Users |-> 0]
    BY <2>1 DEF Unborn, SnapshotOf
  <2> QED
    BY <2>1, <2>2, <2>3 DEF Unborn, BallotOf, B!NoBallot, NoProposal, OutcomeOf
<1> QED
  BY <1>1 DEF B!Init, Ballots

LEMMA GovernanceInvariant == Spec => []Inv
<1>1. Inv /\ [Next]_vars => Inv'
  BY StepImplemented DEF Implemented
<1> QED
  BY InitEstablishesInv, <1>1, PTL DEF Spec

\* Every number and every status is one the contract can hold, in any run.
THEOREM GovernanceTypeCorrect == Spec => []TypeOK
<1>1. Inv => TypeOK
  BY DEF Inv
<1> QED
  BY GovernanceInvariant, <1>1, PTL

\* Whatever happens to the membership, the proposals are weighted ballots of the
\* moment they were made: each vote counts once, and the outcome is never revised.
THEOREM GovernanceImplementsBallot == Spec => ImplementsBallot
<1>1. Init => B!Init
  BY InitImplemented
<1>2. Inv /\ [Next]_vars => [B!Next]_Ballots
  BY StepImplemented DEF Implemented
<1> QED
  BY GovernanceInvariant, <1>1, <1>2, PTL DEF Spec, ImplementsBallot, B!Spec

\* Nothing is decided by less than the asked share, rounded to no side, of the
\* weight of the moment of the proposal, and what has the share is decided.
THEOREM SharesAlwaysDecide == Spec => []SharesDecide
<1>1. ASSUME Inv, NEW id \in ProposalIds
      PROVE  LET total == Total(SnapshotOf(id))
             IN  /\ Passed(id) =>
                       IF proposals[id].emergency
                       THEN YesWeight(id) * EmergencyDenominator >= EmergencyNumerator * total
                       ELSE YesWeight(id) * ThresholdDenominator >= ThresholdNumerator * total
                 /\ proposals[id].status = "pending" =>
                       IF proposals[id].emergency
                       THEN YesWeight(id) * EmergencyDenominator < EmergencyNumerator * total
                       ELSE YesWeight(id) * ThresholdDenominator < ThresholdNumerator * total
  <2> DEFINE p == proposals[id]
             total == Total(SnapshotOf(id))
             yes == YesWeight(id)
             Over(n, d) == yes * d >= n * total
  <2>1. Tallied(id) /\ Decided(id) /\ TypeOK
    BY <1>1 DEF Inv
  <2>2. /\ SnapshotOf(id) \in [Users -> Nat]
        /\ p.emergency \in BOOLEAN /\ p.required_yes_weight \in Nat
    BY <2>1 DEF TypeOK, SnapshotOf, ProposalRecords
  <2>3. total \in Nat /\ yes \in Nat
    BY <2>2, TotalType, WeightType, MembersAssumption DEF YesWeight
  <2>4. yes = proposal_vote_counts[id].yes_weight
    BY <2>1 DEF Tallied, YesWeight
  <2>5. CASE p.status = "pending" \/ Passed(id)
    <3>1. p.required_yes_weight = Required(total, p.emergency)
      BY <2>1, <2>5 DEF Tallied, Decided, Passed
    <3>2. /\ Passed(id) => yes >= p.required_yes_weight
          /\ p.status = "pending" => ~(yes >= p.required_yes_weight)
      BY <2>1, <2>2, <2>3, <2>4 DEF Decided, Passed
    <3>3. yes >= p.required_yes_weight <=>
             IF p.emergency THEN Over(EmergencyNumerator, EmergencyDenominator)
             ELSE Over(ThresholdNumerator, ThresholdDenominator)
      <4> HIDE DEF yes, total, p
      <4>1. CASE p.emergency
        <5>1. p.required_yes_weight =
                 ceil_div(total * EmergencyNumerator, EmergencyDenominator)
          BY <3>1, <4>1 DEF Required
        <5> QED
          BY <2>3, <4>1, <5>1, RoundedUp, GovernanceAssumption
      <4>2. CASE ~p.emergency
        <5>1. p.required_yes_weight =
                 ceil_div(total * ThresholdNumerator, ThresholdDenominator)
          BY <3>1, <4>2 DEF Required
        <5> QED
          BY <2>3, <4>2, <5>1, RoundedUp, GovernanceAssumption
      <4> QED
        BY <4>1, <4>2
    <3>4. /\ yes * EmergencyDenominator \in Nat /\ EmergencyNumerator * total \in Nat
          /\ yes * ThresholdDenominator \in Nat /\ ThresholdNumerator * total \in Nat
      <4>1. /\ EmergencyDenominator \in Nat /\ EmergencyNumerator \in Nat
            /\ ThresholdDenominator \in Nat /\ ThresholdNumerator \in Nat
        BY GovernanceAssumption
      <4>2. yes * EmergencyDenominator \in Nat /\ yes * ThresholdDenominator \in Nat
        BY <2>3, <4>1, ProductOfNats
      <4>3. EmergencyNumerator * total \in Nat /\ ThresholdNumerator * total \in Nat
        BY <2>3, <4>1, ProductOfNats
      <4> QED
        BY <4>2, <4>3
    <3>5. /\ ~Over(EmergencyNumerator, EmergencyDenominator)
                => yes * EmergencyDenominator < EmergencyNumerator * total
          /\ ~Over(ThresholdNumerator, ThresholdDenominator)
                => yes * ThresholdDenominator < ThresholdNumerator * total
      BY <3>4
    <3> QED
      BY <3>2, <3>3, <3>5
  <2>6. CASE ~(p.status = "pending" \/ Passed(id))
    BY <2>6
  <2> QED
    BY <2>5, <2>6
<1>2. Inv => SharesDecide
  BY <1>1 DEF SharesDecide
<1> QED
  BY GovernanceInvariant, <1>2, PTL

-----------------------------------------------------------------------------
(* Who changes the membership. *)

LEMMA CallDoesWhatItSays ==
  ASSUME MembersTypeOK, NEW call \in Calls \cup {NoCall}, execute_contract_call(call), Changed
  PROVE  AsCalled(call)
<1>1. call.function \in {"set_member", "set_member_weight", "start_governance_transfer",
                         "accept_governance"}
  BY DEF execute_contract_call
<1>2. call \in CallRecords
  BY <1>1, GovernanceAssumption DEF NoCall
<1>3. call.account \in Users /\ call.weight \in Nat /\ call.enabled \in BOOLEAN
  BY <1>2 DEF CallRecords
<1>4. CASE call.function = "set_member"
  <2>1. set_member(governance, call.account, call.enabled, call.weight)
    BY <1>4 DEF execute_contract_call
  <2>2. call.account \in members' <=> call.enabled
    BY <2>1 DEF set_member
  <2> QED
    BY <1>3, <1>4, <2>2 DEF AsCalled
<1>5. CASE call.function = "set_member_weight"
  <2>1. set_member_weight(governance, call.account, call.weight)
    BY <1>5 DEF execute_contract_call
  <2> QED
    BY <1>3, <1>5, <2>1 DEF set_member_weight, MembersTypeOK, AsCalled
<1>6. CASE call.function = "start_governance_transfer"
  <2>1. start_governance_transfer(governance, call.account)
    BY <1>6 DEF execute_contract_call
  <2> QED
    BY <1>6, <2>1 DEF start_governance_transfer, Changed, AsCalled
<1>7. CASE call.function = "accept_governance"
  <2>1. accept_governance(governance)
    BY <1>7 DEF execute_contract_call
  <2> QED
    BY <2>1 DEF accept_governance, Changed, Named
<1> QED
  BY <1>1, <1>4, <1>5, <1>6, <1>7

LEMMA VoteThatChanges ==
  ASSUME TypeOK, NEW id \in ProposalIds, NEW caller \in Users, NEW support \in BOOLEAN,
         NEW proposal \in ProposalRecords, NEW weights, NEW tally \in Tallies, NEW known,
         record_vote(caller, id, proposal, weights, tally, support, known),
         proposals[id].status \in {"none", "pending"},
         support \/ tally.yes_weight < proposal.required_yes_weight,
         Changed
  PROVE  DecidedInStep(id)
<1> DEFINE counted == Counted(tally, support, weights[<<id, caller>>])
           status == maybe_finalize(proposal, counted)
<1>1. CarriedOut(proposal, status, known)
  BY DEF record_vote
<1>2. status = "executed" /\ execute_contract_call(proposal.call)
  <2> HIDE DEF status
  <2>1. ~UNCHANGED membership
    BY DEF Changed, Named, membership
  <2> QED
    BY <1>1, <2>1 DEF CarriedOut
<1>3. proposals'[id].status = "executed" /\ proposals'[id].call = proposal.call
  <2>1. proposals' = [proposals EXCEPT ![id] = [proposal EXCEPT !.status = status]]
    BY DEF record_vote
  <2>2. proposals \in [ProposalIds -> ProposalRecords]
    BY DEF TypeOK
  <2> QED
    BY <1>2, <2>1, <2>2 DEF ProposalRecords
<1>4. support
  <2> SUFFICES ASSUME ~support PROVE FALSE
    OBVIOUS
  <2>1. counted.yes_weight = tally.yes_weight
    BY DEF Counted, Tallies
  <2>2. tally.yes_weight \in Nat /\ proposal.required_yes_weight \in Nat
    BY DEF Tallies, ProposalRecords
  <2>3. ~(counted.yes_weight >= proposal.required_yes_weight)
    BY <2>1, <2>2
  <2> QED
    BY <1>2, <2>3 DEF maybe_finalize
<1>5. VotersFor(id, "yes")' # VotersFor(id, "yes")
  <2>1. /\ proposal_votes[<<id, caller>>] = "none"
        /\ proposal_votes' = [proposal_votes EXCEPT ![<<id, caller>>] = "yes"]
    BY <1>4 DEF record_vote
  <2>2. proposal_votes'[<<id, caller>>] = "yes"
    BY <2>1 DEF TypeOK
  <2>3. caller \in VotersFor(id, "yes")' /\ caller \notin VotersFor(id, "yes")
    BY <2>1, <2>2 DEF VotersFor
  <2> QED
    BY <2>3
<1>6. MembersTypeOK /\ proposal.call \in Calls \cup {NoCall}
  BY DEF TypeOK, ProposalRecords
<1>7. PICK call : call = proposal.call
  OBVIOUS
<1>8. AsCalled(call)
  BY <1>2, <1>6, <1>7, CallDoesWhatItSays
<1> QED
  BY <1>2, <1>3, <1>5, <1>7, <1>8 DEF DecidedInStep

LEMMA StepGoverned ==
  ASSUME Inv, Next, governor = governance, Changed
  PROVE  \E id \in ProposalIds : DecidedInStep(id)
<1>1. TypeOK
  BY DEF Inv
<1>2. ~UNCHANGED membership
  BY DEF Changed, Named, membership
<1>3. ASSUME NEW caller \in Users, NEW id \in ProposalIds, NEW support \in BOOLEAN,
             vote(caller, id, support)
      PROVE  DecidedInStep(id)
  <2>1. PICK p, t, u, k : /\ p = proposals[id] /\ t = proposal_vote_counts[id]
                          /\ u = proposal_vote_weights /\ k = patches
    OBVIOUS
  <2>2. record_vote(caller, id, p, u, t, support, k)
    BY <1>3, <2>1 DEF vote, record_vote, CarriedOut
  <2>3. p.status = "pending"
    BY <2>2 DEF record_vote
  <2>4. p \in ProposalRecords /\ t \in Tallies
    BY <1>1, <2>1 DEF TypeOK
  <2>5. t.yes_weight < p.required_yes_weight
    BY <2>1, <2>3 DEF Inv, Decided
  <2>6. proposals[id].status \in {"none", "pending"}
    BY <2>1, <2>3
  <2> QED
    BY <1>1, <2>2, <2>4, <2>5, <2>6, VoteThatChanges
<1>4. ASSUME NEW caller \in Users, NEW p \in ProposalRecords, NEW k, Propose(caller, p, k)
      PROVE  \E id \in ProposalIds : DecidedInStep(id)
  <2>1. PICK n, u : /\ n = proposal_count + 1
                    /\ record_vote(caller, n, p, u, NoTally, TRUE, k)
    BY <1>4 DEF Propose
  <2>2. n \in ProposalIds /\ n > proposal_count
    BY <1>1, <1>4, <2>1, GovernanceAssumption DEF Propose, TypeOK, ProposalIds
  <2>3. proposals[n].status = "none"
    BY <2>2 DEF Inv, Unborn, NoProposal
  <2>4. NoTally \in Tallies
    BY DEF NoTally, Tallies
  <2>5. proposals[n].status \in {"none", "pending"} /\ TRUE \in BOOLEAN
    BY <2>3
  <2> QED
    BY <1>1, <2>1, <2>2, <2>4, <2>5, VoteThatChanges
<1>5. ASSUME NEW caller \in Users, NEW patch \in PatchIds, NEW height \in Heights,
             NEW emergency \in BOOLEAN, propose_state_patch(caller, patch, height, emergency)
      PROVE  \E id \in ProposalIds : DecidedInStep(id)
  <2>1. PICK i : i = initialize_proposal("state_patch", emergency)
    OBVIOUS
  <2>2. PICK p, k : /\ p = [i EXCEPT !.patch_id = patch, !.activation_height = height]
                    /\ Propose(caller, p, k)
    BY <1>5, <2>1 DEF propose_state_patch, Propose, record_vote, CarriedOut
  <2>3. i \in ProposalRecords
    BY <1>1, <2>1, InitialProposal
  <2>4. p \in ProposalRecords
    BY <2>2, <2>3, GovernanceAssumption DEF ProposalRecords
  <2> QED
    BY <1>4, <2>2, <2>4
<1>6. ASSUME NEW caller \in Users, NEW call \in Calls, propose_contract_call(caller, call)
      PROVE  \E id \in ProposalIds : DecidedInStep(id)
  <2>1. PICK i : i = initialize_proposal("contract_call", FALSE)
    OBVIOUS
  <2>2. PICK p, k : p = [i EXCEPT !.call = call] /\ Propose(caller, p, k)
    BY <1>6, <2>1 DEF propose_contract_call, Propose, record_vote, CarriedOut
  <2>3. i \in ProposalRecords
    BY <1>1, <2>1, InitialProposal
  <2>4. p \in ProposalRecords
    BY <2>2, <2>3 DEF ProposalRecords
  <2> QED
    BY <1>4, <2>2, <2>4
<1>7. ASSUME NEW caller \in Users, MembersCall(caller) PROVE FALSE
  <2>1. caller # governor
    BY MembersAssumption
  <2>2. CASE accept_governance(caller)
    BY <2>2 DEF accept_governance, Changed, Named
  <2> QED
    BY <1>7, <2>1, <2>2 DEF MembersCall, set_member, set_member_weight,
                            start_governance_transfer
<1>8. ~(NextBlock \/ \E id \in ProposalIds : expire_proposal(id))
  BY <1>2 DEF NextBlock, expire_proposal
<1> QED
  BY <1>3, <1>5, <1>6, <1>7, <1>8 DEF Next, Call

\* Once governance is the governor of the members contract, only decided
\* proposals change it.
THEOREM MembershipIsGovernedByVotes == Spec => GovernedByVotes
<1>1. Inv /\ [Next]_vars =>
        [governor = governance /\ Changed => \E id \in ProposalIds : DecidedInStep(id)]_vars
  BY StepGoverned
<1> QED
  BY GovernanceInvariant, <1>1, PTL DEF Spec, GovernedByVotes

-----------------------------------------------------------------------------
(* What the chain is told about patches. *)

\* A proposal that names a patch is a patch proposal for one of the heights, and
\* the patch belongs to it.
Placed(id) ==
    proposals[id].patch_id \in PatchIds =>
        /\ proposals[id].kind = "state_patch"
        /\ proposals[id].activation_height \in Heights
        /\ patches[proposals[id].patch_id].proposal_id = id

\* A pair is scheduled if and only if the proposal of that patch, for that
\* height, has passed.
Told ==
    \A patch \in PatchIds, height \in Nat :
        <<height, patch>> \in scheduled_patches <=>
            \E id \in ProposalIds : /\ proposals[id].patch_id = patch
                                    /\ proposals[id].activation_height = height
                                    /\ Passed(id)

PatchInv == Told /\ \A id \in ProposalIds : Placed(id)

\* The vote on a proposal that has not passed yet.
LEMMA VoteTells ==
  ASSUME Inv, PatchInv, NEW caller \in Users, NEW id \in ProposalIds,
         NEW proposal \in ProposalRecords, Formed(proposal), NEW weights, NEW tally,
         NEW support, NEW known \in [PatchIds -> PatchRecords],
         record_vote(caller, id, proposal, weights, tally, support, known),
         proposals[id].status \in {"none", "pending"},
         proposal.patch_id \in PatchIds =>
            /\ proposal.kind = "state_patch"
            /\ proposal.activation_height \in Heights
            /\ known[proposal.patch_id].proposal_id = id,
         \A j \in ProposalIds \ {id} :
            proposals[j].patch_id \in PatchIds => known[proposals[j].patch_id].proposal_id = j
  PROVE  PatchInv'
<1>1. PICK status : /\ status = maybe_finalize(proposal,
                                               Counted(tally, support, weights[<<id, caller>>]))
                    /\ proposals' = [proposals EXCEPT ![id] = [proposal EXCEPT !.status = status]]
                    /\ CarriedOut(proposal, status, known)
  BY DEF record_vote
<1>2. proposals \in [ProposalIds -> ProposalRecords]
  BY DEF Inv, TypeOK
<1>3. /\ proposals'[id].patch_id = proposal.patch_id
      /\ proposals'[id].kind = proposal.kind
      /\ proposals'[id].activation_height = proposal.activation_height
      /\ proposals'[id].status = status
      /\ \A j \in ProposalIds \ {id} : proposals'[j] = proposals[j]
  BY <1>1, <1>2 DEF ProposalRecords
<1>4. /\ status = "approved" => proposal.patch_id \in PatchIds
      /\ status = "executed" => proposal.patch_id \notin PatchIds
  BY <1>1 DEF maybe_finalize, Formed
<1>5. \A patch \in PatchIds : patches'[patch].proposal_id = known[patch].proposal_id
  <2>1. CASE patches' = known
    BY <2>1
  <2>2. CASE status = "approved" /\ patches' = [known EXCEPT ![proposal.patch_id].status = "approved"]
    BY <2>2 DEF PatchRecords
  <2> QED
    BY <1>1, <2>1, <2>2 DEF CarriedOut
<1>6. ASSUME NEW j \in ProposalIds PROVE Placed(j)'
  <2>1. CASE j = id
    BY <1>3, <1>5, <2>1 DEF Placed
  <2>2. CASE j # id
    <3>1. Placed(j) /\ proposals'[j] = proposals[j]
      BY <1>3, <2>2 DEF PatchInv
    <3> QED
      BY <1>5, <2>2, <3>1 DEF Placed
  <2> QED
    BY <2>1, <2>2
<1>7. ASSUME NEW patch \in PatchIds, NEW height \in Nat
      PROVE  <<height, patch>> \in scheduled_patches' <=>
                \E j \in ProposalIds : /\ proposals'[j].patch_id = patch
                                       /\ proposals'[j].activation_height = height
                                       /\ Passed(j)'
  <2> DEFINE Says(j) == /\ proposals[j].patch_id = patch
                        /\ proposals[j].activation_height = height
                        /\ Passed(j)
             SaysNow(j) == /\ proposals'[j].patch_id = patch
                           /\ proposals'[j].activation_height = height
                           /\ Passed(j)'
             Added == /\ status = "approved"
                      /\ height = proposal.activation_height
                      /\ patch = proposal.patch_id
  <2>1. <<height, patch>> \in scheduled_patches <=> \E j \in ProposalIds : Says(j)
    BY DEF PatchInv, Told
  <2>2. <<height, patch>> \in scheduled_patches' <=> <<height, patch>> \in scheduled_patches \/ Added
    BY <1>1 DEF CarriedOut
  <2>3. \A j \in ProposalIds \ {id} : SaysNow(j) <=> Says(j)
    BY <1>3 DEF Passed
  <2>4. ~Says(id)
    BY DEF Passed
  <2>5. SaysNow(id) <=> Added
    BY <1>3, <1>4 DEF Passed
  <2> HIDE DEF Says, SaysNow, Added
  <2>6. (\E j \in ProposalIds : SaysNow(j)) <=> (\E j \in ProposalIds : Says(j)) \/ Added
    BY <2>3, <2>4, <2>5
  <2> QED
    BY <2>1, <2>2, <2>6 DEF SaysNow
<1>8. Told'
  BY <1>7 DEF Told
<1> QED
  BY <1>6, <1>8 DEF PatchInv

\* A new proposal, whose patch nobody has named before.
LEMMA ProposeTells ==
  ASSUME Inv, PatchInv, NEW caller \in Users, NEW proposal \in ProposalRecords,
         Formed(proposal), NEW known \in [PatchIds -> PatchRecords],
         Propose(caller, proposal, known),
         proposal.patch_id \in PatchIds =>
            /\ proposal.kind = "state_patch"
            /\ proposal.activation_height \in Heights
            /\ known[proposal.patch_id].proposal_id = proposal_count + 1,
         \A j \in ProposalIds :
            proposals[j].patch_id \in PatchIds => known[proposals[j].patch_id].proposal_id = j
  PROVE  PatchInv'
<1>1. PICK n, u : /\ n = proposal_count + 1
                  /\ record_vote(caller, n, proposal, u, NoTally, TRUE, known)
  BY DEF Propose
<1>2. n \in ProposalIds /\ n > proposal_count
  BY <1>1, GovernanceAssumption DEF Inv, Propose, TypeOK, ProposalIds
<1>3. proposals[n].status = "none"
  BY <1>2 DEF Inv, Unborn, NoProposal
<1>4. \A j \in ProposalIds \ {n} :
         proposals[j].patch_id \in PatchIds => known[proposals[j].patch_id].proposal_id = j
  OBVIOUS
<1>5. proposals[n].status \in {"none", "pending"}
  BY <1>3
<1> QED
  BY <1>1, <1>2, <1>4, <1>5, VoteTells

LEMMA ProposeStatePatchTells ==
  ASSUME Inv, PatchInv, NEW caller \in Users, NEW patch_id \in PatchIds, NEW height \in Heights,
         NEW emergency \in BOOLEAN, propose_state_patch(caller, patch_id, height, emergency)
  PROVE  PatchInv'
<1>1. TypeOK
  BY DEF Inv
<1>2. PICK i : i = initialize_proposal("state_patch", emergency)
  OBVIOUS
<1>3. PICK p, k : /\ p = [i EXCEPT !.patch_id = patch_id, !.activation_height = height]
                  /\ k = [patches EXCEPT ![patch_id] =
                             [proposal_id |-> proposal_count + 1, status |-> "proposed",
                              activation_height |-> height]]
  OBVIOUS
<1>4. Propose(caller, p, k) /\ patches[patch_id].proposal_id = 0
  BY <1>2, <1>3 DEF propose_state_patch, Propose, record_vote, CarriedOut
<1>5. i \in ProposalRecords /\ i.kind = "state_patch"
  BY <1>1, <1>2, InitialProposal
<1>6. /\ p \in ProposalRecords /\ p.patch_id = patch_id /\ p.kind = "state_patch"
      /\ p.activation_height = height
  BY <1>3, <1>5, GovernanceAssumption DEF ProposalRecords
<1>7. /\ k \in [PatchIds -> PatchRecords]
      /\ k[patch_id].proposal_id = proposal_count + 1
      /\ \A q \in PatchIds \ {patch_id} : k[q] = patches[q]
  <2>1. patches \in [PatchIds -> PatchRecords] /\ proposal_count \in 0..MaxProposals
    BY <1>1 DEF TypeOK
  <2>2. proposal_count + 1 \in 0..MaxProposals
    BY <1>4, <2>1, GovernanceAssumption DEF Propose
  <2>3. [proposal_id |-> proposal_count + 1, status |-> "proposed", activation_height |-> height]
           \in PatchRecords
    BY <2>2, GovernanceAssumption DEF PatchRecords
  <2> QED
    BY <1>3, <2>1, <2>3
<1>8. ASSUME NEW j \in ProposalIds, proposals[j].patch_id \in PatchIds
      PROVE  k[proposals[j].patch_id].proposal_id = j
  <2>1. patches[proposals[j].patch_id].proposal_id = j
    BY <1>8 DEF PatchInv, Placed
  <2>2. j # 0
    BY GovernanceAssumption DEF ProposalIds
  <2>3. proposals[j].patch_id # patch_id
    BY <1>4, <2>1, <2>2
  <2> QED
    BY <1>7, <1>8, <2>1, <2>3
<1>9. Formed(p)
  BY <1>6 DEF Formed
<1> QED
  BY <1>4, <1>6, <1>7, <1>8, <1>9, ProposeTells

LEMMA ProposeContractCallTells ==
  ASSUME Inv, PatchInv, NEW caller \in Users, NEW call \in Calls,
         propose_contract_call(caller, call)
  PROVE  PatchInv'
<1>1. TypeOK
  BY DEF Inv
<1>2. PICK i : i = initialize_proposal("contract_call", FALSE)
  OBVIOUS
<1>3. PICK p, k : p = [i EXCEPT !.call = call] /\ k = patches
  OBVIOUS
<1>4. Propose(caller, p, k)
  BY <1>2, <1>3 DEF propose_contract_call, Propose, record_vote, CarriedOut
<1>5. i \in ProposalRecords /\ i.kind = "contract_call" /\ i.patch_id = NoPatch
  <2>1. i \in ProposalRecords /\ i.kind = "contract_call"
    BY <1>1, <1>2, InitialProposal
  <2>2. i.patch_id = NoPatch
    BY <1>2 DEF initialize_proposal
  <2> QED
    BY <2>1, <2>2
<1>6. p \in ProposalRecords /\ p.kind = "contract_call" /\ p.patch_id \notin PatchIds
  BY <1>3, <1>5, GovernanceAssumption DEF ProposalRecords
<1>7. k \in [PatchIds -> PatchRecords] /\ Formed(p)
  BY <1>1, <1>3, <1>6 DEF TypeOK, Formed
<1>8. \A j \in ProposalIds :
         proposals[j].patch_id \in PatchIds => k[proposals[j].patch_id].proposal_id = j
  BY <1>3 DEF PatchInv, Placed
<1> QED
  BY <1>4, <1>6, <1>7, <1>8, ProposeTells

LEMMA VoteOnProposalTells ==
  ASSUME Inv, PatchInv, NEW caller \in Users, NEW id \in ProposalIds, NEW support \in BOOLEAN,
         vote(caller, id, support)
  PROVE  PatchInv'
<1>1. TypeOK /\ Formed(proposals[id]) /\ Placed(id)
  BY DEF Inv, PatchInv
<1>2. PICK p, t, u, k : /\ p = proposals[id] /\ t = proposal_vote_counts[id]
                        /\ u = proposal_vote_weights /\ k = patches
  OBVIOUS
<1>3. record_vote(caller, id, p, u, t, support, k)
  BY <1>2 DEF vote, record_vote, CarriedOut
<1>4. p.status = "pending"
  BY <1>3 DEF record_vote
<1>5. p \in ProposalRecords /\ k \in [PatchIds -> PatchRecords] /\ Formed(p)
  BY <1>1, <1>2 DEF TypeOK
<1>6. proposals[id].status \in {"none", "pending"}
  BY <1>2, <1>4
<1>7. p.patch_id \in PatchIds =>
         /\ p.kind = "state_patch"
         /\ p.activation_height \in Heights
         /\ k[p.patch_id].proposal_id = id
  BY <1>1, <1>2 DEF Placed
<1>8. \A j \in ProposalIds \ {id} :
         proposals[j].patch_id \in PatchIds => k[proposals[j].patch_id].proposal_id = j
  BY <1>2 DEF PatchInv, Placed
<1> QED
  BY <1>3, <1>5, <1>6, <1>7, <1>8, VoteTells

\* No other step lets a proposal pass or touches the patches.
LEMMA NothingToTell ==
  ASSUME PatchInv, UNCHANGED patch_book,
         \A id \in ProposalIds :
            /\ proposals'[id].patch_id = proposals[id].patch_id
            /\ proposals'[id].kind = proposals[id].kind
            /\ proposals'[id].activation_height = proposals[id].activation_height
            /\ Passed(id)' <=> Passed(id)
  PROVE  PatchInv'
<1>1. \A id \in ProposalIds : Placed(id)'
  BY DEF PatchInv, Placed, patch_book
<1>2. ASSUME NEW patch \in PatchIds, NEW height \in Nat
      PROVE  <<height, patch>> \in scheduled_patches' <=>
                \E id \in ProposalIds : /\ proposals'[id].patch_id = patch
                                        /\ proposals'[id].activation_height = height
                                        /\ Passed(id)'
  <2>1. scheduled_patches' = scheduled_patches
    BY DEF patch_book
  <2>2. <<height, patch>> \in scheduled_patches <=>
           \E id \in ProposalIds : /\ proposals[id].patch_id = patch
                                   /\ proposals[id].activation_height = height
                                   /\ Passed(id)
    BY DEF PatchInv, Told
  <2> QED
    BY <2>1, <2>2
<1>3. Told'
  BY <1>2 DEF Told
<1> QED
  BY <1>1, <1>3 DEF PatchInv

LEMMA StepTells == Inv /\ PatchInv /\ [Next]_vars => PatchInv'
<1> SUFFICES ASSUME Inv, PatchInv, [Next]_vars PROVE PatchInv'
  OBVIOUS
<1>1. CASE \E caller \in Users, patch \in PatchIds, height \in Heights, emergency \in BOOLEAN :
              propose_state_patch(caller, patch, height, emergency)
  BY <1>1, ProposeStatePatchTells
<1>2. CASE \E caller \in Users, call \in Calls : propose_contract_call(caller, call)
  BY <1>2, ProposeContractCallTells
<1>3. CASE \E caller \in Users, id \in ProposalIds, support \in BOOLEAN :
              vote(caller, id, support)
  BY <1>3, VoteOnProposalTells
<1>4. ASSUME NEW id \in ProposalIds, expire_proposal(id) PROVE PatchInv'
  <2>1. /\ proposals[id].status = "pending"
        /\ proposals' = [proposals EXCEPT ![id].status = "expired"]
        /\ UNCHANGED patch_book
        /\ proposals \in [ProposalIds -> ProposalRecords]
    BY <1>4 DEF expire_proposal, Inv, TypeOK
  <2>2. ASSUME NEW j \in ProposalIds
        PROVE  /\ proposals'[j].patch_id = proposals[j].patch_id
               /\ proposals'[j].kind = proposals[j].kind
               /\ proposals'[j].activation_height = proposals[j].activation_height
               /\ Passed(j)' <=> Passed(j)
    <3>1. CASE j = id
      BY <2>1, <3>1 DEF ProposalRecords, Passed
    <3>2. CASE j # id
      BY <2>1, <3>2 DEF Passed
    <3> QED
      BY <3>1, <3>2
  <2> QED
    BY <2>1, <2>2, NothingToTell
<1>5. CASE UNCHANGED <<proposals, patch_book>>
  BY <1>5, NothingToTell DEF Passed
<1>6. (\E caller \in Users : MembersCall(caller)) \/ NextBlock \/ UNCHANGED vars
         => UNCHANGED <<proposals, patch_book>>
  BY DEF MembersCall, NextBlock, vars, ballot_box
<1> QED
  BY <1>1, <1>2, <1>3, <1>4, <1>5, <1>6 DEF Next, Call

LEMMA PatchesInvariant == Spec => []PatchInv
<1>1. Init => PatchInv
  BY GovernanceAssumption DEF Init, PatchInv, Told, Placed, Passed, NoProposal
<1>2. Inv /\ PatchInv /\ [Next]_vars => PatchInv'
  BY StepTells
<1> QED
  BY GovernanceInvariant, <1>1, <1>2, PTL DEF Spec

\* The chain is told to apply a patch exactly when the proposal that introduced
\* it has passed, at the height of that proposal, and no two proposals are about
\* the same patch: for any members, thresholds, patches and heights.
THEOREM ScheduleIsWhatPassed == Spec => []SchedulesFollowVotes
<1>1. ASSUME Inv, PatchInv, NEW patch \in PatchIds
      PROVE  {height \in Heights : <<height, patch>> \in scheduled_patches} =
                {proposals[id].activation_height : id \in
                    {i \in ProposalIds : proposals[i].patch_id = patch /\ Passed(i)}}
  <2>1. ASSUME NEW height \in Heights, <<height, patch>> \in scheduled_patches
        PROVE  \E id \in ProposalIds : /\ proposals[id].patch_id = patch
                                       /\ proposals[id].activation_height = height
                                       /\ Passed(id)
    <3>1. height \in Nat
      BY GovernanceAssumption
    <3> QED
      BY <1>1, <2>1, <3>1 DEF PatchInv, Told
  <2>2. ASSUME NEW id \in ProposalIds, proposals[id].patch_id = patch, Passed(id)
        PROVE  /\ proposals[id].activation_height \in Heights
               /\ <<proposals[id].activation_height, patch>> \in scheduled_patches
    <3>1. proposals[id].activation_height \in Heights
      BY <1>1, <2>2 DEF PatchInv, Placed
    <3>2. proposals[id].activation_height \in Nat
      BY <3>1, GovernanceAssumption
    <3> QED
      BY <1>1, <2>2, <3>1, <3>2 DEF PatchInv, Told
  <2> QED
    BY <2>1, <2>2
<1>2. ASSUME PatchInv, NEW i \in ProposalIds, NEW j \in ProposalIds, Inv,
             proposals[i].patch_id = proposals[j].patch_id, proposals[i].patch_id # NoPatch
      PROVE  i = j
  <2>1. proposals[i].patch_id \in PatchIds
    BY <1>2 DEF Inv, TypeOK, ProposalRecords
  <2> QED
    BY <1>2, <2>1 DEF PatchInv, Placed
<1>3. Inv /\ PatchInv => SchedulesFollowVotes
  BY <1>1, <1>2 DEF SchedulesFollowVotes
<1> QED
  BY GovernanceInvariant, PatchesInvariant, <1>3, PTL
=============================================================================
