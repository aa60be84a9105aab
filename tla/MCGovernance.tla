---------------------------- MODULE MCGovernance ----------------------------
(***************************************************************************)
(* A small instance of Governance: three accounts with weights 2, 1 and 1,   *)
(* one of them the governor of the membership, who may hand it to            *)
(* governance, thresholds of 2/3 and, in an emergency, of everything.        *)
(***************************************************************************)
EXTENDS Governance, TLC

CONSTANTS alice, bob, carol

ThreeMembers == {alice, bob, carol}
AliceWeighsTwo == (alice :> 2 @@ bob :> 1 @@ carol :> 1)
RemoveAlice == [function |-> "set_member", account |-> alice, enabled |-> FALSE, weight |-> 0]
RaiseAlice == [function |-> "set_member_weight", account |-> alice, enabled |-> TRUE, weight |-> 3]
Accept == [function |-> "accept_governance", account |-> alice, enabled |-> TRUE, weight |-> 0]
HandOver == [function |-> "start_governance_transfer", account |-> alice, enabled |-> TRUE, weight |-> 0]
MemberCalls == {RemoveAlice, RaiseAlice, HandOver, Accept}
=============================================================================
