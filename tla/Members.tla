------------------------------ MODULE Members -------------------------------
(***************************************************************************)
(* contracts/members_harness.s.py: the weighted membership that governance  *)
(* asks who may propose and what a vote weighs.  Its own governor, at first  *)
(* an account and later, perhaps, the governance contract, changes it.       *)
(* The list of members never holds an account twice (seed and set_member    *)
(* look before they append), and nothing depends on its order: it is a set.  *)
(***************************************************************************)
EXTENDS Integers, FiniteSets, Sums

CONSTANTS Users,            \* addresses that sign transactions
          governance,       \* the governance contract, as the caller of its calls
          NoOne,            \* None where an address is expected
          InitialMembers,
          InitialWeights,
          InitialGovernor

Callers == Users \cup {governance}

ASSUME MembersAssumption ==
    /\ IsFiniteSet(Users)
    /\ governance \notin Users
    /\ NoOne \notin Callers
    /\ InitialMembers \subseteq Users
    /\ InitialWeights \in [InitialMembers -> Nat \ {0}]
    /\ InitialGovernor \in Callers

VARIABLES members, member_weights, governor, proposed_governor

membership == <<members, member_weights, governor, proposed_governor>>

MembersInit ==
    /\ members = InitialMembers
    /\ member_weights = [a \in Users |-> IF a \in InitialMembers THEN InitialWeights[a] ELSE 0]
    /\ governor = InitialGovernor
    /\ proposed_governor = NoOne

member_weight(account) == IF account \in members THEN member_weights[account] ELSE 0

\* Mutant: does not look at who asks.
set_member_ByAnyone(caller, account, enabled, weight) ==
    /\ \/ /\ enabled
          /\ weight > 0
          /\ members' = members \cup {account}
          /\ member_weights' = [member_weights EXCEPT ![account] = weight]
       \/ /\ ~enabled
          /\ members' = members \ {account}
          /\ member_weights' = [member_weights EXCEPT ![account] = 0]
    /\ UNCHANGED <<governor, proposed_governor>>

\* Mutant: takes the weight of a member that goes, and leaves it on the list.
set_member_StaysListed(caller, account, enabled, weight) ==
    /\ caller = governor
    /\ enabled => weight > 0
    /\ members' = members \cup {account}
    /\ member_weights' = [member_weights EXCEPT ![account] = IF enabled THEN weight ELSE 0]
    /\ UNCHANGED <<governor, proposed_governor>>

set_member(caller, account, enabled, weight) ==
    /\ caller = governor
    /\ \/ /\ enabled
          /\ weight > 0
          /\ members' = members \cup {account}
          /\ member_weights' = [member_weights EXCEPT ![account] = weight]
       \/ /\ ~enabled
          /\ members' = members \ {account}
          /\ member_weights' = [member_weights EXCEPT ![account] = 0]
    /\ UNCHANGED <<governor, proposed_governor>>

set_member_weight(caller, account, weight) ==
    /\ caller = governor
    /\ account \in members
    /\ weight > 0
    /\ member_weights' = [member_weights EXCEPT ![account] = weight]
    /\ UNCHANGED <<members, governor, proposed_governor>>

start_governance_transfer(caller, new_governor) ==
    /\ caller = governor
    /\ proposed_governor' = new_governor
    /\ UNCHANGED <<members, member_weights, governor>>

accept_governance(caller) ==
    /\ proposed_governor # NoOne
    /\ caller = proposed_governor
    /\ governor' = proposed_governor
    /\ proposed_governor' = NoOne
    /\ UNCHANGED <<members, member_weights>>

\* Whoever is on the list has a weight.
MembersTypeOK ==
    /\ members \subseteq Users
    /\ member_weights \in [Users -> Nat]
    /\ \A a \in members : member_weights[a] > 0
    /\ governor \in Callers
    /\ proposed_governor \in Callers \cup {NoOne}
=============================================================================
