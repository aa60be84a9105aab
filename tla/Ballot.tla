------------------------------- MODULE Ballot -------------------------------
(***************************************************************************)
(* What a system of weighted ballots promises, stated with sets of voters   *)
(* and no counters: a ballot opens with the weights of that moment; a voter  *)
(* with a weight votes once, on one side; the outcome follows from who is    *)
(* on which side, takes effect in the step of the vote that brings it        *)
(* about, and is never revised.  Governance implements it.                   *)
(***************************************************************************)
EXTENDS Integers, FiniteSets, Sums

CONSTANTS Voters, BallotIds

VARIABLE ballots

\* The weight of a set of voters on a ballot.
WeightOf(weights, voters) == Total([v \in Voters |-> IF v \in voters THEN weights[v] ELSE 0])

\* Passed: enough weight is for it.  Rejected: the weight that is not against
\* it cannot be enough, or more heads than it can spare are against it.
Outcome(b) ==
    IF WeightOf(b.weights, b.yes) >= b.quota THEN "passed"
    ELSE IF \/ WeightOf(b.weights, Voters) - WeightOf(b.weights, b.no) < b.quota
            \/ Cardinality(b.no) > b.spare_heads
    THEN "rejected"
    ELSE "open"

NoBallot == [weights |-> [v \in Voters |-> 0], quota |-> 0, spare_heads |-> 0,
             yes |-> {}, no |-> {}, outcome |-> "none"]

Init == ballots = [id \in BallotIds |-> NoBallot]

\* Whoever opens a ballot votes for it in the same step.
Open(id, v) ==
    LET new == ballots'[id]
    IN  /\ ballots[id].outcome = "none"
        /\ new.weights \in [Voters -> Nat]
        /\ new.weights[v] > 0
        /\ new.quota \in 1..WeightOf(new.weights, Voters)
        /\ new.yes = {v} /\ new.no = {}
        /\ new.outcome = Outcome(new)
        /\ ballots' = [ballots EXCEPT ![id] = new]

Cast(id, v) ==
    /\ ballots[id].outcome = "open"
    /\ v \notin ballots[id].yes \cup ballots[id].no
    /\ ballots[id].weights[v] > 0
    /\ \/ LET cast == [ballots[id] EXCEPT !.yes = @ \cup {v}]
          IN  ballots' = [ballots EXCEPT ![id] = [cast EXCEPT !.outcome = Outcome(cast)]]
       \/ LET cast == [ballots[id] EXCEPT !.no = @ \cup {v}]
          IN  ballots' = [ballots EXCEPT ![id] = [cast EXCEPT !.outcome = Outcome(cast)]]

Expire(id) ==
    /\ ballots[id].outcome = "open"
    /\ ballots' = [ballots EXCEPT ![id].outcome = "expired"]

Next ==
    \E id \in BallotIds :
        \/ \E v \in Voters : Open(id, v) \/ Cast(id, v)
        \/ Expire(id)

Spec == Init /\ [][Next]_ballots
=============================================================================
