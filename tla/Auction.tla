------------------------------ MODULE Auction -------------------------------
(***************************************************************************)
(* What an auction house that takes stakes promises, whatever the lots are   *)
(* worth and whatever its rules for the next bid: a lot on sale has a leader *)
(* from its first bid on, who has staked the best bid; bids only rise, and   *)
(* the end of the sale only moves away; a lot that somebody leads on goes to  *)
(* its leader, after the end and for its stake; every other stake stays       *)
(* until its bidder has it back, which is after the sale.  Vaults implements  *)
(* it.                                                                       *)
(***************************************************************************)
EXTENDS Integers

CONSTANTS LotIds, Bidders, Nobody

VARIABLES now, lots

NoLot == [phase |-> "none", seller |-> Nobody, leader |-> Nobody, best |-> 0, ends |-> 0,
          stakes |-> [b \in Bidders |-> 0]]

Init == now = 0 /\ lots = [id \in LotIds |-> NoLot]

Becomes(id, lot) == lots' = [lots EXCEPT ![id] = lot] /\ now' = now

TakeIn(id, seller) ==
    /\ lots[id].phase = "none"
    /\ Becomes(id, [lots[id] EXCEPT !.phase = "held", !.seller = seller])

PutUp(id) ==
    /\ lots[id].phase = "held"
    /\ lots'[id].ends >= now
    /\ Becomes(id, [lots[id] EXCEPT !.phase = "on_sale", !.ends = lots'[id].ends])

Raise(id, bidder) ==
    LET lot == lots[id]
        new == lots'[id]
    IN  /\ lot.phase = "on_sale"
        /\ now < lot.ends
        /\ new.best > lot.stakes[bidder] /\ new.best >= lot.best
        /\ new.ends >= lot.ends
        /\ Becomes(id, [lot EXCEPT !.leader = bidder, !.best = new.best, !.ends = new.ends,
                                   !.stakes[bidder] = new.best])

\* Back to its seller, who leaves it with the house or not.
TakeBack(id) ==
    /\ lots[id].phase \in {"held", "on_sale"} /\ lots[id].leader = Nobody
    /\ \E phase \in {"held", "returned"} :
          Becomes(id, [lots[id] EXCEPT !.phase = phase, !.ends = 0])

Award(id) ==
    LET lot == lots[id]
    IN  /\ lot.phase = "on_sale"
        /\ lot.leader # Nobody
        /\ now >= lot.ends
        /\ Becomes(id, [lot EXCEPT !.phase = "sold", !.leader = Nobody, !.best = 0, !.ends = 0,
                                   !.stakes[lot.leader] = 0])

Refund(id, bidder) ==
    /\ lots[id].phase = "sold"
    /\ Becomes(id, [lots[id] EXCEPT !.stakes[bidder] = 0])

Next ==
    \/ \E id \in LotIds :
          \/ PutUp(id) \/ TakeBack(id) \/ Award(id)
          \/ \E b \in Bidders : TakeIn(id, b) \/ Raise(id, b) \/ Refund(id, b)
    \/ now' = now + 1 /\ UNCHANGED lots

Spec == Init /\ [][Next]_<<now, lots>>
=============================================================================
