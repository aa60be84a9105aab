------------------------------- MODULE Oracle -------------------------------
(***************************************************************************)
(* contracts/con_oracle.s.py: reporters that governance appoints submit     *)
(* prices; get_price answers the median of the fresh reports of current      *)
(* reporters, or reverts when there are fewer than the asset's quorum.       *)
(***************************************************************************)
EXTENDS Integers, SequencesExt

CONSTANTS Accounts,
          Assets,
          NoOne,
          NoReport,         \* None in reported_prices and reported_at
          InitialGovernor,
          Prices,           \* arguments of submit_price
          Quorums, MaxAges, \* arguments of set_asset_config
          Candidates,       \* arguments of set_reporter
          Nominees,         \* arguments of start_governance_transfer
          MaxTime           \* bound on now

ASSUME OracleAssumption ==
    /\ IsFiniteSet(Accounts)
    /\ NoOne \notin Accounts
    /\ NoReport \notin Nat
    /\ InitialGovernor \in Accounts
    /\ Candidates \cup Nominees \subseteq Accounts
    /\ Prices \cup Quorums \cup MaxAges \subseteq Nat
    /\ MaxTime \in Nat

VARIABLES now,
          reporters,        \* the flag of every account
          reporter_accounts,\* the list that get_price walks
          reported_prices, reported_at,     \* by <<asset, account>>
          min_reporters, max_age_seconds,   \* by asset
          governor, proposed_governor

appointments == <<reporters, reporter_accounts>>
reports == <<reported_prices, reported_at>>
config == <<min_reporters, max_age_seconds>>
vars == <<now, appointments, reports, config, governor, proposed_governor>>

-----------------------------------------------------------------------------
Init ==
    /\ now = 0
    /\ reporters = [a \in Accounts |-> a = InitialGovernor]
    /\ reporter_accounts = <<InitialGovernor>>
    /\ reported_prices = [report \in Assets \X Accounts |-> NoReport]
    /\ reported_at = [report \in Assets \X Accounts |-> NoReport]
    /\ min_reporters = [asset \in Assets |-> 1]
    /\ max_age_seconds = [asset \in Assets |-> 0]
    /\ governor = InitialGovernor
    /\ proposed_governor = NoOne

-----------------------------------------------------------------------------
(* Reading a price. *)

\* A maximum age of 0 means that reports do not expire.
Fresh(asset, account) ==
    max_age_seconds[asset] > 0 =>
        now - reported_at[<<asset, account>>] <= max_age_seconds[asset]

Counts(asset, account) ==
    /\ reporters[account]
    /\ reported_prices[<<asset, account>>] # NoReport
    /\ Fresh(asset, account)

\* The prices that the walk over the first i accounts of the list has collected.
collected(asset) ==
    LET prices[i \in 0..Len(reporter_accounts)] ==
            IF i = 0 THEN <<>>
            ELSE IF Counts(asset, reporter_accounts[i])
            THEN Append(prices[i - 1], reported_prices[<<asset, reporter_accounts[i]>>])
            ELSE prices[i - 1]
    IN  prices

\* The prices of valid_reports, in the order of the list.
valid_reports(asset) == collected(asset)[Len(reporter_accounts)]

\* Mutant: behind the first larger price.
insert_price_OffByOne(ordered, value) ==
    LET index == SelectInSeq(ordered, LAMBDA larger : value < larger)
    IN  IF index = 0 THEN Append(ordered, value) ELSE InsertAt(ordered, index + 1, value)

\* Before the first larger price.
insert_price(ordered, value) ==
    LET index == SelectInSeq(ordered, LAMBDA larger : value < larger)
    IN  IF index = 0 THEN Append(ordered, value) ELSE InsertAt(ordered, index, value)

\* The first i values, in order.
sorting(values) ==
    LET ordered[i \in 0..Len(values)] ==
            IF i = 0 THEN <<>> ELSE insert_price(ordered[i - 1], values[i])
    IN  ordered

sort_prices(values) == sorting(values)[Len(values)]

median_price(values) ==
    LET ordered == sort_prices(values)
        middle == Len(ordered) \div 2
    IN  IF Len(ordered) % 2 = 1 THEN ordered[middle + 1]
        ELSE (ordered[middle] + ordered[middle + 1]) \div 2

\* get_price does not revert; an empty quorum still needs one price.
Answers(asset) ==
    /\ Len(valid_reports(asset)) >= min_reporters[asset]
    /\ Len(valid_reports(asset)) > 0

get_price(asset) == median_price(valid_reports(asset))

-----------------------------------------------------------------------------
\* Mutant: the time of the report is not written.
submit_price_Undated(caller, asset, price) ==
    /\ reporters[caller]
    /\ price > 0
    /\ reported_prices' = [reported_prices EXCEPT ![<<asset, caller>>] = price]
    /\ UNCHANGED <<now, appointments, reported_at, config, governor, proposed_governor>>

submit_price(caller, asset, price) ==
    /\ reporters[caller]
    /\ price > 0
    /\ reported_prices' = [reported_prices EXCEPT ![<<asset, caller>>] = price]
    /\ reported_at' = [reported_at EXCEPT ![<<asset, caller>>] = now]
    /\ UNCHANGED <<now, appointments, config, governor, proposed_governor>>

\* Reports stay when their reporter is removed, and count again if it comes back.
set_reporter(caller, account, enabled) ==
    LET listed == \E i \in DOMAIN reporter_accounts : reporter_accounts[i] = account
    IN  /\ caller = governor
        /\ reporters' = [reporters EXCEPT ![account] = enabled]
        /\ reporter_accounts' =
              IF enabled /\ ~listed THEN Append(reporter_accounts, account)
              ELSE IF ~enabled /\ listed THEN RemoveFirst(reporter_accounts, account)
              ELSE reporter_accounts
        /\ UNCHANGED <<now, reports, config, governor, proposed_governor>>

set_asset_config(caller, asset, min_reporters_required, max_price_age_seconds) ==
    /\ caller = governor
    /\ min_reporters_required > 0
    /\ max_price_age_seconds >= 0
    /\ min_reporters' = [min_reporters EXCEPT ![asset] = min_reporters_required]
    /\ max_age_seconds' = [max_age_seconds EXCEPT ![asset] = max_price_age_seconds]
    /\ UNCHANGED <<now, appointments, reports, governor, proposed_governor>>

start_governance_transfer(caller, new_governor) ==
    /\ caller = governor
    /\ proposed_governor' = new_governor
    /\ UNCHANGED <<now, appointments, reports, config, governor>>

\* Mutant: lists the new governor whether it was a reporter or not.
accept_governance_ListsTwice(caller) ==
    /\ proposed_governor # NoOne
    /\ caller = proposed_governor
    /\ governor' = proposed_governor
    /\ proposed_governor' = NoOne
    /\ reporters' = [reporters EXCEPT ![caller] = TRUE]
    /\ reporter_accounts' = Append(reporter_accounts, caller)
    /\ UNCHANGED <<now, reports, config>>

\* The new governor becomes a reporter; the old one stays one.
accept_governance(caller) ==
    /\ proposed_governor # NoOne
    /\ caller = proposed_governor
    /\ governor' = proposed_governor
    /\ proposed_governor' = NoOne
    /\ reporters' = [reporters EXCEPT ![caller] = TRUE]
    /\ reporter_accounts' = IF reporters[caller] THEN reporter_accounts
                            ELSE Append(reporter_accounts, caller)
    /\ UNCHANGED <<now, reports, config>>

Tick ==
    /\ now < MaxTime
    /\ now' = now + 1
    /\ UNCHANGED <<appointments, reports, config, governor, proposed_governor>>

Call(caller) ==
    \/ \E asset \in Assets, price \in Prices : submit_price(caller, asset, price)
    \/ \E account \in Candidates, enabled \in BOOLEAN : set_reporter(caller, account, enabled)
    \/ \E asset \in Assets, quorum \in Quorums, age \in MaxAges :
          set_asset_config(caller, asset, quorum, age)
    \/ \E account \in Nominees : start_governance_transfer(caller, account)
    \/ accept_governance(caller)

Next == (\E caller \in Accounts : Call(caller)) \/ Tick

Spec == Init /\ [][Next]_vars

-----------------------------------------------------------------------------
\* A price and its time are written together.
TypeOK ==
    /\ now \in Nat
    /\ reporters \in [Accounts -> BOOLEAN]
    /\ reporter_accounts \in Seq(Accounts)
    /\ reported_prices \in [Assets \X Accounts -> Nat \cup {NoReport}]
    /\ reported_at \in [Assets \X Accounts -> Nat \cup {NoReport}]
    /\ \A report \in Assets \X Accounts :
          reported_prices[report] = NoReport <=> reported_at[report] = NoReport
    /\ min_reporters \in [Assets -> Nat \ {0}]
    /\ max_age_seconds \in [Assets -> Nat]
    /\ governor \in Accounts
    /\ proposed_governor \in Accounts \cup {NoOne}

\* The reporters whose reports count for an asset, as a set.
CountedReporters(asset) == {a \in Accounts : Counts(asset, a)}

\* A quorum is made of different reporters: an answer rests on fresh reports of
\* at least min_reporters accounts, and on one report of each, whatever
\* appointments, removals and handoffs did to the list.
QuorumOfDistinctReporters ==
    \A asset \in Assets :
        /\ Len(valid_reports(asset)) = Cardinality(CountedReporters(asset))
        /\ Answers(asset) => Cardinality(CountedReporters(asset)) >= min_reporters[asset]

\* No minority sets the price: leave out any set of fewer than half of the
\* counted reporters, and the answer still lies between two prices that the
\* others reported.
MinorityCannotSetPrice ==
    \A asset \in Assets :
        Answers(asset) =>
            \A dishonest \in SUBSET CountedReporters(asset) :
                2 * Cardinality(dishonest) < Cardinality(CountedReporters(asset)) =>
                    LET honest == CountedReporters(asset) \ dishonest
                    IN  /\ \E a \in honest : reported_prices[<<asset, a>>] <= get_price(asset)
                        /\ \E a \in honest : get_price(asset) <= reported_prices[<<asset, a>>]
=============================================================================
