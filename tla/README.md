# Xian stable protocol: TLA+ models, checks and proofs

This directory holds a formal model of the contracts of the Xian stable
protocol. TLC checks small instances of it; TLAPS proves the results listed
under "What is proved" for every value of the constants. Definitions keep the
names of the source, and `PROJECT.json` maps each of them to the lines it
translates.

## 1. The system

An over-collateralised stablecoin on the Xian chain. Every exported function of
a contract is one transaction: it runs to the end or an assertion reverts all of
it, calls to other contracts included. There are no threads and no messages;
what is hard is the **order of transactions of different signers**, the state
that several of them share (one balance of stable, one balance per collateral
token, one rate per vault type), **rounding**, and **time and prices** that move
between two transactions.

| Component (source) | State it keeps | Operations | What makes it correct |
| --- | --- | --- | --- |
| Stable token (`contracts/con_stable_token.s.py`) | balances, allowances, supply, metadata, controllers, governor | transfer, approve, transfer_from, mint, burn, set_controller, change_metadata, governance transfer | supply is the sum of balances; a balance only goes down with its holder's consent |
| Vaults (`contracts/con_vaults.s.py`) | vault types and their books (rate accumulator, live and frozen totals, surplus, bad debt), vaults, bids in escrow, fee routes, pause | vault life cycle, liquidation, auctions, loss handling, settings of a type, governance | the contract can always pay escrow, surplus and collateral; totals cover the vaults; losses are recorded; only the market endangers a vault; escrow is released |
| PSM (`contracts/con_psm.s.py`) | fees, treasury, pause, governor; its reserve balance | mint_stable, redeem_stable, settings, governance transfer | stable it mints is matched by reserve; reserve leaves only against burned stable |
| Savings (`contracts/con_savings.s.py`) | shares, allowances, share supply, governor; its stable balance | deposit, withdraw, share transfers, metadata, governance transfer | the price of a share never falls, principal is covered, a deposit keeps its worth |
| Oracle (`contracts/con_oracle.s.py`) | reporters (a list and a flag each), reports with their time, quorum and maximum age per asset, governor | submit_price, get_price, set_reporter, set_asset_config, governance transfer | a quorum is of different, current reporters with fresh reports; no minority sets the median |
| Governance (`contracts/governance_harness.s.py`) | proposals, weights copied per proposal, votes and their counters, patches and their schedule | propose_state_patch, propose_contract_call, vote, expire_proposal; an approval calls the target contract | a decision has the asked share of the weight of its moment, is taken once, and takes effect with the vote that brings it about; every proposal is settled |
| Members (`contracts/members_harness.s.py`) | members and weights, governor | set_member, set_member_weight, governance transfer | under governance, the membership changes only by decided proposals |
| Bootstrap (`scripts/bootstrap_protocol.py`) | its position in a run; everything else is read from the chain | deploy, set controllers, oracle, fee routes and the default vault type, offer governance | a completed run leaves a wired protocol, after whatever earlier runs did; nothing governance has accepted is changed; repeated runs get there |

How they interact. `con_vaults` and `con_psm` are controllers of the stable
token, which lets them mint (burning takes no permission); both pull stable or
their other token from a caller by `transfer_from`. `con_vaults` asks
`con_oracle.get_price` whenever it compares a debt with its collateral, and a
revert of the oracle reverts the call. Fees of `con_vaults` go to
`con_savings`, to the treasury or to the governor as plain transfers, and raise
what a savings share is worth. All five contracts hand governance over in two
steps, to an account or to the governance contract.

The hazards of this code are listed, line by line, in `PROJECT.json`. The
heaviest are in `con_vaults`: one balance backs surplus, bids and refunds of
every vault at once; debt is turned into shares and back on every call; an
auction freezes debt that may come back to life; a bid below the debt leaves a
loss that must stay on the books. Outside the contracts' arithmetic, two things
are hard: votes are weighed by a copy of a membership that goes on changing, by
the very calls that are voted on; and the script is a client of a chain, so it
can be stopped between two transactions and a transaction can outlive the run
that sent it.

## 2. Modules

| Module | Models | State and actions |
| --- | --- | --- |
| `Sums` | the sum of a map of amounts, by counting quanta, so that the provers can reason about it | operators |
| `Decimal` | the fixed-point arithmetic of the contract runtime: `Mul`, `Div` round down at `SCALE` | operators |
| `TokenLedger` | the part of the stable token other contracts call: `LedgerTransfer`, `LedgerMint`, `LedgerBurn` | operators on `[balances, total_supply]` |
| `StableToken` | `con_stable_token.s.py` | one action per exported call |
| `SignedToken` | the same, with the signer of the last call in a history variable | `SignedNext` |
| `Vaults` | `con_vaults.s.py` | one action per exported call; `OracleMoves`, `Tick`, `HolderTransfers` for the world outside |
| `Psm` | `con_psm.s.py` | one action per exported call; other controllers and holders of both tokens |
| `Savings` | `con_savings.s.py` | one action per exported call; plain transfers of stable |
| `Oracle` | `con_oracle.s.py` | one action per exported call; `Tick` |
| `Protocol` | `Vaults`, `Psm` and `Savings` together | their actions on one ledger of stable, through `INSTANCE` with the ledger substituted |
| `Members` | `members_harness.s.py` | one operator per exported call, with the caller as parameter |
| `Governance` | `governance_harness.s.py`, on top of `Members` | one action per exported call; `MembersCall` for the accounts that call the members contract themselves; `NextBlock` |
| `Auction` | abstract: what an auction house that takes stakes promises, with lots and no vaults | `TakeIn`, `PutUp`, `Raise`, `TakeBack`, `Award`, `Refund`, time; `Vaults` implements it |
| `Ballot` | abstract: what weighted ballots promise, with sets of voters and no counters | `Open`, `Cast`, `Expire`; `Governance` implements it |
| `Bootstrap` | `bootstrap_protocol.py` and the chain as it sees it | `StartRun`, `Look`, `Included`, `Stopped`, `GivenUp` for the script, `Lands` and `Drops` for transactions it gave up on, `Accepts` and `Reroutes` for everybody else |
| `MC*` | small instances | values of constants only |
| `*Proofs` | the theorems, see section 5 | |

An action is the whole handler: its guard is the conjunction of all assertions
on its path, those of the token and oracle calls it makes included, and it is
enabled exactly when the transaction would not revert. Signers are the `caller`
parameter (`ctx.caller`).

Modelling decisions a reader should know:

- **Tokens.** `Psm`, `Savings` and `Vaults` hold the ledger of the stable token
  (balances, and supply where they mint or burn) and apply the ledger operators
  in the order of the calls. Allowances are modelled in `StableToken` only: a
  caller is taken to have approved what the contract pulls. `con_vaults` and
  `con_psm` are taken to be controllers. Collateral and reserve tokens are not
  the stable token and are modelled by balances.
- **Oracle.** In `Vaults` the oracle's answer is a number per collateral token
  (`price`, 0 when `get_price` reverts) that `OracleMoves` changes at will. What
  an answer can be is the subject of `Oracle`. The `oracle_key` of a type is
  identified with its collateral contract.
- **Numbers.** Amounts are integers counting quanta. `Mul` and `Div` of two
  decimals round down at `SCALE`; a division of a decimal by an integer rounds
  down too. Intermediate products round where the code's do: the vaults' debts and
  ratios, and the savings' `assets * supply / total_assets` and
  `shares * total_assets / supply`, round the product and then the quotient. A
  coarse `SCALE` in the runs exaggerates rounding, which is the point.
- **Time.** `now` is in seconds and `elapsed_seconds` is the whole distance (the
  runtime's `Timedelta.seconds` is the total, which the freshness test of
  `tests/test_oracle.py` relies on). Interest is simple between two accruals and
  compounds at each accrual, as in `current_rate`.
- **Left out of the state** because nothing in the contracts reads it back:
  `created_at`, `closed_at`, `auction_opened_at`, `auction_settled_at`,
  `auction_shares_snapshot`, `fees_distributed` (`Vaults`), the source string of
  a report (`Oracle`), events, and views.
- The hash `vault_types` is split in two variables, `vault_types` (settings) and
  `books` (accounting). A partial liquidation target of `None` is kept as
  `NoOne` and read as the minimum ratio, as the code does.
- Behaviour of the code that may surprise and is modelled as it is: the setters
  of a vault type other than `set_vault_type_active` do not check that the type
  exists; `recapitalize` accepts a type id that will only be added later, whose
  books `add_vault_type` then resets; `set_vault_type_fee` does not accrue first;
  `cure_auction` keeps an overpayment; `close_vault` reverts for a vault without
  collateral; a reporter that is re-appointed counts with its old report.
- **Bounds.** `MaxVaults`, `MaxTypes` and `MaxTime` (`Vaults`), `MaxElsewhere`
  (`Psm`), `MaxTime` (`Oracle`), `MaxProposals` and `MaxTime` (`Governance`) and
  `MaxFaults` (`Bootstrap`) cap counters in the guards; auction end times and
  expiry times are capped by `MaxTime` as well, so that no auction and no
  proposal outlives the clock. `Rerouted` bounds the settings that others change
  in `Bootstrap`.
- **Composition.** In `Protocol` the PSM's fees are fixed and its treasury unset
  (fees go to the governor), and shares are not passed on: their own modules
  cover those calls. `Psm` and `Savings` are instantiated with the contract's
  ledger for their own, so a call is the same formula alone and composed.
- **Governance.** A decided proposal of kind `contract_call` executes its call in
  the vote's own step, as `governance`; when the call is disabled (it reverts),
  so is the vote. The calls are those of the members contract, because they
  are the ones that act back on governance; which of the five other contracts
  a proposal may call makes no difference to the voting. Weights are those
  `member_weight` answers. The list of members is a set: `seed` and `set_member`
  look before they append, and nothing depends on the order.
- **Bootstrap.** A run is a sequence of steps computed from its arguments. A step
  looks at the chain (`Skipped`), then sends and waits. A stop, a refusal and a
  revert all end the run; a transaction that was not finalized in time ends it
  too and is kept in `late`, from where it lands, or is dropped, at any later
  moment. Transactions left behind may land in any order: the nonces of the
  operator are not relied on.
- **History.** `minted_elsewhere` in `Psm` is what other controllers minted less
  what they burned; no action reads it except through its bound.

## 3. What is checked, and on which instances

All runs are exhaustive for their bounds. In `Vaults`, "basis points" are out of
4 (or 8), so that 150 % is 6 and every product of the code produces remainders.

| Run | Instance | What it shows |
| --- | --- | --- |
| `stable_token` | three accounts, one of them governor, controllers among them | `SupplyIsSumOfBalances` also for transfers to oneself and burns by anybody; `DebitsAreAuthorised`: each debit is by the holder, or within an allowance that is spent with it |
| `vaults_lifecycle` | two owners, two vaults of one type with a bonus, fees of 25 % a tick, prices that fall | `CollateralCustody`, `TotalsCoverVaults`, `BackingNeverErodes` with debt converted to shares and back on each call, through repayment, partial and full liquidation and closing |
| `vaults_auction` | one vault, its owner, two other bidders, prices that fall and recover, extensions, pauses | `EscrowMatchesAuction`, `TotalsCoverVaults`, `OnlyMarketEndangers` through bids, cures, cancellation, settlement and refunds; the refinement `ImplementsAuction`; `EscrowIsReleased` under fairness, whatever pause falls and however long it lasts |
| `vaults_governance` | every setter, pause, handover, an oracle that stops answering; a type whose `min_debt` lets a liquidation leave a remainder | `PauseStopsNewRisk` across changed settings and governors, with liquidations that succeed, in part and to the end, before and after the pause |
| `vaults_no_exit` | one vault, one possible bid | finds the first violation described below |
| `protocol` | one vault and the books of two types, the PSM with a fee of 25 %, the savings as receiver of the fees, a loss to cover, surplus to sweep | `StableCustody`, `SystemBackingNeverErodes`, `SaversNeverLose` while all three contracts act on one ledger |
| `savings` | two holders, 8 quanta of stable, `SCALE` 2 | the share price from 1 to 8 assets per share, with both roundings of every deposit and withdrawal |
| `psm` | two users, fees of 0 and 25 %, any treasury | `FullyBacked`, `ReserveLeavesOnlyForStable` |
| `oracle` | four possible reporters, two prices, reports that expire after a tick or never | `QuorumOfDistinctReporters`, `MinorityCannotSetPrice` |
| `governance` | three members of weight 2, 1 and 1, thresholds of 2/3 and of everything, two proposals of a patch or of one of four calls | `SharesDecide`, `SchedulesFollowVotes`, `GovernedByVotes`, the refinement `ImplementsBallot`, `ProposalsAreSettled` under fairness |
| `bootstrap` | the default configuration with two reporters, chains with and without the contracts the script expects, one fault | `CompletedRunsWireTheProtocol`, `AcceptedIsOutOfReach`, `OneVaultTypePerGivenUp`, and `RunsConverge` under fairness |
| `bootstrap_rerun` | the same without faults | finds the second violation described below |

Why the bounds are enough to be interesting. Two vaults are what it takes for
one to be paid out of what belongs to another; two types, for the surplus of one
to be spent by the other. Three accounts with stable give an auction a winner,
a loser that must be refunded and an owner. `DUST` is one quantum and `SCALE` is
4 or 8 in the vaults and 2 in the savings, so remainders, dust, products that lose
a quantum and the difference between a debt and its principal all occur. The
amounts of `stable_token` are 0 and 1: it takes a 2 for an allowance that is half
used to be replaced, and with three accounts that is too much for TLC, so there
it is `DebitsHaveConsent` that speaks, for all amounts. In `governance`, weights of 2, 1 and 1 with a threshold of 2/3 make the
rule of weights and the rule of heads disagree; two proposals are what it takes
for one to change the membership the other was copied from, or to hand the
membership over for the other to act on; a proposal lives for two ticks, so
votes come after changes, and an emergency patch can be approved at its
activation height. One fault is enough in `bootstrap` for each of its
properties to be at stake, since a transaction given up on may land in any of the
runs that follow, whose number is not bounded. Each property of a passing run is
known to fail for at least one plausible bug of the code, listed under "mutants"
in `PROJECT.json`; the mutated operators stand in the modules next to the
originals, marked "Mutant".

`CHECK_DEADLOCK FALSE` in the runs of `Vaults`, `Protocol` and `Governance`: with
the clock at its bound and nothing left to repay, claim or vote on, nobody need
act again. `Bootstrap` may not stop: the script can always be run again.

Rounding and slack. `TotalsCoverVaults` is one-sided: dust dropped from a vault
stays in the totals, and the totals may stay above what the vaults owe.
`BackingNeverErodes` allows one explicit slack, `SettlementRounding`: when
rounding has put a frozen debt below its principal, a settlement writes off the
difference. A settlement's bad debt counts the unpaid fee too, so `Uncovered`
may go down, never up. `DepositsKeepTheirWorth` allows what the code's two
roundings cost a depositor: less than one quantum of a share at the price before,
and less than one quantum of the product of assets and supply. A withdrawal is
rounded against whoever leaves, so the last shares redeemed may leave a quantum in
the pool, which the next depositor gets.

What a pause does is checked from both sides. `PauseStopsNewRisk` is what it stops:
supply does not grow, no vault enters an auction, and collateral leaves a vault
only as it closes, all of it, to its owner or to the winner of its settled
auction. It does not say that a vault closes with its debt paid: a settlement may
leave a loss, paused or not, which is the subject of `BackingNeverErodes`.
`EscrowIsReleased` is what a pause must not stop: auctions are settled and losers
refunded even if the protocol is never resumed.

**Fairness.** Three runs use it.

- `vaults_auction`: time passes, an auction that has ended is settled and bidders
  claim. The code lets anybody settle, and winner and keepers both gain by it;
  claiming is in the interest of the loser alone, and the property speaks of that
  loser. Owners, bidders and governors may do nothing, or everything.
- `governance`: blocks are produced, and an overdue proposal is expired by somebody,
  which the contract lets anybody do. Nobody has to vote.
- `bootstrap`: a run goes on and the chain answers (weak fairness of `Look` and
  `Included`), and the operator keeps running the script without arguments, as
  the deployment guide tells to. This is strong fairness, because other runs,
  with other arguments, may always be started in between. Faults, acceptance
  and rerouting are not fair: they may happen or not.

**Findings.** `vaults_no_exit`: an auction that ends without a bid leaves the
vault in `auction_open`. No further bid is accepted (the end has passed),
`settle_auction` refuses for want of a bidder, `liquidate` and
`open_liquidation_auction` refuse because the auction is open, and only the
owner, or a recovered price, can clear it. `README.md:78` of the repository says
that unsafe vaults can be liquidated quickly or auctioned.

`bootstrap_rerun`: the script sends `set_asset_config` and the fee settings in
every run. Once governance has accepted the contract they go to, every later run
stops there with an error, although the first run completed and nothing failed.
`docs/DEPLOYMENT.md:72` says that the script is intentionally idempotent within a
normal operator workflow. `RunsConverge` states what remains true: runs get to
the handoff unless governance accepts a contract before all of them are offered.

## 4. Status

Modelled: all five protocol contracts, governance with its membership, the
bootstrap script, and the composition of the contracts that share the stable
token. Two abstract specifications, `Ballot` and `Auction`, are refined by
`Governance` and `Vaults`. Every safety property the passing runs check is also
proved (section 5); what is left to the runs is in section 6.

What would come next, in this order:

1. A property of the rate across `set_vault_type_fee` (hazard at line 892 of
   `con_vaults.s.py`), once the repository says which of the two readings is meant.
2. Liveness of an auction next to the PSM and the savings, which needs fairness
   of `Protocol` and a smaller instance than the `protocol` run has.

## 5. What is proved

TLAPS checks these theorems for every value of the constants: any accounts,
types, amounts, prices, scale and bounds that satisfy the named assumptions
(`TokenAssumption`, `VaultsAssumption`, `PsmAssumption`, `SavingsAssumption`,
`ProtocolAssumption`, `ScaleAssumption`, `MembersAssumption`,
`GovernanceAssumption`, `BootstrapAssumption`, `OracleAssumption`), which say what the constants are
(finite sets of accounts, amounts that are naturals, a scale above zero, a
contract that signs no transaction of its own) and nothing about the code.

| Module | Theorems | What they establish |
| --- | --- | --- |
| `StableTokenProofs` | `TypeCorrect`, `Conservation`, `DebitsHaveConsent` | no balance or allowance goes below zero; supply is the sum of balances; a balance falls by its holder's signature or allowance only |
| `VaultsProofs` | `VaultsTypeCorrect`, `StableIsInCustody`, `VaultsConserveStable`, from `VaultsInvariant` | no amount of the engine goes below zero; surplus and escrow are always in the contract's balance; the calls the engine makes conserve the stable ledger |
| | `CollateralIsInCustody`, `TotalsAlwaysCoverVaults`, `EscrowAlwaysMatches`, from `VaultsSafetyInvariant` | the collateral every vault records is there; the totals of a type cover its vaults; escrow is what the auctions say |
| | `BackingIsNeverEroded`, `OnlyTheMarketEndangers`, `PauseAlwaysStopsNewRisk` | what no step of the engine does |
| | `VaultsImplementAuction`, from `VaultsAuctionInvariant` | the liquidation auctions refine `Auction` |
| | `StableStaysInCustody`, `SystemStaysBacked`, `SaversAreNeverDiluted`, `VaultsStaySafeTogether`, `OnlyTheMarketEndangersTogether`, `ProtocolImplementsAuction`, from `ProtocolInvariant` | `Protocol`: everything proved of the vaults' invariant holds next to the PSM and the savings; the three together never let unbacked stable appear, never dilute a saver and never disturb an auction |
| `SavingsProofs` | `SavingsTypeCorrect`, `SavingsConservation`, `SharesStayWorthPar`, `PriceNeverFalls`, `DepositsAreWorthTheirPrice` | types, cover of the principal, and the price of a share, as invariants and as properties of steps |
| `PsmProofs` | `PsmTypeCorrect`, `StableIsBacked`, `ReserveIsKept` | types, the reserve backs what the PSM minted, and reserve leaves only for stable |
| `OracleProofs` | `OracleTypeCorrect`, `QuorumsAreDistinct`, `MinoritiesCannotSetPrice`, from `OracleInvariant` | types; no reporter is counted twice and no quorum is short; a minority of the counted reporters cannot move the answer out of the range of the others |
| `GovernanceProofs` | `GovernanceTypeCorrect`, `GovernanceImplementsBallot`, `SharesAlwaysDecide`, `MembershipIsGovernedByVotes`, `ScheduleIsWhatPassed`, from `GovernanceInvariant` | types; the contract refines `Ballot`; what passed had the share it was asked for; under governance the membership changes by decided proposals only; what the chain is told to apply is what has passed |
| `BootstrapProofs` | `BootstrapTypeCorrect`, `VaultTypesAreCounted`, `AcceptedStaysOutOfReach`, `CompletionWiresTheProtocol`, from `BootstrapInvariant` | the safety of the script for any reporters, any chain, any number of runs and faults |
| `SumsProofs` | lemmas | totals under updates and transfers; what rounding down preserves; what a deposit and a withdrawal do to the worth of a share |

**Totals.** `Total` counts pairs of an account and a quantum, so a sum is a
cardinality and needs no recursion. `TotalUpdate`, that changing one value
changes the sum by the difference, follows from the library's facts about finite
sets, and everything said of balances rests on it: a transfer keeps the total, a
mint or a burn changes it by its amount (`TransferKeepsLedger`,
`MintKeepsLedger`, `BurnKeepsLedger`).

**Vaults.** `StableCustody` is not inductive alone, and neither is `TypeOK`.
`Inv` adds what they need:

- the ledger is conserved, so a burn never exceeds the supply;
- `VaultOK`: an open vault has an owner, a type and a collateral token; a
  settled auction is over; the highest bid of a running auction is in escrow.
  The last is what a settlement needs: it spends `auction_highest_bid` and
  releases `auction_bids[winner]`, and custody survives because the two are the
  same number;
- `TypeIdOK`: the rate is above zero (every division is by it) and no more than
  the whole of a fee is buffered (`ValidSurplus`), so what is buffered plus what
  is paid out and burned is no more than what came in.

One lemma per action shows that it preserves `Inv`. Most go through
`VaultCallStep` (one vault, the books of one type, the stable ledger and one
collateral token change) and, when debt is paid, through `PaymentStep`: fee and
principal together are at most the payment, so the contract's balance grows by
at least what the buffer does. A bid, a settlement and a refund change escrow and go
through `EscrowCallStep`.

The six safety results about vaults rest on a second invariant, `SafetyInv`, which
adds to `Inv` the three properties themselves (`CollateralCustody`,
`TotalsCoverVaults`, `EscrowMatchesAuction`) and `Recorded`. They are not
inductive without it:

- a vault number not used yet is blank, and a type id not added yet owes
  nothing, or `create_vault` and `add_vault_type`, which write a fresh record,
  would forget what was there;
- a type with a collateral token has ratios that were checked, and its rate is at
  least `SCALE`, so that what rounds to no debt has no shares left;
- live debt has collateral behind it (`Secured`), so a liquidation has something to
  sell, and an auction has debt to recover.

Each action is again reduced to a few kinds of step (one vault and the books of its
type; one bid and its escrow; one type's settings) and each kind is shown once
to keep the totals: a vault's live debt at the rate of the moment, rounded, is
compared with the total's, rounded, so every conversion costs inequalities
between products and rounded quotients, which are lemmas of their own
(the sections on decimals and ratios). For `PauseStep`, a call that lowers a vault's
collateral while paused has to be one that closes it, and `AllHandedOut` follows the
collateral to the account it is due to. The three action properties are read off the
same steps: `BackingStep`, `MarketStep` and `PauseStep` are proved of each action
next to the invariant. `OnlyTheMarketEndangers` is where nested rounding bites:
after a partial liquidation or a cure, the remaining debt, as the next call will
compute it from shares, is no more than what was required to remain.

**Auctions.** The refinement mapping `Lots` reads a lot off a vault: its phase off
the flags (settled is "sold", in auction is "on_sale", open is "held", a record
that was never written is "none" and any other is "returned"), its leader, best
bid and end off the auction fields, and its stakes off `auction_bids`. Nothing else
of a vault shows, so repaying, borrowing, moving collateral and a partial
liquidation are stutters, a vault that is closed, cured or restored is taken back,
and a settlement is an award. `AuctionInv` adds to `SafetyInv` that a vault has a
highest bidder exactly when its highest bid is above zero, and neither a bidder
nor an end outside an auction: `cure_auction` and `cancel_auction_if_safe` look at
the bid, `settle_auction` at the bidder, and the refinement needs them to agree.
`Raise` asks for a bid that is at least the best one: the code does not ask for
more when the increment is zero or rounds to nothing, so a second bidder can take
the lead with an equal bid.

**The contracts together.** `ProtocolInv` is `SafetyInv` with the reserve's type
and the pool's own invariant (shares sum to their supply and are worth par). The
argument has two halves. A PSM or savings call changes the ledger and nothing
else the vaults read, and takes nothing of what the vaults hold: `LedgerMoves` says
that this keeps `SafetyInv`, and by how much `Uncovered` moves, which is the
reserve taken in or paid out. A call of the vaults leaves reserve and shares alone,
and `Spares` says, action by action, that it takes no stable from the PSM or the
pool: what it takes, it takes from the caller or from `con_vaults`. This is
where `ProtocolAssumption` is used: the contracts sign nothing, so neither is ever
a caller. With the pool's stable only growing under a fixed share supply, and
`PriceKept` for deposits and withdrawals, no saver is diluted.

**Consent.** `DebitsHaveConsent` goes call by call: whoever's balance falls in a
transfer or a burn is the caller, and in a `transfer_from` the spender's
allowance falls by the same amount.

**Savings.** The heart is that a share is worth at least what it was: a deposit
mints shares rounded down and a withdrawal pays assets rounded down, so neither
moves the price against those who stay. The proof turns each rounding into an
inequality between products (`Floor`, `ProductMonotonic`), first the one of the
product (`RoundedProduct`), then the one of the quotient (`RoundedShare`), and needs
that shares are worth par from the start, `SharesWorthPar`, as part of the
invariant. `DepositsAreWorthTheirPrice` bounds what the same two roundings take
from the depositor.

**PSM.** `FullyBacked` is carried by the exact effect of the two calls: a mint
adds reserve of at least the stable it mints, and a redemption burns at least
the reserve it pays. The fee is never more than the amount because the setters
bound it.

**Oracle.** `OracleInv` is `TypeOK` and `ListMatchesFlags`: the list of reporters has
every flagged account in exactly one place, and nobody else. `set_reporter` and
`accept_governance` look at the flag before they append, and a removal takes the
one place out (`RemovalKeepsList`). From there on the argument is about
`get_price` as an algorithm, for a list of any length:

- the walk collects one price for each reporter that counts and nothing else
  (`WalkCollects`), so the length of what it collects is the number of different
  reporters that count (`OnePriceEach`), which is the quorum;
- `sort_prices` returns an ascending rearrangement of what it is given
  (`SortPricesSorts`): each pass puts one price behind those not larger
  (`InsertedAt`, `InsertKeepsOrder`), and a rearrangement is a one-to-one map
  between places;
- the median lies between two places of the sorted list that have at least half of
  it on either side (`MedianBetween`), and by counting (`MinorityIsHarmless`) a set of
  less than half cannot fill either side: some honest price is at or below the
  answer, and some honest price at or above it.

The two recursions are functions over the places of a sequence. Induction over
them is a minimal counterexample (`LeastExists`, `InductionOverSet`), for which the
facts about well-founded relations on the natural numbers are enough.

**Governance.** The refinement mapping reads a ballot off a proposal: the weights
are its copied ones, the two sides are the sets of accounts whose recorded vote
is yes or no, the quota is `required_yes_weight`, the heads it can spare are the
members of that moment less `required_yes_votes`, and the outcome is its status
(approved and executed are both "passed"). What has to be shown is that the
counters are what the sets add up to, for which `Inv` has `Tallied` (each counter
is the weight, or the number, of a set of voters, and the total is that of the
copy), `Decided` (a status is what the counters say of the quota) and `Unborn` (a
proposal number not used yet has left no vote and no weight behind, so a new
ballot opens empty). `VoteDecides` is the heart: one more voter on a side adds
that voter's copied weight to its sum (`WeightOfOneMore`), and the contract's
test of the remaining weight is then the abstract `Outcome`. Each action of
`Next` either implements a step of one ballot (`VoteImplemented`,
`ProposeImplemented`, `ExpireImplemented`) or leaves all ballots alone
(`OthersImplemented`). `SharesAlwaysDecide` follows from the same invariant and
`RoundedUp`: a natural number reaches a quotient rounded up exactly when it
reaches the fraction. `MembershipIsGovernedByVotes` goes through the actions: the
accounts' own calls need them to be the governor, which governance is not, and a
vote changes the membership only when it executes the call of its proposal.
`ScheduleIsWhatPassed` adds `PatchInv`: a patch id belongs to the one proposal that
introduced it, and is scheduled exactly from the vote that approved it on.

**Bootstrap.** The steps of a run are a concatenation that depends on its
arguments; `StepsArePlanned` shows that, as a set, it is the plan `Planned`, so the
rest of the proof speaks of kinds of steps and not of positions. The invariant
has two ideas. `Behind`: everything before the position of a run is done, where
`Done` is what a step is for, read off the chain. It survives because nothing
undoes a step: a late deployment reverts, a name being deployed once, an
acceptance keeps a contract governance's, and the list of reporters is started
over only with the oracle, before anybody is on it. A completed run then has its
whole plan behind it. `Counted`: a vault type is sent by a run that saw none, so
what is there, what is being sent and what may still land is together at most one
more than the runs cut short. `ChainOK` ties the two to governors: only the
operator offers a contract, so what governance has accepted is never offered
again, and every transaction of the operator to it reverts.

## 6. What is only model-checked

- Liveness under fairness (`EscrowIsReleased`, `ProposalsAreSettled`,
  `RunsConverge`): out of the prover's reach, as is `ENABLED`. The safety they
  rest on is proved: what is in escrow can always be paid
  (`StableIsInCustody`), and what a settlement pays is what the winner staked
  (`VaultsImplementAuction`).
- The two findings, which are counterexamples.

## 7. What is not modelled

- Proposals whose call is one of the governance contract itself (it would vote
  inside a vote), a membership without weights, and proposals that call the
  five protocol contracts: in their modules the governor is an account that
  signs, at any moment and with any call.
- What the chain does with a scheduled patch, which is outside the repository.
- In `Bootstrap`: the values of the configuration and its checks, budgets, the
  printed summary, and a configuration that changes between two runs. A
  transaction that is finalized is taken to come with its receipt, since every one
  is sent with `wait_for_tx`; `_ensure_submission_succeeded` would take one without
  a receipt for a success (line 139), and the completeness of completed runs rests
  on there being none. What
  governance decides later (removing a reporter, say) is left to the modules of
  the contracts.
- Views (`quote_*`, `get_*`, `*_of`) and events: they change no state. Where a
  call uses a view, the call models what it returns.
- Metadata strings, constructor arguments that nothing reads, and the wording of
  assertions.
- The contract runtime: atomicity of a transaction, decimal arithmetic, hashes
  with defaults and the block time are taken as the runtime provides them, and
  mapped as external where a definition stands for them.
- Build files and the tests.
