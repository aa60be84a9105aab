---------------------------- MODULE VaultsProofs ----------------------------
(***************************************************************************)
(* Vaults, for any users, types, vaults, amounts, prices, scale and bounds: *)
(* the types of its state, the conservation of the stable ledger it calls   *)
(* and the solvency of the contract in stable, with the invariant Inv.  On   *)
(* top of it, with the invariant SafetyInv: custody of the collateral, the   *)
(* totals of a type, escrow, and what no step may do.  Then the refinement of  *)
(* module Auction, with AuctionInv.  Last, the contracts together, with        *)
(* ProtocolInv: the vaults stay safe next to the PSM and the savings pool, and *)
(* no mixture of their calls erodes what backs the stable token.              *)
(***************************************************************************)
EXTENDS Protocol, SumsProofs

-----------------------------------------------------------------------------
(* Rounding down, for every scale: what products and quotients of decimals are *)
(* bounded by.                                                               *)

LEMMA MulType ==
  ASSUME NEW a \in Nat, NEW b \in Nat
  PROVE  Mul(a, b) \in Nat
<1>1. a * b \in Nat
  BY ProductOfNats
<1>2. (a * b) \div SCALE >= 0
  BY <1>1, QuotientAtLeast, ScaleAssumption
<1> QED
  BY <1>1, <1>2, Floor, ScaleAssumption DEF Mul

LEMMA DivType ==
  ASSUME NEW a \in Nat, NEW b \in Nat, b > 0
  PROVE  Div(a, b) \in Nat
<1>1. a * SCALE \in Nat
  BY ProductOfNats, ScaleAssumption
<1>2. (a * SCALE) \div b >= 0
  BY <1>1, QuotientAtLeast
<1> QED
  BY <1>1, <1>2, Floor DEF Div

\* A factor of at least 1 does not make a decimal smaller.
LEMMA MulAtLeast ==
  ASSUME NEW a \in Nat, NEW factor \in Nat, factor >= SCALE
  PROVE  Mul(a, factor) >= a
<1>1. a * factor \in Nat
  BY ProductOfNats
<1>2. a * SCALE <= a * factor
  BY ProductMonotonic, ScaleAssumption
<1>3. SCALE * a <= a * factor
  BY <1>2, Z3, ScaleAssumption
<1> QED
  BY <1>1, <1>3, QuotientAtLeast, ScaleAssumption DEF Mul

\* Shares worth a debt, rounded down, never exceed the shares it was computed
\* from: what pays a debt of s shares takes at most s shares.
LEMMA DivWithinMul ==
  ASSUME NEW s \in Nat, NEW rate \in Nat, rate > 0, NEW p \in Nat, p <= Mul(s, rate)
  PROVE  Div(p, rate) <= s
<1>1. s * rate \in Nat /\ p * SCALE \in Nat
  BY ProductOfNats, ScaleAssumption
<1>2. SCALE * Mul(s, rate) <= s * rate
  BY <1>1, Floor, ScaleAssumption DEF Mul
<1>3. Mul(s, rate) \in Nat
  BY MulType
<1>4. SCALE * p <= SCALE * Mul(s, rate)
  BY <1>3, ProductMonotonic, ScaleAssumption
<1>5. p * SCALE <= rate * s
  BY <1>1, <1>2, <1>3, <1>4, Z3, ScaleAssumption
<1> QED
  BY <1>1, <1>5, QuotientBounded DEF Div

\* A share of an amount in basis points is at most the amount.
LEMMA ShareOfAmount ==
  ASSUME NEW a \in Nat, NEW bps \in Nat, NEW whole \in Nat, whole > 0, bps <= whole
  PROVE  /\ (a * bps) \div whole \in Nat
         /\ (a * bps) \div whole <= a
<1>1. a * bps \in Nat
  BY ProductOfNats
<1>2. a * bps <= a * whole
  BY ProductMonotonic
<1>3. a * bps <= whole * a
  BY <1>2, Z3
<1>4. (a * bps) \div whole >= 0
  BY <1>1, QuotientAtLeast
<1> QED
  BY <1>1, <1>3, <1>4, QuotientBounded, Floor

-----------------------------------------------------------------------------
(* The invariant. *)

Ledgers == LedgersOver(Accounts)

\* An open vault has an owner and an existing type; a settled auction is over;
\* the highest bid is in escrow.
VaultOK(v) ==
    /\ vaults[v].open =>
          /\ vaults[v].owner \in Users
          /\ vaults[v].vault_type_id \in TypeIds
          /\ CollateralOf(v) \in Collaterals
    /\ vaults[v].auction_settled => ~vaults[v].open /\ ~vaults[v].auction_open
    /\ vaults[v].auction_open /\ vaults[v].auction_highest_bidder # NoOne =>
          auction_bids[<<v, vaults[v].auction_highest_bidder>>] = vaults[v].auction_highest_bid

\* Debt is worth something, and no more than a fee can go to the buffer.
TypeIdOK(vt) ==
    /\ books[vt].rate_accumulator > 0
    /\ vault_types[vt].surplus_buffer_bps <= BPS_DENOMINATOR

\* The inductive invariant.  StableCustody needs VaultOK for a settlement, which
\* spends the highest bid and releases the winner's escrow, and the types need
\* the conservation of the ledger, so that no burn exceeds the supply.
Inv ==
    /\ TypeOK
    /\ stable \in Ledgers
    /\ \A v \in VaultIds : VaultOK(v)
    /\ \A vt \in TypeIds : TypeIdOK(vt)
    /\ StableCustody

-----------------------------------------------------------------------------
(* Constants. *)

LEMMA AccountFacts ==
  /\ IsFiniteSet(Accounts) /\ con_vaults \in Accounts /\ Users \subseteq Accounts
  /\ FeeReceivers \subseteq Accounts /\ NoOne \notin Accounts
  /\ IsFiniteSet(TypeIds) /\ IsFiniteSet(VaultIds \X Accounts)
<1>1. IsFiniteSet(Accounts)
  BY VaultsAssumption
<1>2. IsFiniteSet(TypeIds) /\ IsFiniteSet(VaultIds)
  BY FS_Interval, VaultsAssumption DEF TypeIds, VaultIds
<1>3. IsFiniteSet(VaultIds \X Accounts)
  BY <1>1, <1>2, FS_Product
<1> QED
  BY <1>1, <1>2, <1>3, VaultsAssumption DEF Accounts

-----------------------------------------------------------------------------
(* The rate and the books of a type. *)

\* A rate only grows: time is worth a factor of at least 1.
LEMMA RateFacts ==
  ASSUME Inv, NEW vt \in TypeIds
  PROVE  /\ current_rate(vt) \in Nat /\ current_rate(vt) > 0
         /\ current_rate(vt) >= books[vt].rate_accumulator
<1> DEFINE acc == books[vt].rate_accumulator
           fee == vault_types[vt].stability_fee_bps
           time == elapsed_seconds(books[vt].last_rate_time)
           interest == ((fee * time * SCALE) \div SECONDS_PER_YEAR) \div BPS_DENOMINATOR
<1>1. acc \in Nat /\ acc > 0 /\ fee \in Nat /\ books[vt].last_rate_time \in Nat /\ now \in Nat
  BY DEF Inv, TypeOK, TypeIdOK, BookRecords, TypeSettings
<1>2. time \in Nat
  BY <1>1 DEF elapsed_seconds, AtLeastZero
<1>3. SCALE \in Nat /\ SECONDS_PER_YEAR \in Nat /\ SECONDS_PER_YEAR > 0
      /\ BPS_DENOMINATOR \in Nat /\ BPS_DENOMINATOR > 0
  BY VaultsAssumption, ScaleAssumption
<1> HIDE DEF acc, fee, time
<1>4. fee * time * SCALE \in Nat
  BY <1>1, <1>2, <1>3, ProductOfNats
<1> DEFINE accrued_fee == (fee * time * SCALE) \div SECONDS_PER_YEAR
<1>5. accrued_fee \in Int /\ accrued_fee >= 0
  BY <1>3, <1>4, Floor, QuotientAtLeast
<1>6. accrued_fee \div BPS_DENOMINATOR \in Int /\ accrued_fee \div BPS_DENOMINATOR >= 0
  <2> HIDE DEF accrued_fee
  <2> QED
    BY <1>3, <1>5, Floor, QuotientAtLeast
<1>7. interest \in Nat
  BY <1>6
<1> HIDE DEF accrued_fee, interest
<1>8. SCALE + interest \in Nat /\ SCALE + interest >= SCALE
  BY <1>3, <1>7
<1>9. Mul(acc, SCALE + interest) \in Nat /\ Mul(acc, SCALE + interest) >= acc
  BY <1>1, <1>8, MulType, MulAtLeast
<1>10. current_rate(vt) = Mul(acc, SCALE + interest)
  BY DEF current_rate, interest, acc, fee, time
<1> HIDE DEF interest
<1> QED
  BY <1>1, <1>9, <1>10 DEF acc

\* Accruing changes the rate and its time.
LEMMA AccruedFacts ==
  ASSUME Inv, NEW vt \in TypeIds
  PROVE  /\ accrued(vt) \in BookRecords
         /\ accrued(vt).rate_accumulator > 0
         /\ accrued(vt).surplus_buffer = books[vt].surplus_buffer
<1>1. books[vt] \in BookRecords /\ now \in Nat
  BY DEF Inv, TypeOK
<1>2. current_rate(vt) \in Nat /\ current_rate(vt) > 0
  BY RateFacts
<1> QED
  BY <1>1, <1>2 DEF accrued, BookRecords

\* The live debt of a vault.
LEMMA LiveDebtType ==
  ASSUME Inv, NEW vault \in VaultRecords, vault.vault_type_id \in TypeIds
  PROVE  vault_live_debt(vault) \in Nat
<1>1. vault.debt_shares \in Nat
  BY DEF VaultRecords
<1> QED
  BY <1>1, RateFacts, MulType DEF vault_live_debt

-----------------------------------------------------------------------------
(* Payments. *)

\* A payment is split in parts that together are no more than the payment.
LEMMA SplitFacts ==
  ASSUME NEW debt \in Nat, NEW principal_due \in Nat, NEW amount \in Nat
  PROVE  LET split == split_payment(debt, principal_due, amount)
         IN  /\ split.fee \in Nat
             /\ split.principal \in Nat
             /\ split.fee + split.principal <= amount
             /\ split.principal <= principal_due
  BY DEF split_payment, AtMost, AtLeastZero

\* The buffer's share of a fee is at most the fee.
LEMMA BufferFacts ==
  ASSUME Inv, NEW vt \in TypeIds, NEW fee \in Nat
  PROVE  buffer_amount(vt, fee) \in Nat /\ buffer_amount(vt, fee) <= fee
<1>1. vault_types[vt].surplus_buffer_bps \in Nat
      /\ vault_types[vt].surplus_buffer_bps <= BPS_DENOMINATOR
  BY DEF Inv, TypeOK, TypeIdOK, TypeSettings
<1>2. BPS_DENOMINATOR \in Nat /\ BPS_DENOMINATOR > 0
  BY VaultsAssumption
<1> QED
  BY <1>1, <1>2, ShareOfAmount DEF buffer_amount

LEMMA FeeDestinationType ==
  ASSUME Inv
  PROVE  fee_destination \in Accounts
  BY AccountFacts DEF Inv, TypeOK, fee_destination

\* Paying out what came in costs the contract the fee that is not buffered and
\* the principal, at most.
LEMMA PaidOutFacts ==
  ASSUME Inv, NEW vt \in TypeIds, NEW ledger \in Ledgers, NEW split,
         split.fee \in Nat, split.principal \in Nat,
         ledger.balances[con_vaults] >= split.fee + split.principal
  PROVE  /\ PaidOut(ledger, vt, split) \in Ledgers
         /\ PaidOut(ledger, vt, split).balances[con_vaults]
              >= ledger.balances[con_vaults] - split.fee - split.principal
                   + buffer_amount(vt, split.fee)
<1> DEFINE kept == buffer_amount(vt, split.fee)
           sent == split.fee - kept
           routed == LedgerTransfer(ledger, con_vaults, fee_destination, sent)
           before == ledger.balances[con_vaults]
           after == routed.balances[con_vaults]
<1>1. kept \in Nat /\ kept <= split.fee
  BY BufferFacts
<1>2. before \in Nat
  BY AccountFacts DEF Ledgers, LedgersOver
<1>3. sent \in Nat /\ before >= sent
  BY <1>1, <1>2
<1>4. IsFiniteSet(Accounts) /\ con_vaults \in Accounts /\ fee_destination \in Accounts
  BY AccountFacts, FeeDestinationType
<1> HIDE DEF sent, kept
<1>5. /\ routed \in LedgersOver(Accounts)
      /\ after >= before - sent
  BY <1>3, <1>4, TransferKeepsLedger DEF Ledgers
<1>6. after \in Nat
  BY <1>4, <1>5 DEF LedgersOver
<1>7. PaidOut(ledger, vt, split) = LedgerBurn(routed, con_vaults, split.principal)
  BY DEF PaidOut, sent, kept
<1>8. sent = split.fee - kept
  BY DEF sent
<1> HIDE DEF routed, after, before
<1>9. after >= split.principal
  BY <1>1, <1>2, <1>5, <1>6, <1>8 DEF before
<1>10. /\ LedgerBurn(routed, con_vaults, split.principal) \in LedgersOver(Accounts)
       /\ LedgerBurn(routed, con_vaults, split.principal).balances[con_vaults]
            = after - split.principal
  BY <1>4, <1>5, <1>9, BurnKeepsLedger DEF after
<1> QED
  BY <1>1, <1>2, <1>5, <1>6, <1>7, <1>8, <1>10 DEF Ledgers, before, kept

\* A repayment in full or in part leaves a vault and books of their types, and
\* touches nothing of the vault but its debt.
LEMMA LiveRepaymentFacts ==
  ASSUME Inv, NEW vault \in VaultRecords, vault.vault_type_id \in TypeIds, NEW amount \in Nat
  PROVE  LET done == LiveRepayment(vault, amount)
             vt == vault.vault_type_id
         IN  /\ done.vault = [vault EXCEPT !.debt_shares = done.vault.debt_shares,
                                           !.principal = done.vault.principal]
             /\ done.vault.debt_shares \in Nat /\ done.vault.principal \in Nat
             /\ done.books \in BookRecords
             /\ done.books.rate_accumulator > 0
             /\ done.split.fee \in Nat /\ done.split.principal \in Nat
             /\ done.split.fee + done.split.principal <= amount
             /\ done.books.surplus_buffer
                  = books[vt].surplus_buffer + buffer_amount(vt, done.split.fee)
<1> DEFINE vt == vault.vault_type_id
           rate == current_rate(vt)
           debt == Mul(vault.debt_shares, rate)
           paid == AtMost(amount, debt)
           split == split_payment(debt, vault.principal, paid)
           shares_paid == Div(paid, rate)
           done == LiveRepayment(vault, amount)
           base == accrued(vt)
<1>1. vault.debt_shares \in Nat /\ vault.principal \in Nat
  BY DEF VaultRecords
<1>2. rate \in Nat /\ rate > 0
  BY RateFacts
<1>3. debt \in Nat
  BY <1>1, <1>2, MulType
<1>4. paid \in Nat /\ paid <= amount /\ paid <= debt
  <2> HIDE DEF debt
  <2> QED
    BY <1>3 DEF AtMost
<1>5. shares_paid \in Nat /\ shares_paid <= vault.debt_shares
  <2> HIDE DEF paid, rate
  <2>1. shares_paid \in Nat
    BY <1>2, <1>4, DivType
  <2>2. shares_paid <= vault.debt_shares
    BY <1>1, <1>2, <1>4, DivWithinMul
  <2> QED
    BY <2>1, <2>2
<1>6. /\ split.fee \in Nat /\ split.principal \in Nat
      /\ split.fee + split.principal <= paid /\ split.principal <= vault.principal
  <2> HIDE DEF debt, paid
  <2> QED
    BY <1>1, <1>3, <1>4, SplitFacts
<1>7. buffer_amount(vt, split.fee) \in Nat
  <2> HIDE DEF split
  <2> QED
    BY <1>6, BufferFacts
<1>8. base \in BookRecords /\ base.rate_accumulator > 0
      /\ base.surplus_buffer = books[vt].surplus_buffer
  BY AccruedFacts
<1>9. done = [vault |-> [vault EXCEPT !.debt_shares = without_dust(@ - shares_paid),
                                      !.principal = without_dust(@ - split.principal)],
              books |-> [base EXCEPT !.normalized_debt_total = @ - shares_paid,
                                     !.principal_outstanding = @ - split.principal,
                                     !.surplus_buffer = @ + buffer_amount(vt, split.fee)],
              split |-> split]
  BY DEF LiveRepayment
<1> HIDE DEF rate, debt, paid, split, shares_paid, done, base
<1>10. /\ done.vault = [vault EXCEPT !.debt_shares = done.vault.debt_shares,
                                     !.principal = done.vault.principal]
       /\ done.vault.debt_shares = without_dust(vault.debt_shares - shares_paid)
       /\ done.vault.principal = without_dust(vault.principal - split.principal)
  BY <1>9 DEF VaultRecords
<1>11. done.vault.debt_shares \in Nat /\ done.vault.principal \in Nat
  BY <1>1, <1>5, <1>6, <1>10 DEF without_dust
<1>12. /\ done.books \in BookRecords
       /\ done.books.rate_accumulator > 0
       /\ done.books.surplus_buffer = books[vt].surplus_buffer + buffer_amount(vt, split.fee)
  <2> DEFINE debt_total == base.normalized_debt_total - shares_paid
             principal_total == base.principal_outstanding - split.principal
             surplus == base.surplus_buffer + buffer_amount(vt, split.fee)
  <2>1. debt_total \in Int /\ principal_total \in Int /\ surplus \in Nat
    BY <1>5, <1>6, <1>7, <1>8 DEF BookRecords
  <2>2. done.books = [base EXCEPT !.normalized_debt_total = debt_total,
                                  !.principal_outstanding = principal_total,
                                  !.surplus_buffer = surplus]
    BY <1>9
  <2>3. surplus = books[vt].surplus_buffer + buffer_amount(vt, split.fee)
    BY <1>8
  <2> HIDE DEF debt_total, principal_total, surplus
  <2>4. done.books \in BookRecords
    BY <1>8, <2>1, <2>2 DEF BookRecords
  <2>5. done.books.rate_accumulator > 0 /\ done.books.surplus_buffer = surplus
    BY <1>8, <2>2 DEF BookRecords
  <2> QED
    BY ONLY <2>3, <2>4, <2>5
<1>13. done.split = split
  BY <1>9
<1>14. split.fee + split.principal <= amount
  <2> HIDE DEF vt
  <2> QED
    BY <1>4, <1>6
<1>15. /\ done.vault = [vault EXCEPT !.debt_shares = done.vault.debt_shares,
                                     !.principal = done.vault.principal]
       /\ done.vault.debt_shares \in Nat /\ done.vault.principal \in Nat
  BY <1>10, <1>11
<1>16. /\ done.books \in BookRecords
       /\ done.books.rate_accumulator > 0
       /\ done.books.surplus_buffer = books[vt].surplus_buffer + buffer_amount(vt, done.split.fee)
  BY <1>12, <1>13
<1>17. /\ done.split.fee \in Nat /\ done.split.principal \in Nat
       /\ done.split.fee + done.split.principal <= amount
  BY <1>6, <1>13, <1>14
<1> QED
  BY ONLY <1>15, <1>16, <1>17 DEF done

\* The same for a payment against a frozen debt.
LEMMA AuctionRepaymentFacts ==
  ASSUME Inv, NEW vault \in VaultRecords, vault.vault_type_id \in TypeIds, NEW amount \in Nat
  PROVE  LET done == AuctionRepayment(vault, amount)
             vt == vault.vault_type_id
         IN  /\ done.vault = [vault EXCEPT
                    !.auction_debt_snapshot = done.vault.auction_debt_snapshot,
                    !.auction_principal_snapshot = done.vault.auction_principal_snapshot]
             /\ done.vault.auction_debt_snapshot \in Nat
             /\ done.vault.auction_principal_snapshot \in Nat
             /\ done.books \in BookRecords
             /\ done.books.rate_accumulator > 0
             /\ done.split.fee \in Nat /\ done.split.principal \in Nat
             /\ done.split.fee + done.split.principal <= amount
             /\ done.books.surplus_buffer
                  = books[vt].surplus_buffer + buffer_amount(vt, done.split.fee)
<1> DEFINE vt == vault.vault_type_id
           debt == vault.auction_debt_snapshot
           paid == AtMost(amount, debt)
           split == split_payment(debt, vault.auction_principal_snapshot, paid)
           done == AuctionRepayment(vault, amount)
           base == books[vt]
<1>1. debt \in Nat /\ vault.auction_principal_snapshot \in Nat
  BY DEF VaultRecords
<1>2. paid \in Nat /\ paid <= amount /\ paid <= debt
  BY <1>1 DEF AtMost
<1>3. /\ split.fee \in Nat /\ split.principal \in Nat
      /\ split.fee + split.principal <= paid
      /\ split.principal <= vault.auction_principal_snapshot
  <2> HIDE DEF debt, paid
  <2> QED
    BY <1>1, <1>2, SplitFacts
<1>4. buffer_amount(vt, split.fee) \in Nat
  <2> HIDE DEF split
  <2> QED
    BY <1>3, BufferFacts
<1>5. base \in BookRecords /\ base.rate_accumulator > 0
  BY DEF Inv, TypeOK, TypeIdOK
<1>6. done = [vault |-> [vault EXCEPT
                            !.auction_debt_snapshot = without_dust(@ - paid),
                            !.auction_principal_snapshot = without_dust(@ - split.principal)],
              books |-> [base EXCEPT !.auction_debt_locked = @ - paid,
                                     !.auction_principal_locked = @ - split.principal,
                                     !.surplus_buffer = @ + buffer_amount(vt, split.fee)],
              split |-> split]
  BY DEF AuctionRepayment
<1> HIDE DEF paid, split, done, base
<1>7. /\ done.vault = [vault EXCEPT
                          !.auction_debt_snapshot = done.vault.auction_debt_snapshot,
                          !.auction_principal_snapshot = done.vault.auction_principal_snapshot]
      /\ done.vault.auction_debt_snapshot = without_dust(debt - paid)
      /\ done.vault.auction_principal_snapshot
            = without_dust(vault.auction_principal_snapshot - split.principal)
  BY <1>6 DEF VaultRecords
<1>8. done.vault.auction_debt_snapshot \in Nat /\ done.vault.auction_principal_snapshot \in Nat
  BY <1>1, <1>2, <1>3, <1>7 DEF without_dust
<1>9. /\ done.books \in BookRecords
      /\ done.books.rate_accumulator > 0
      /\ done.books.surplus_buffer = base.surplus_buffer + buffer_amount(vt, split.fee)
  <2> DEFINE locked == base.auction_debt_locked - paid
             principal_locked == base.auction_principal_locked - split.principal
             surplus == base.surplus_buffer + buffer_amount(vt, split.fee)
  <2>1. locked \in Int /\ principal_locked \in Int /\ surplus \in Nat
    BY <1>2, <1>3, <1>4, <1>5 DEF BookRecords
  <2>2. done.books = [base EXCEPT !.auction_debt_locked = locked,
                                  !.auction_principal_locked = principal_locked,
                                  !.surplus_buffer = surplus]
    BY <1>6
  <2>3. surplus = base.surplus_buffer + buffer_amount(vt, split.fee)
    OBVIOUS
  <2> HIDE DEF locked, principal_locked, surplus
  <2>4. done.books \in BookRecords
    BY <1>5, <2>1, <2>2 DEF BookRecords
  <2>5. done.books.rate_accumulator > 0 /\ done.books.surplus_buffer = surplus
    BY <1>5, <2>2 DEF BookRecords
  <2> QED
    BY ONLY <2>3, <2>4, <2>5
<1>10. done.split = split /\ base = books[vt]
  BY <1>6 DEF base
<1>11. split.fee + split.principal <= amount
  BY <1>2, <1>3
<1>12. /\ done.vault = [vault EXCEPT
                          !.auction_debt_snapshot = done.vault.auction_debt_snapshot,
                          !.auction_principal_snapshot = done.vault.auction_principal_snapshot]
       /\ done.vault.auction_debt_snapshot \in Nat
       /\ done.vault.auction_principal_snapshot \in Nat
  BY <1>7, <1>8
<1>13. /\ done.books \in BookRecords
       /\ done.books.rate_accumulator > 0
       /\ done.books.surplus_buffer = books[vt].surplus_buffer + buffer_amount(vt, done.split.fee)
  BY <1>9, <1>10
<1>14. /\ done.split.fee \in Nat /\ done.split.principal \in Nat
       /\ done.split.fee + done.split.principal <= amount
  BY <1>3, <1>10, <1>11
<1> QED
  BY ONLY <1>12, <1>13, <1>14 DEF done

-----------------------------------------------------------------------------
(* The totals of StableCustody. *)

SurplusIn(b) == [vt \in TypeIds |-> b[vt].surplus_buffer]

LEMMA SurplusUpdate ==
  ASSUME NEW b \in [TypeIds -> BookRecords], NEW vt \in TypeIds, NEW new \in BookRecords
  PROVE  /\ [b EXCEPT ![vt] = new] \in [TypeIds -> BookRecords]
         /\ Total(SurplusIn([b EXCEPT ![vt] = new]))
              = Total(SurplusIn(b)) + new.surplus_buffer - b[vt].surplus_buffer
<1> DEFINE f == SurplusIn(b)
           n == new.surplus_buffer
<1>1. f \in [TypeIds -> Nat] /\ n \in Nat /\ f[vt] = b[vt].surplus_buffer
  BY DEF SurplusIn, BookRecords
<1>2. SurplusIn([b EXCEPT ![vt] = new]) = [f EXCEPT ![vt] = n]
  BY DEF SurplusIn
<1>3. IsFiniteSet(TypeIds)
  BY AccountFacts
<1> HIDE DEF f, n
<1>4. Total([f EXCEPT ![vt] = n]) = Total(f) + n - f[vt]
  BY <1>1, <1>3, TotalUpdate
<1>5. Total(SurplusIn([b EXCEPT ![vt] = new])) = Total(f) + n - b[vt].surplus_buffer
  BY <1>1, <1>2, <1>4
<1>6. [b EXCEPT ![vt] = new] \in [TypeIds -> BookRecords]
  OBVIOUS
<1> QED
  BY ONLY <1>5, <1>6 DEF f, n

\* The index of auction_bids.
Pairs == VaultIds \X Accounts

LEMMA EscrowUpdate ==
  ASSUME NEW bids \in [Pairs -> Nat], NEW k \in Pairs, NEW n \in Nat
  PROVE  /\ [bids EXCEPT ![k] = n] \in [Pairs -> Nat]
         /\ Total([bids EXCEPT ![k] = n]) = Total(bids) + n - bids[k]
<1>1. IsFiniteSet(Pairs)
  BY AccountFacts DEF Pairs
<1>2. Total([bids EXCEPT ![k] = n]) = Total(bids) + n - bids[k]
  BY <1>1, TotalUpdate
<1> QED
  BY <1>2

LEMMA CustodyTypes ==
  ASSUME Inv
  PROVE  /\ Total(SurplusIn(books)) \in Nat /\ Total(auction_bids) \in Nat
         /\ stable.balances[con_vaults] \in Nat
         /\ stable.balances[con_vaults] >= Total(SurplusIn(books)) + Total(auction_bids)
<1>1. books \in [TypeIds -> BookRecords] /\ auction_bids \in [VaultIds \X Accounts -> Nat]
      /\ stable.balances \in [Accounts -> Nat]
  BY DEF Inv, TypeOK
<1>2. SurplusIn(books) \in [TypeIds -> Nat]
  BY <1>1 DEF SurplusIn, BookRecords
<1>3. Total(SurplusIn(books)) \in Nat /\ Total(auction_bids) \in Nat
  BY <1>1, <1>2, TotalType, AccountFacts
<1>4. SurplusOf = SurplusIn(books)
  BY DEF SurplusOf, SurplusIn
<1> QED
  BY <1>1, <1>3, <1>4, AccountFacts DEF Inv, StableCustody

\* Moving what an account can pay keeps balances what they are.
LEMMA MovedType ==
  ASSUME NEW b \in [Accounts -> Nat], NEW from \in Accounts, NEW to \in Accounts,
         NEW amount \in Nat, b[from] >= amount
  PROVE  Moved(b, from, to, amount) \in [Accounts -> Nat]
  BY DEF Moved

-----------------------------------------------------------------------------
(* What one kind of change does to the parts of the invariant. *)

\* New books of one type.
LEMMA BooksStep ==
  ASSUME Inv, NEW vt \in TypeIds, NEW new \in BookRecords, new.rate_accumulator > 0,
         books' = [books EXCEPT ![vt] = new], vault_types' = vault_types
  PROVE  /\ books' \in [TypeIds -> BookRecords]
         /\ \A t \in TypeIds : TypeIdOK(t)'
         /\ Total(SurplusIn(books'))
              = Total(SurplusIn(books)) + new.surplus_buffer - books[vt].surplus_buffer
<1>1. books \in [TypeIds -> BookRecords]
  BY DEF Inv, TypeOK
<1>2. books' \in [TypeIds -> BookRecords]
  BY <1>1
<1>3. \A t \in TypeIds : TypeIdOK(t)'
  BY <1>1 DEF Inv, TypeIdOK
<1>4. Total(SurplusIn([books EXCEPT ![vt] = new]))
        = Total(SurplusIn(books)) + new.surplus_buffer - books[vt].surplus_buffer
  BY <1>1, SurplusUpdate
<1> QED
  BY <1>2, <1>3, <1>4

\* A vault that keeps its owner, type and auction, or whose auction ends or
\* starts without a bid.
LEMMA VaultStep ==
  ASSUME Inv, NEW v \in VaultIds, NEW new \in VaultRecords,
         vaults' = [vaults EXCEPT ![v] = new],
         auction_bids' = auction_bids, vault_types' = vault_types,
         new.owner = vaults[v].owner, new.vault_type_id = vaults[v].vault_type_id,
         new.open => vaults[v].open,
         new.auction_settled = vaults[v].auction_settled,
         new.auction_open => vaults[v].open,
         \/ new.auction_open = vaults[v].auction_open
            /\ new.auction_highest_bidder = vaults[v].auction_highest_bidder
            /\ new.auction_highest_bid = vaults[v].auction_highest_bid
         \/ ~new.auction_open
         \/ new.auction_highest_bidder = NoOne
  PROVE  /\ vaults' \in [VaultIds -> VaultRecords]
         /\ \A w \in VaultIds : VaultOK(w)'
<1>1. vaults \in [VaultIds -> VaultRecords]
  BY DEF Inv, TypeOK
<1>2. vaults' \in [VaultIds -> VaultRecords] /\ vaults'[v] = new
  BY <1>1
<1>3. VaultOK(v)
  BY DEF Inv
<1>4. VaultOK(v)'
  BY <1>2, <1>3 DEF VaultOK, CollateralOf
<1>5. ASSUME NEW w \in VaultIds, w # v PROVE VaultOK(w)'
  <2>1. VaultOK(w) /\ vaults'[w] = vaults[w]
    BY <1>1, <1>5 DEF Inv
  <2> QED
    BY <2>1 DEF VaultOK, CollateralOf
<1> QED
  BY <1>2, <1>4, <1>5

\* Payments from the caller pay for what leaves the contract and for the buffer.
LEMMA PaymentFacts ==
  ASSUME Inv, NEW caller \in Users, NEW vt \in TypeIds, NEW amount \in Nat,
         stable.balances[caller] >= amount,
         NEW split, split.fee \in Nat, split.principal \in Nat,
         split.fee + split.principal <= amount
  PROVE  LET paid == PaidOut(LedgerTransfer(stable, caller, con_vaults, amount), vt, split)
         IN  /\ paid \in Ledgers
             /\ paid.balances[con_vaults]
                  >= stable.balances[con_vaults] + buffer_amount(vt, split.fee)
<1> DEFINE ledger == LedgerTransfer(stable, caller, con_vaults, amount)
           held == stable.balances[con_vaults]
           paid == PaidOut(ledger, vt, split)
           kept == buffer_amount(vt, split.fee)
<1>1. stable \in LedgersOver(Accounts) /\ held \in Nat
  BY CustodyTypes DEF Inv, Ledgers
<1>2. IsFiniteSet(Accounts) /\ con_vaults \in Accounts /\ caller \in Accounts /\ caller # con_vaults
  BY AccountFacts, VaultsAssumption
<1>3. ledger \in LedgersOver(Accounts) /\ ledger.balances[con_vaults] = held + amount
  BY <1>1, <1>2, TransferKeepsLedger
<1> HIDE DEF ledger, held
<1>4. ledger.balances[con_vaults] >= split.fee + split.principal
  BY <1>1, <1>3
<1>5. /\ paid \in Ledgers
      /\ paid.balances[con_vaults]
           >= ledger.balances[con_vaults] - split.fee - split.principal + kept
  BY <1>3, <1>4, PaidOutFacts DEF Ledgers
<1>6. kept \in Nat
  BY BufferFacts
<1> HIDE DEF kept, paid
<1>7. paid.balances[con_vaults] \in Nat
  BY <1>2, <1>5 DEF Ledgers, LedgersOver
<1>8. paid.balances[con_vaults] >= held + kept
  BY <1>1, <1>3, <1>5, <1>6, <1>7
<1> QED
  BY ONLY <1>5, <1>8 DEF paid, ledger, held, kept

\* Custody, from the balance and the totals of the next state.
LEMMA CustodyStep ==
  ASSUME stable'.balances[con_vaults] >= Total(SurplusIn(books')) + Total(auction_bids')
  PROVE  StableCustody'
  BY DEF StableCustody, SurplusOf, SurplusIn

\* The ledger is typed.
LEMMA LedgerTyped ==
  ASSUME NEW ledger \in Ledgers
  PROVE  ledger \in [balances : [Accounts -> Nat], total_supply : Nat]
  BY DEF Ledgers, LedgersOver

\* The balances of one collateral token change.
LEMMA CollateralStep ==
  ASSUME Inv, NEW c \in Collaterals, NEW from \in Accounts, NEW to \in Accounts,
         NEW amount \in Nat, collateral[c][from] >= amount
  PROVE  /\ Moved(collateral[c], from, to, amount) \in [Accounts -> Nat]
         /\ [collateral EXCEPT ![c] = Moved(@, from, to, amount)]
              \in [Collaterals -> [Accounts -> Nat]]
<1>1. collateral \in [Collaterals -> [Accounts -> Nat]]
  BY DEF Inv, TypeOK
<1>2. Moved(collateral[c], from, to, amount) \in [Accounts -> Nat]
  BY <1>1, MovedType
<1> QED
  BY <1>1, <1>2

\* Debt is added to the live totals of a type.
LEMMA DebtAdded ==
  ASSUME NEW base \in BookRecords, base.rate_accumulator > 0, NEW x \in Nat, NEW y \in Nat
  PROVE  LET new == [base EXCEPT !.normalized_debt_total = @ + x, !.principal_outstanding = @ + y]
         IN  /\ new \in BookRecords
             /\ new.rate_accumulator > 0
             /\ new.surplus_buffer = base.surplus_buffer
<1> DEFINE debt_total == base.normalized_debt_total + x
           principal_total == base.principal_outstanding + y
<1>1. debt_total \in Int /\ principal_total \in Int
  BY DEF BookRecords
<1> HIDE DEF debt_total, principal_total
<1> DEFINE new == [base EXCEPT !.normalized_debt_total = debt_total,
                               !.principal_outstanding = principal_total]
<1>2. new \in BookRecords /\ new.rate_accumulator > 0 /\ new.surplus_buffer = base.surplus_buffer
  BY <1>1 DEF BookRecords
<1> QED
  BY ONLY <1>2 DEF debt_total, principal_total

-----------------------------------------------------------------------------
(* The initial state. *)

LEMMA InitEstablishesInv ==
  ASSUME Init PROVE Inv
<1> USE DEF Init
<1>1. /\ IsFiniteSet(Accounts) /\ con_vaults \in Accounts /\ IsFiniteSet(TypeIds)
      /\ SCALE \in Nat /\ SCALE > 0 /\ BPS_DENOMINATOR \in Nat /\ BPS_DENOMINATOR > 0
      /\ MaxTypes \in Nat /\ MaxVaults \in Nat
  BY AccountFacts, VaultsAssumption, ScaleAssumption
<1>2. NoType \in TypeSettings
  BY DEF NoType, TypeSettings, Ratios, Limits, AuctionTerms
<1>3. NewBooks(0) \in BookRecords /\ NewBooks(0).rate_accumulator > 0
      /\ NewBooks(0).surplus_buffer = 0
  BY <1>1 DEF NewBooks, BookRecords
<1>4. NoVault \in VaultRecords
  BY DEF NoVault, VaultRecords
<1>5. Total(InitialStable) \in Nat
  BY <1>1, TotalType, VaultsAssumption
<1>6. stable \in Ledgers
  BY <1>5, VaultsAssumption DEF Ledgers, LedgersOver
<1>7. now \in Nat /\ price \in [Collaterals -> Nat]
      /\ collateral \in [Collaterals -> [Accounts -> Nat]]
  BY VaultsAssumption
<1>8. /\ vault_types \in [TypeIds -> TypeSettings]
      /\ books \in [TypeIds -> BookRecords]
      /\ vaults \in [VaultIds -> VaultRecords]
      /\ auction_bids \in [VaultIds \X Accounts -> Nat]
  BY <1>2, <1>3, <1>4
<1>9. vault_type_count \in 0..MaxTypes /\ vault_count \in 0..MaxVaults
  BY <1>1
<1>10. /\ savings_contract \in FeeReceivers \cup {NoOne}
       /\ treasury_address \in FeeReceivers \cup {NoOne}
       /\ governor \in Users /\ proposed_governor \in Users \cup {NoOne}
       /\ paused \in BOOLEAN
  BY VaultsAssumption
<1>11. TypeOK
  BY <1>6, <1>7, <1>8, <1>9, <1>10, LedgerTyped DEF TypeOK
<1>12. \A v \in VaultIds : VaultOK(v)
  BY DEF VaultOK, NoVault
<1>13. \A vt \in TypeIds : TypeIdOK(vt)
  BY <1>1, <1>3 DEF TypeIdOK, NoType
<1>14. StableCustody
  <2>1. SurplusOf = [vt \in TypeIds |-> 0]
    BY <1>3 DEF SurplusOf
  <2>2. Total(SurplusOf) = 0 /\ Total(auction_bids) = 0
    BY <2>1, TotalZero
  <2>3. stable.balances[con_vaults] \in Nat
    BY <1>1, <1>6 DEF Ledgers, LedgersOver
  <2> QED
    BY <2>2, <2>3 DEF StableCustody
<1> QED
  BY <1>6, <1>11, <1>12, <1>13, <1>14 DEF Inv

-----------------------------------------------------------------------------
(* The life of a vault.  One lemma per action, one step per part of Inv. *)

LEMMA CreateVaultStep ==
  ASSUME Inv, NEW caller \in Users, NEW vt \in TypeIds, NEW collateral_amount \in Nat,
         NEW debt_amount \in Nat, create_vault(caller, vt, collateral_amount, debt_amount)
  PROVE  Inv'
<1> DEFINE c == vault_types[vt].collateral_contract
           id == vault_count + 1
           shares == Div(debt_amount, current_rate(vt))
           new == [NoVault EXCEPT !.owner = caller, !.vault_type_id = vt, !.open = TRUE,
                                  !.collateral_amount = collateral_amount,
                                  !.debt_shares = shares, !.principal = debt_amount]
           new_books == [accrued(vt) EXCEPT !.normalized_debt_total = @ + shares,
                                            !.principal_outstanding = @ + debt_amount]
<1>1. c \in Collaterals /\ caller \in Accounts /\ con_vaults \in Accounts
  BY AccountFacts DEF Inv, TypeOK, TypeSettings, create_vault
<1>2. id \in VaultIds /\ id \in 0..MaxVaults
  BY VaultsAssumption DEF create_vault, Inv, TypeOK, VaultIds
<1>3. shares \in Nat
  BY RateFacts, DivType
<1>4. accrued(vt) \in BookRecords /\ accrued(vt).rate_accumulator > 0
      /\ accrued(vt).surplus_buffer = books[vt].surplus_buffer
  BY AccruedFacts
<1>5. vaults' = [vaults EXCEPT ![id] = new] /\ books' = [books EXCEPT ![vt] = new_books]
      /\ stable' = LedgerMint(stable, caller, debt_amount)
      /\ UNCHANGED <<now, price, vault_types, vault_type_count, auction_bids, wiring>>
      /\ vault_count' = id
  BY DEF create_vault
<1> HIDE DEF shares
<1>6. new_books \in BookRecords /\ new_books.rate_accumulator > 0
      /\ new_books.surplus_buffer = books[vt].surplus_buffer
  BY <1>3, <1>4, DebtAdded
<1>7. new \in VaultRecords
  BY <1>3 DEF NoVault, VaultRecords
<1>8. new.owner = caller /\ new.vault_type_id = vt /\ ~new.auction_settled /\ ~new.auction_open
  BY DEF NoVault
<1> HIDE DEF new, new_books
<1>9. /\ books' \in [TypeIds -> BookRecords]
      /\ \A t \in TypeIds : TypeIdOK(t)'
      /\ Total(SurplusIn(books'))
           = Total(SurplusIn(books)) + new_books.surplus_buffer - books[vt].surplus_buffer
  BY <1>5, <1>6, BooksStep
<1>10. /\ stable' \in Ledgers
       /\ stable'.balances[con_vaults] >= stable.balances[con_vaults]
  BY <1>1, <1>5, MintKeepsLedger, AccountFacts DEF Inv, Ledgers
<1>11. StableCustody'
  <2>1. auction_bids' = auction_bids
    BY <1>5
  <2>2. books[vt].surplus_buffer \in Nat
    BY DEF Inv, TypeOK, BookRecords
  <2>3. stable'.balances[con_vaults] \in Nat
    BY <1>1, <1>10 DEF Ledgers, LedgersOver
  <2> QED
    BY <1>6, <1>9, <1>10, <2>1, <2>2, <2>3, CustodyTypes, CustodyStep
<1>12. vaults' \in [VaultIds -> VaultRecords]
  BY <1>5, <1>7 DEF Inv, TypeOK
<1>13. ASSUME NEW w \in VaultIds PROVE VaultOK(w)'
  <2>1. vaults \in [VaultIds -> VaultRecords] /\ VaultOK(w)
    BY DEF Inv, TypeOK
  <2>2. CASE w = id
    <3>1. vaults'[w] = new
      BY <1>5, <2>1, <2>2
    <3> QED
      BY <1>1, <1>5, <1>8, <3>1 DEF VaultOK, CollateralOf
  <2>3. CASE w # id
    <3>1. vaults'[w] = vaults[w]
      BY <1>5, <2>1, <2>3
    <3> QED
      BY <1>5, <2>1, <3>1 DEF VaultOK, CollateralOf
  <2> QED
    BY <2>2, <2>3
<1>14. collateral' \in [Collaterals -> [Accounts -> Nat]]
  <2>1. collateral[c][caller] >= collateral_amount
        /\ collateral' = [collateral EXCEPT ![c] = Moved(@, caller, con_vaults, collateral_amount)]
    BY DEF create_vault, CanPay
  <2> QED
    BY <1>1, <2>1, CollateralStep
<1>15. TypeOK'
  BY <1>2, <1>5, <1>9, <1>10, <1>12, <1>14, LedgerTyped DEF Inv, TypeOK, wiring
<1> QED
  BY <1>9, <1>10, <1>11, <1>13, <1>15 DEF Inv

\* Most calls change one vault, the books of its type, the contract's stable and
\* one collateral token, and nothing else that the invariant speaks of.
LEMMA VaultCallStep ==
  ASSUME Inv, NEW vt \in TypeIds, NEW new \in BookRecords, new.rate_accumulator > 0,
         books' = [books EXCEPT ![vt] = new],
         stable' \in Ledgers,
         stable'.balances[con_vaults]
            >= stable.balances[con_vaults] + new.surplus_buffer - books[vt].surplus_buffer,
         collateral' \in [Collaterals -> [Accounts -> Nat]],
         vaults' \in [VaultIds -> VaultRecords],
         \A v \in VaultIds : VaultOK(v)',
         UNCHANGED <<now, price, vault_types, vault_type_count, vault_count, auction_bids, wiring>>
  PROVE  Inv'
<1>1. vault_types' = vault_types /\ auction_bids' = auction_bids
  OBVIOUS
<1>2. /\ books' \in [TypeIds -> BookRecords]
      /\ \A t \in TypeIds : TypeIdOK(t)'
      /\ Total(SurplusIn(books'))
           = Total(SurplusIn(books)) + new.surplus_buffer - books[vt].surplus_buffer
  BY <1>1, BooksStep
<1>3. StableCustody'
  <2>1. new.surplus_buffer \in Nat /\ books[vt].surplus_buffer \in Nat
    BY DEF Inv, TypeOK, BookRecords
  <2>2. stable'.balances[con_vaults] \in Nat
    BY AccountFacts DEF Ledgers, LedgersOver
  <2> QED
    BY <1>1, <1>2, <2>1, <2>2, CustodyTypes, CustodyStep
<1>4. TypeOK'
  BY <1>2, LedgerTyped DEF Inv, TypeOK, wiring
<1> QED
  BY <1>2, <1>3, <1>4 DEF Inv

\* What an open vault tells of itself.
LEMMA OpenVaultFacts ==
  ASSUME Inv, NEW v \in VaultIds, vaults[v].open
  PROVE  /\ vaults[v] \in VaultRecords
         /\ vaults[v].owner \in Accounts /\ vaults[v].owner \in Users
         /\ vaults[v].vault_type_id \in TypeIds
         /\ CollateralOf(v) \in Collaterals
         /\ ~vaults[v].auction_settled
         /\ vaults[v].collateral_amount \in Nat
  BY AccountFacts DEF Inv, TypeOK, VaultOK, VaultRecords

LEMMA DepositStep ==
  ASSUME Inv, NEW caller \in Users, NEW v \in VaultIds, NEW amount \in Nat,
         deposit_collateral(caller, v, amount)
  PROVE  Inv'
<1> DEFINE c == CollateralOf(v)
           vt == vaults[v].vault_type_id
           new == [vaults[v] EXCEPT !.collateral_amount = @ + amount]
<1>1. /\ vaults[v].open /\ ~vaults[v].auction_open
      /\ collateral[c][caller] >= amount
      /\ collateral' = [collateral EXCEPT ![c] = Moved(@, caller, con_vaults, amount)]
      /\ vaults' = [vaults EXCEPT ![v] = new]
      /\ UNCHANGED <<now, price, stable, types, vault_count, auction_bids, wiring>>
  BY DEF deposit_collateral, OwnLiveVault, LiveVault, CanPay
<1>2. /\ vaults[v] \in VaultRecords /\ vt \in TypeIds /\ c \in Collaterals
      /\ vaults[v].collateral_amount \in Nat
  BY <1>1, OpenVaultFacts
<1>3. collateral' \in [Collaterals -> [Accounts -> Nat]]
  BY <1>1, <1>2, CollateralStep, AccountFacts
<1>4. new \in VaultRecords
  BY <1>2 DEF VaultRecords
<1>5. /\ new.owner = vaults[v].owner /\ new.vault_type_id = vt /\ new.open = vaults[v].open
      /\ new.auction_settled = vaults[v].auction_settled /\ ~new.auction_open
  BY <1>1, <1>2 DEF VaultRecords
<1>6. vaults' \in [VaultIds -> VaultRecords] /\ \A w \in VaultIds : VaultOK(w)'
  <2> HIDE DEF new
  <2> QED
    BY <1>1, <1>4, <1>5, VaultStep DEF types
<1>7. /\ books[vt] \in BookRecords /\ books[vt].rate_accumulator > 0
      /\ books' = [books EXCEPT ![vt] = books[vt]]
      /\ books[vt].surplus_buffer \in Nat
  BY <1>1, <1>2 DEF Inv, TypeOK, TypeIdOK, types, BookRecords
<1>8. stable' \in Ledgers
      /\ stable'.balances[con_vaults]
           >= stable.balances[con_vaults] + books[vt].surplus_buffer - books[vt].surplus_buffer
  BY <1>1, <1>7, CustodyTypes DEF Inv
<1>9. UNCHANGED <<now, price, vault_types, vault_type_count, vault_count, auction_bids, wiring>>
  BY <1>1 DEF types
<1> QED
  BY <1>2, <1>3, <1>6, <1>7, <1>8, <1>9, VaultCallStep

LEMMA WithdrawStep ==
  ASSUME Inv, NEW caller \in Users, NEW v \in VaultIds, NEW amount \in Nat,
         withdraw_collateral(caller, v, amount)
  PROVE  Inv'
<1> DEFINE c == CollateralOf(v)
           vt == vaults[v].vault_type_id
           new_collateral == vaults[v].collateral_amount - amount
           new == [vaults[v] EXCEPT !.collateral_amount = new_collateral]
<1>1. /\ vaults[v].open /\ ~vaults[v].auction_open
      /\ new_collateral >= 0
      /\ collateral[c][con_vaults] >= amount
      /\ collateral' = [collateral EXCEPT ![c] = Moved(@, con_vaults, caller, amount)]
      /\ vaults' = [vaults EXCEPT ![v] = new]
      /\ books' = [books EXCEPT ![vt] = accrued(vt)]
      /\ UNCHANGED <<now, price, stable, vault_types, vault_type_count, vault_count,
                     auction_bids, wiring>>
  BY DEF withdraw_collateral, OwnLiveVault, LiveVault, CanPay
<1>2. /\ vaults[v] \in VaultRecords /\ vt \in TypeIds /\ c \in Collaterals
      /\ vaults[v].collateral_amount \in Nat
  BY <1>1, OpenVaultFacts
<1>3. collateral' \in [Collaterals -> [Accounts -> Nat]]
  BY <1>1, <1>2, CollateralStep, AccountFacts
<1>4. new \in VaultRecords
  BY <1>1, <1>2 DEF VaultRecords
<1>5. /\ new.owner = vaults[v].owner /\ new.vault_type_id = vt /\ new.open = vaults[v].open
      /\ new.auction_settled = vaults[v].auction_settled /\ ~new.auction_open
  BY <1>1, <1>2 DEF VaultRecords
<1>6. vaults' \in [VaultIds -> VaultRecords] /\ \A w \in VaultIds : VaultOK(w)'
  <2> HIDE DEF new
  <2> QED
    BY <1>1, <1>4, <1>5, VaultStep
<1>7. /\ accrued(vt) \in BookRecords /\ accrued(vt).rate_accumulator > 0
      /\ accrued(vt).surplus_buffer = books[vt].surplus_buffer
      /\ books[vt].surplus_buffer \in Nat
  BY <1>2, AccruedFacts DEF Inv, TypeOK, BookRecords
<1>8. stable' \in Ledgers
      /\ stable'.balances[con_vaults]
           >= stable.balances[con_vaults] + accrued(vt).surplus_buffer - books[vt].surplus_buffer
  BY <1>1, <1>7, CustodyTypes DEF Inv
<1> QED
  BY <1>1, <1>2, <1>3, <1>6, <1>7, <1>8, VaultCallStep

LEMMA BorrowStep ==
  ASSUME Inv, NEW caller \in Users, NEW v \in VaultIds, NEW amount \in Nat,
         borrow(caller, v, amount)
  PROVE  Inv'
<1> DEFINE vt == vaults[v].vault_type_id
           shares == Div(amount, current_rate(vt))
           debt_shares == vaults[v].debt_shares + shares
           principal == vaults[v].principal + amount
           new == [vaults[v] EXCEPT !.debt_shares = debt_shares, !.principal = principal]
           new_books == [accrued(vt) EXCEPT !.normalized_debt_total = @ + shares,
                                            !.principal_outstanding = @ + amount]
<1>1. /\ vaults[v].open /\ ~vaults[v].auction_open
      /\ vaults' = [vaults EXCEPT ![v] = new]
      /\ books' = [books EXCEPT ![vt] = new_books]
      /\ stable' = LedgerMint(stable, caller, amount)
      /\ UNCHANGED <<now, price, collateral, vault_types, vault_type_count, vault_count,
                     auction_bids, wiring>>
  <2>1. /\ vaults[v].open /\ ~vaults[v].auction_open
        /\ stable' = LedgerMint(stable, caller, amount)
        /\ UNCHANGED <<now, price, collateral, vault_types, vault_type_count, vault_count,
                       auction_bids, wiring>>
    BY DEF borrow, OwnLiveVault, LiveVault
  <2>2. vaults' = [vaults EXCEPT ![v] = new]
    BY Zenon DEF borrow
  <2>3. books' = [books EXCEPT ![vt] = new_books]
    BY Zenon DEF borrow
  <2> QED
    BY <2>1, <2>2, <2>3
<1>2. vaults[v] \in VaultRecords /\ vt \in TypeIds
  BY <1>1, OpenVaultFacts
<1>3. shares \in Nat
  BY <1>2, RateFacts, DivType
<1>4. debt_shares \in Nat /\ principal \in Nat
  <2> HIDE DEF shares
  <2> QED
    BY <1>2, <1>3 DEF VaultRecords
<1> HIDE DEF shares, debt_shares, principal
<1>5. new \in VaultRecords
  BY <1>2, <1>4 DEF VaultRecords
<1>6. /\ new.owner = vaults[v].owner /\ new.vault_type_id = vt /\ new.open = vaults[v].open
      /\ new.auction_settled = vaults[v].auction_settled /\ ~new.auction_open
  BY <1>1, <1>2 DEF VaultRecords
<1> HIDE DEF new
<1>7. vaults' \in [VaultIds -> VaultRecords] /\ \A w \in VaultIds : VaultOK(w)'
  BY <1>1, <1>5, <1>6, VaultStep
<1>8. /\ accrued(vt) \in BookRecords /\ accrued(vt).rate_accumulator > 0
      /\ accrued(vt).surplus_buffer = books[vt].surplus_buffer
      /\ books[vt].surplus_buffer \in Nat
  BY <1>2, AccruedFacts DEF Inv, TypeOK, BookRecords
<1>9. new_books \in BookRecords /\ new_books.rate_accumulator > 0
      /\ new_books.surplus_buffer = books[vt].surplus_buffer
  BY <1>3, <1>8, DebtAdded
<1> HIDE DEF new_books
<1>10. /\ stable' \in Ledgers
       /\ stable'.balances[con_vaults] >= stable.balances[con_vaults]
  BY <1>1, MintKeepsLedger, AccountFacts DEF Inv, Ledgers
<1>11. stable'.balances[con_vaults]
         >= stable.balances[con_vaults] + new_books.surplus_buffer - books[vt].surplus_buffer
  BY <1>8, <1>9, <1>10, CustodyTypes
<1>12. collateral' \in [Collaterals -> [Accounts -> Nat]]
  BY <1>1 DEF Inv, TypeOK
<1> QED
  BY <1>1, <1>2, <1>7, <1>9, <1>10, <1>11, <1>12, VaultCallStep

\* A closed record is one that VaultStep accepts.
LEMMA ClosedRecordFacts ==
  ASSUME NEW vault \in VaultRecords
  PROVE  /\ close_vault_record(vault) \in VaultRecords
         /\ close_vault_record(vault).owner = vault.owner
         /\ close_vault_record(vault).vault_type_id = vault.vault_type_id
         /\ close_vault_record(vault).auction_settled = vault.auction_settled
         /\ ~close_vault_record(vault).open
         /\ ~close_vault_record(vault).auction_open
  BY DEF close_vault_record, clear_auction, VaultRecords

\* A call in which the caller pays amount into debt: it is split, its fee leaves
\* for its destination and the buffer, and its principal is burnt.
LEMMA PaymentStep ==
  ASSUME Inv, NEW caller \in Users, NEW v \in VaultIds, NEW amount \in Nat,
         vaults[v].open,
         stable.balances[caller] >= amount,
         NEW split, split.fee \in Nat, split.principal \in Nat,
         split.fee + split.principal <= amount,
         NEW new \in VaultRecords,
         vaults' = [vaults EXCEPT ![v] = new],
         new.owner = vaults[v].owner, new.vault_type_id = vaults[v].vault_type_id,
         new.auction_settled = vaults[v].auction_settled, ~new.auction_open,
         NEW new_books \in BookRecords, new_books.rate_accumulator > 0,
         new_books.surplus_buffer
            = books[vaults[v].vault_type_id].surplus_buffer
                + buffer_amount(vaults[v].vault_type_id, split.fee),
         books' = [books EXCEPT ![vaults[v].vault_type_id] = new_books],
         stable' = PaidOut(LedgerTransfer(stable, caller, con_vaults, amount),
                           vaults[v].vault_type_id, split),
         collateral' \in [Collaterals -> [Accounts -> Nat]],
         UNCHANGED <<now, price, vault_types, vault_type_count, vault_count, auction_bids, wiring>>
  PROVE  Inv'
<1> DEFINE vt == vaults[v].vault_type_id
<1>1. vaults[v] \in VaultRecords /\ vt \in TypeIds
  BY OpenVaultFacts
<1>2. vaults' \in [VaultIds -> VaultRecords] /\ \A w \in VaultIds : VaultOK(w)'
  BY VaultStep
<1>3. /\ stable' \in Ledgers
      /\ stable'.balances[con_vaults]
           >= stable.balances[con_vaults] + buffer_amount(vt, split.fee)
  BY <1>1, PaymentFacts
<1>4. stable'.balances[con_vaults]
        >= stable.balances[con_vaults] + new_books.surplus_buffer - books[vt].surplus_buffer
  <2>1. books[vt].surplus_buffer \in Nat /\ buffer_amount(vt, split.fee) \in Nat
    BY <1>1, BufferFacts DEF Inv, TypeOK, BookRecords
  <2> QED
    BY <1>3, <2>1, CustodyTypes
<1> QED
  BY <1>1, <1>2, <1>3, <1>4, VaultCallStep

\* The same when what is paid is the live debt.
LEMMA RepaymentStep ==
  ASSUME Inv, NEW caller \in Users, NEW v \in VaultIds, NEW amount \in Nat,
         vaults[v].open, ~vaults[v].auction_open,
         stable.balances[caller] >= amount,
         NEW done, done = LiveRepayment(vaults[v], amount),
         NEW new \in VaultRecords,
         vaults' = [vaults EXCEPT ![v] = new],
         new.owner = vaults[v].owner, new.vault_type_id = vaults[v].vault_type_id,
         new.auction_settled = vaults[v].auction_settled, ~new.auction_open,
         books' = [books EXCEPT ![vaults[v].vault_type_id] = done.books],
         stable' = PaidOut(LedgerTransfer(stable, caller, con_vaults, amount),
                           vaults[v].vault_type_id, done.split),
         collateral' \in [Collaterals -> [Accounts -> Nat]],
         UNCHANGED <<now, price, vault_types, vault_type_count, vault_count, auction_bids, wiring>>
  PROVE  Inv'
<1> DEFINE vt == vaults[v].vault_type_id
<1>1. vaults[v] \in VaultRecords /\ vt \in TypeIds
  BY OpenVaultFacts
<1>2. /\ done.books \in BookRecords /\ done.books.rate_accumulator > 0
      /\ done.split.fee \in Nat /\ done.split.principal \in Nat
      /\ done.split.fee + done.split.principal <= amount
      /\ done.books.surplus_buffer
           = books[vt].surplus_buffer + buffer_amount(vt, done.split.fee)
  BY <1>1, LiveRepaymentFacts
<1> QED
  BY <1>2, PaymentStep

\* What a repayment leaves of the record of a live vault.
LEMMA RepaidVaultFacts ==
  ASSUME Inv, NEW v \in VaultIds, vaults[v].open, NEW amount \in Nat
  PROVE  LET left == LiveRepayment(vaults[v], amount).vault
         IN  /\ left \in VaultRecords
             /\ left.owner = vaults[v].owner
             /\ left.vault_type_id = vaults[v].vault_type_id
             /\ left.auction_settled = vaults[v].auction_settled
             /\ left.auction_open = vaults[v].auction_open
             /\ left.collateral_amount = vaults[v].collateral_amount
<1> DEFINE left == LiveRepayment(vaults[v], amount).vault
<1>1. vaults[v] \in VaultRecords /\ vaults[v].vault_type_id \in TypeIds
  BY OpenVaultFacts
<1>2. /\ left = [vaults[v] EXCEPT !.debt_shares = left.debt_shares, !.principal = left.principal]
      /\ left.debt_shares \in Nat /\ left.principal \in Nat
  BY <1>1, LiveRepaymentFacts
<1> HIDE DEF left
<1>3. /\ left \in VaultRecords
      /\ left.owner = vaults[v].owner
      /\ left.vault_type_id = vaults[v].vault_type_id
      /\ left.auction_settled = vaults[v].auction_settled
      /\ left.auction_open = vaults[v].auction_open
      /\ left.collateral_amount = vaults[v].collateral_amount
  BY <1>1, <1>2 DEF VaultRecords
<1> QED
  BY ONLY <1>3 DEF left

LEMMA RepayStep ==
  ASSUME Inv, NEW caller \in Users, NEW v \in VaultIds, NEW amount \in Nat,
         repay(caller, v, amount)
  PROVE  Inv'
<1> DEFINE vt == vaults[v].vault_type_id
           done == LiveRepayment(vaults[v], amount)
<1>1. /\ vaults[v].open /\ ~vaults[v].auction_open
      /\ stable.balances[caller] >= amount
      /\ vaults' = [vaults EXCEPT ![v] = done.vault]
      /\ books' = [books EXCEPT ![vt] = done.books]
      /\ stable' = PaidOut(LedgerTransfer(stable, caller, con_vaults, amount), vt, done.split)
      /\ UNCHANGED <<now, price, collateral, vault_types, vault_type_count, vault_count,
                     auction_bids, wiring>>
  BY DEF repay, LiveVault, CanPay
<1>2. /\ done.vault \in VaultRecords
      /\ done.vault.owner = vaults[v].owner /\ done.vault.vault_type_id = vt
      /\ done.vault.auction_settled = vaults[v].auction_settled
      /\ ~done.vault.auction_open
  BY <1>1, RepaidVaultFacts
<1>3. collateral' \in [Collaterals -> [Accounts -> Nat]]
  BY <1>1 DEF Inv, TypeOK
<1>4. done = LiveRepayment(vaults[v], amount)
  OBVIOUS
<1> HIDE DEF done
<1> QED
  BY <1>1, <1>2, <1>3, <1>4, RepaymentStep

LEMMA CloseStep ==
  ASSUME Inv, NEW caller \in Users, NEW v \in VaultIds, close_vault(caller, v)
  PROVE  Inv'
<1> DEFINE vt == vaults[v].vault_type_id
           c == CollateralOf(v)
           debt == vault_live_debt(vaults[v])
           done == LiveRepayment(vaults[v], debt)
           new == close_vault_record(done.vault)
<1>1. /\ vaults[v].open /\ ~vaults[v].auction_open
      /\ debt > 0 => stable.balances[caller] >= debt
      /\ collateral[c][con_vaults] >= vaults[v].collateral_amount
      /\ vaults' = [vaults EXCEPT ![v] = new]
      /\ books' = [books EXCEPT ![vt] = done.books]
      /\ stable' = PaidOut(LedgerTransfer(stable, caller, con_vaults, debt), vt, done.split)
      /\ collateral' = [collateral EXCEPT ![c] =
                           Moved(@, con_vaults, caller, vaults[v].collateral_amount)]
      /\ UNCHANGED <<now, price, vault_types, vault_type_count, vault_count, auction_bids, wiring>>
  BY DEF close_vault, OwnLiveVault, LiveVault, CanPay
<1>2. /\ vaults[v] \in VaultRecords /\ vt \in TypeIds /\ c \in Collaterals
      /\ vaults[v].collateral_amount \in Nat
  BY <1>1, OpenVaultFacts
<1>3. debt \in Nat /\ stable.balances[caller] >= debt
  <2>1. debt \in Nat
    BY <1>2, LiveDebtType
  <2>2. stable.balances[caller] \in Nat
    BY AccountFacts DEF Inv, TypeOK
  <2> HIDE DEF debt
  <2> QED
    BY <1>1, <2>1, <2>2
<1> HIDE DEF debt
<1>4. /\ new \in VaultRecords
      /\ new.owner = vaults[v].owner /\ new.vault_type_id = vt
      /\ new.auction_settled = vaults[v].auction_settled /\ ~new.auction_open
  <2>1. /\ done.vault \in VaultRecords
        /\ done.vault.owner = vaults[v].owner /\ done.vault.vault_type_id = vt
        /\ done.vault.auction_settled = vaults[v].auction_settled
    BY <1>1, <1>3, RepaidVaultFacts
  <2> QED
    BY <2>1, ClosedRecordFacts
<1>5. collateral' \in [Collaterals -> [Accounts -> Nat]]
  BY <1>1, <1>2, CollateralStep, AccountFacts
<1>6. done = LiveRepayment(vaults[v], debt)
  OBVIOUS
<1> HIDE DEF done, new
<1> QED
  BY <1>1, <1>3, <1>4, <1>5, <1>6, RepaymentStep

-----------------------------------------------------------------------------
(* Liquidation. *)

\* The price of a type's collateral, and what an amount of it is worth.
LEMMA PriceType ==
  ASSUME Inv, NEW vt \in TypeIds, vault_types[vt].collateral_contract \in Collaterals
  PROVE  /\ current_oracle_price(vt) \in Nat
         /\ \A amount \in Nat : collateral_value(vt, amount) \in Nat
<1>1. current_oracle_price(vt) \in Nat
  BY DEF current_oracle_price, Inv, TypeOK
<1> QED
  BY <1>1, MulType DEF collateral_value

\* What a liquidator has to repay, when it is anything at all.
LEMMA RequiredRepaymentType ==
  ASSUME Inv, NEW vault \in VaultRecords, vault.vault_type_id \in TypeIds,
         vault_types[vault.vault_type_id].collateral_contract \in Collaterals
  PROVE  required_partial_repayment(vault) \in Int
<1> DEFINE vt == vault.vault_type_id
           debt == vault_live_debt(vault)
           target == partial_liquidation_target_ratio(vt)
           value == collateral_value(vt, vault.collateral_amount)
           bonus == vault_types[vt].ratios.liquidation_bonus_bps
           numerator == debt * target - value * BPS_DENOMINATOR
           denominator == target - (BPS_DENOMINATOR + bonus)
           required == required_partial_repayment(vault)
<1>1. vault_types[vt] \in TypeSettings /\ vault_types[vt].ratios \in Ratios
  BY DEF Inv, TypeOK, TypeSettings
<1>2. bonus \in Nat /\ target \in Nat /\ BPS_DENOMINATOR \in Nat
  BY <1>1, VaultsAssumption DEF partial_liquidation_target_ratio, Ratios
<1>3. debt \in Nat
  BY LiveDebtType
<1>4. value \in Nat
  BY PriceType DEF VaultRecords
<1>5. required = IF debt <= 0 \/ numerator <= 0 THEN 0
                 ELSE IF denominator <= 0 THEN debt
                 ELSE AtMost(numerator \div denominator, debt)
  BY DEF required_partial_repayment
<1> HIDE DEF debt, target, value, bonus, required
<1>6. denominator \in Int
  BY <1>2
<1>7. numerator \in Int
  <2>1. debt * target \in Nat /\ value * BPS_DENOMINATOR \in Nat
    BY <1>2, <1>3, <1>4, ProductOfNats
  <2> QED
    BY <2>1
<1> HIDE DEF numerator, denominator
<1>8. denominator > 0 => numerator \div denominator \in Int
  BY <1>6, <1>7, Floor
<1>9. required \in Int
  <2> DEFINE quotient == numerator \div denominator
  <2>1. denominator > 0 => quotient \in Int
    BY <1>8
  <2>2. required = IF debt <= 0 \/ numerator <= 0 THEN 0
                   ELSE IF denominator <= 0 THEN debt
                   ELSE AtMost(quotient, debt)
    BY <1>5
  <2> HIDE DEF quotient
  <2> QED
    BY <1>3, <1>6, <1>7, <2>1, <2>2 DEF AtMost
<1> QED
  BY <1>9 DEF required

\* What a liquidator is paid.
LEMMA CollateralOutType ==
  ASSUME Inv, NEW vt \in TypeIds, vault_types[vt].collateral_contract \in Collaterals,
         OracleAnswers(vt), NEW amount \in Nat
  PROVE  collateral_out_for_repayment(vt, amount) \in Nat
<1> DEFINE bonus == vault_types[vt].ratios.liquidation_bonus_bps
           factor == BPS_DENOMINATOR + bonus
           worth == (amount * factor) \div BPS_DENOMINATOR
           quote == current_oracle_price(vt)
<1>1. bonus \in Nat
  BY DEF Inv, TypeOK, TypeSettings, Ratios
<1>2. BPS_DENOMINATOR \in Nat /\ BPS_DENOMINATOR > 0
  BY VaultsAssumption
<1>3. quote \in Nat /\ quote > 0
  BY PriceType DEF OracleAnswers
<1>4. factor \in Nat
  BY <1>1, <1>2
<1> HIDE DEF factor, quote
<1>5. amount * factor \in Nat
  BY <1>4, ProductOfNats
<1>6. worth \in Nat
  BY <1>2, <1>5, Floor, QuotientAtLeast
<1> HIDE DEF worth
<1>7. Div(worth, quote) \in Nat
  BY <1>3, <1>6, DivType
<1> QED
  BY <1>7 DEF collateral_out_for_repayment, worth, quote, factor

LEMMA LiquidateStep ==
  ASSUME Inv, NEW caller \in Users, NEW v \in VaultIds, NEW repay_amount \in Nat,
         liquidate(caller, v, repay_amount)
  PROVE  Inv'
<1> DEFINE vt == vaults[v].vault_type_id
           c == CollateralOf(v)
           repaid == IF repay_amount = 0 THEN required_partial_repayment(vaults[v])
                     ELSE repay_amount
           collateral_paid == collateral_out_for_repayment(vt, repaid)
           done == LiveRepayment(vaults[v], repaid)
           left == [done.vault EXCEPT !.collateral_amount = @ - collateral_paid]
           closes == vault_live_debt(left) <= DUST
           paid_out == Moved(collateral[c], con_vaults, caller, collateral_paid)
           new == IF closes THEN close_vault_record(left) ELSE left
<1>1. /\ vaults[v].open /\ ~vaults[v].auction_open
      /\ required_partial_repayment(vaults[v]) > 0
      /\ OracleAnswers(vt)
      /\ left.collateral_amount >= 0
      /\ stable.balances[caller] >= repaid
      /\ collateral[c][con_vaults] >= collateral_paid
      /\ closes => paid_out[con_vaults] >= left.collateral_amount
  BY DEF liquidate, Liquidation, Liquidatable, partial_possible, CanPay
<1>2. /\ vaults' = [vaults EXCEPT ![v] = new]
      /\ books' = [books EXCEPT ![vt] = done.books]
      /\ stable' = PaidOut(LedgerTransfer(stable, caller, con_vaults, repaid), vt, done.split)
  BY DEF liquidate, Liquidation
<1>3. /\ collateral' = [collateral EXCEPT ![c] =
                           IF closes
                           THEN Moved(paid_out, con_vaults, vaults[v].owner, left.collateral_amount)
                           ELSE paid_out]
      /\ UNCHANGED <<now, price, vault_types, vault_type_count, vault_count, auction_bids, wiring>>
  BY DEF liquidate, Liquidation
<1>4. /\ vaults[v] \in VaultRecords /\ vt \in TypeIds /\ c \in Collaterals
      /\ vaults[v].collateral_amount \in Nat
      /\ vaults[v].owner \in Accounts
  BY <1>1, OpenVaultFacts
<1>5. repaid \in Nat
  BY <1>1, <1>4, RequiredRepaymentType DEF CollateralOf
<1> HIDE DEF repaid
<1>6. collateral_paid \in Nat
  BY <1>1, <1>4, <1>5, CollateralOutType DEF CollateralOf
<1> HIDE DEF collateral_paid
<1>7. /\ done.vault \in VaultRecords
      /\ done.vault.owner = vaults[v].owner /\ done.vault.vault_type_id = vt
      /\ done.vault.auction_settled = vaults[v].auction_settled
      /\ ~done.vault.auction_open
  BY <1>1, <1>5, RepaidVaultFacts
<1>8. done = LiveRepayment(vaults[v], repaid)
  OBVIOUS
<1> HIDE DEF done
<1>9. /\ left \in VaultRecords
      /\ left.owner = vaults[v].owner /\ left.vault_type_id = vt
      /\ left.auction_settled = vaults[v].auction_settled
      /\ ~left.auction_open
      /\ left.collateral_amount \in Nat
  <2>1. /\ done.vault.collateral_amount \in Nat
        /\ left = [done.vault EXCEPT !.collateral_amount
                                        = done.vault.collateral_amount - collateral_paid]
        /\ left.collateral_amount = done.vault.collateral_amount - collateral_paid
    BY <1>7 DEF VaultRecords
  <2>2. left.collateral_amount \in Nat
    BY <1>1, <1>6, <2>1
  <2> QED
    BY <1>7, <2>1, <2>2 DEF VaultRecords
<1> HIDE DEF left, closes
<1>10. /\ new \in VaultRecords
       /\ new.owner = vaults[v].owner /\ new.vault_type_id = vt
       /\ new.auction_settled = vaults[v].auction_settled /\ ~new.auction_open
  BY <1>9, ClosedRecordFacts
<1> HIDE DEF new
<1>11. collateral' \in [Collaterals -> [Accounts -> Nat]]
  <2>1. paid_out \in [Accounts -> Nat]
    BY <1>1, <1>4, <1>6, CollateralStep, AccountFacts
  <2> HIDE DEF paid_out
  <2>2. CASE closes
    <3>1. Moved(paid_out, con_vaults, vaults[v].owner, left.collateral_amount) \in [Accounts -> Nat]
      BY <1>1, <1>4, <1>9, <2>1, <2>2, MovedType, AccountFacts
    <3> QED
      BY <1>3, <2>2, <3>1 DEF Inv, TypeOK
  <2>3. CASE ~closes
    BY <1>3, <2>1, <2>3 DEF Inv, TypeOK
  <2> QED
    BY <2>2, <2>3
<1> QED
  BY <1>1, <1>2, <1>3, <1>5, <1>8, <1>10, <1>11, RepaymentStep

-----------------------------------------------------------------------------
(* Auctions. *)

\* The debt and the principal of a vault are what its record says they are.
LEMMA VaultFieldTypes ==
  ASSUME NEW vault \in VaultRecords
  PROVE  /\ vault.debt_shares \in Nat /\ vault.principal \in Nat
         /\ vault.collateral_amount \in Nat
         /\ vault.auction_debt_snapshot \in Nat /\ vault.auction_principal_snapshot \in Nat
         /\ vault.auction_end_time \in Nat /\ vault.auction_highest_bid \in Nat
  BY DEF VaultRecords

LEMMA OpenAuctionStep ==
  ASSUME Inv, NEW v \in VaultIds, open_liquidation_auction(v)
  PROVE  Inv'
<1> DEFINE vt == vaults[v].vault_type_id
           debt == vault_live_debt(vaults[v])
           end_time == now + vault_types[vt].auction.auction_duration_seconds
           base == accrued(vt)
           a == base.normalized_debt_total - vaults[v].debt_shares
           b == base.principal_outstanding - vaults[v].principal
           c == base.auction_debt_locked + debt
           d == base.auction_principal_locked + vaults[v].principal
           new == [vaults[v] EXCEPT
                      !.debt_shares = 0, !.principal = 0,
                      !.auction_open = TRUE, !.auction_end_time = end_time,
                      !.auction_highest_bidder = NoOne, !.auction_highest_bid = 0,
                      !.auction_debt_snapshot = debt,
                      !.auction_principal_snapshot = vaults[v].principal]
           new_books == [base EXCEPT
                            !.normalized_debt_total = a, !.principal_outstanding = b,
                            !.auction_debt_locked = c, !.auction_principal_locked = d]
<1>1. /\ vaults[v].open /\ ~vaults[v].auction_open
      /\ vaults' = [vaults EXCEPT ![v] = new]
      /\ books' = [books EXCEPT ![vt] = new_books]
      /\ UNCHANGED <<now, price, tokens, vault_types, vault_type_count, vault_count,
                     auction_bids, wiring>>
  BY DEF open_liquidation_auction, Liquidatable
<1>2. vaults[v] \in VaultRecords /\ vt \in TypeIds
  BY <1>1, OpenVaultFacts
<1>3. debt \in Nat
  BY <1>2, LiveDebtType
<1>4. end_time \in Nat
  BY <1>2 DEF Inv, TypeOK, TypeSettings, AuctionTerms
<1> HIDE DEF debt, end_time
<1>5. /\ base \in BookRecords /\ base.rate_accumulator > 0
      /\ base.surplus_buffer = books[vt].surplus_buffer
  BY <1>2, AccruedFacts
<1>6. a \in Int /\ b \in Int /\ c \in Int /\ d \in Int
  <2> HIDE DEF base
  <2> QED
    BY <1>2, <1>3, <1>5, VaultFieldTypes DEF BookRecords
<1> HIDE DEF base, a, b, c, d
<1>7. /\ new_books \in BookRecords /\ new_books.rate_accumulator > 0
      /\ new_books.surplus_buffer = books[vt].surplus_buffer
  BY <1>5, <1>6 DEF BookRecords
<1>8. /\ new \in VaultRecords
      /\ new.owner = vaults[v].owner /\ new.vault_type_id = vt /\ new.open = vaults[v].open
      /\ new.auction_settled = vaults[v].auction_settled /\ new.auction_highest_bidder = NoOne
  BY <1>2, <1>3, <1>4 DEF VaultRecords
<1> HIDE DEF new, new_books
<1>9. vaults' \in [VaultIds -> VaultRecords] /\ \A w \in VaultIds : VaultOK(w)'
  BY <1>1, <1>8, VaultStep
<1>10. /\ stable' \in Ledgers /\ collateral' \in [Collaterals -> [Accounts -> Nat]]
       /\ stable'.balances[con_vaults]
            >= stable.balances[con_vaults] + new_books.surplus_buffer - books[vt].surplus_buffer
  <2>1. stable' = stable /\ collateral' = collateral
    BY <1>1 DEF tokens
  <2>2. books[vt].surplus_buffer \in Nat
    BY <1>2 DEF Inv, TypeOK, BookRecords
  <2> QED
    BY <1>7, <2>1, <2>2, CustodyTypes DEF Inv, TypeOK
<1> QED
  BY <1>1, <1>2, <1>7, <1>9, <1>10, VaultCallStep

\* Frozen debt that becomes shares again.
LEMMA RestoredFacts ==
  ASSUME Inv, NEW vault \in VaultRecords, vault.vault_type_id \in TypeIds,
         NEW type_books \in BookRecords
  PROVE  /\ RestoredVault(vault) \in VaultRecords
         /\ RestoredVault(vault).owner = vault.owner
         /\ RestoredVault(vault).vault_type_id = vault.vault_type_id
         /\ RestoredVault(vault).auction_settled = vault.auction_settled
         /\ ~RestoredVault(vault).auction_open
         /\ RestoredVault(vault).open = vault.open
         /\ RestoredBooks(vault, type_books) \in BookRecords
         /\ RestoredBooks(vault, type_books).rate_accumulator > 0
         /\ RestoredBooks(vault, type_books).surplus_buffer = type_books.surplus_buffer
<1> DEFINE rate == current_rate(vault.vault_type_id)
           shares == Div(vault.auction_debt_snapshot, rate)
           cleared == clear_auction(vault)
           restored == RestoredVault(vault)
<1>1. rate \in Nat /\ rate > 0
  BY RateFacts
<1>2. shares \in Nat
  <2> HIDE DEF rate
  <2> QED
    BY <1>1, VaultFieldTypes, DivType
<1>3. /\ cleared \in VaultRecords
      /\ cleared.owner = vault.owner /\ cleared.vault_type_id = vault.vault_type_id
      /\ cleared.auction_settled = vault.auction_settled /\ ~cleared.auction_open
      /\ cleared.open = vault.open
  BY DEF clear_auction, VaultRecords
<1>4. restored = IF vault.auction_debt_snapshot <= 0 THEN cleared
                 ELSE [cleared EXCEPT !.debt_shares = shares,
                                      !.principal = vault.auction_principal_snapshot]
  BY DEF RestoredVault
<1> HIDE DEF rate, shares, cleared, restored
<1>5. /\ restored \in VaultRecords
      /\ restored.owner = vault.owner /\ restored.vault_type_id = vault.vault_type_id
      /\ restored.auction_settled = vault.auction_settled /\ ~restored.auction_open
      /\ restored.open = vault.open
  BY <1>2, <1>3, <1>4, VaultFieldTypes DEF VaultRecords
<1> DEFINE a == type_books.normalized_debt_total + restored.debt_shares
           b == type_books.principal_outstanding + restored.principal
           c == type_books.auction_debt_locked - vault.auction_debt_snapshot
           d == type_books.auction_principal_locked - vault.auction_principal_snapshot
           base == [type_books EXCEPT !.rate_accumulator = rate, !.last_rate_time = now]
           new == RestoredBooks(vault, type_books)
<1>6. a \in Int /\ b \in Int /\ c \in Int /\ d \in Int
  BY <1>5, VaultFieldTypes DEF BookRecords
<1>7. new = [type_books EXCEPT
                !.rate_accumulator = rate, !.last_rate_time = now,
                !.auction_debt_locked = c, !.auction_principal_locked = d,
                !.normalized_debt_total = a, !.principal_outstanding = b]
  BY DEF RestoredBooks, rate, restored
<1>8. now \in Nat
  BY DEF Inv, TypeOK
<1> HIDE DEF a, b, c, d, new
<1>9. /\ new \in BookRecords /\ new.rate_accumulator > 0
      /\ new.surplus_buffer = type_books.surplus_buffer
  BY <1>1, <1>6, <1>7, <1>8 DEF BookRecords
<1> QED
  BY ONLY <1>5, <1>9 DEF restored, new

LEMMA CancelStep ==
  ASSUME Inv, NEW v \in VaultIds, cancel_auction_if_safe(v)
  PROVE  Inv'
<1> DEFINE vt == vaults[v].vault_type_id
           new == RestoredVault(vaults[v])
           new_books == RestoredBooks(vaults[v], books[vt])
<1>1. /\ vaults[v].open
      /\ vaults' = [vaults EXCEPT ![v] = new]
      /\ books' = [books EXCEPT ![vt] = new_books]
      /\ UNCHANGED <<now, price, tokens, vault_types, vault_type_count, vault_count,
                     auction_bids, wiring>>
  BY DEF cancel_auction_if_safe
<1>2. vaults[v] \in VaultRecords /\ vt \in TypeIds
  BY <1>1, OpenVaultFacts
<1>3. books[vt] \in BookRecords /\ books[vt].surplus_buffer \in Nat
  BY <1>2 DEF Inv, TypeOK, BookRecords
<1>4. /\ new \in VaultRecords
      /\ new.owner = vaults[v].owner /\ new.vault_type_id = vt
      /\ new.auction_settled = vaults[v].auction_settled /\ ~new.auction_open
      /\ new_books \in BookRecords /\ new_books.rate_accumulator > 0
      /\ new_books.surplus_buffer = books[vt].surplus_buffer
  BY <1>2, <1>3, RestoredFacts
<1> HIDE DEF new, new_books
<1>5. vaults' \in [VaultIds -> VaultRecords] /\ \A w \in VaultIds : VaultOK(w)'
  BY <1>1, <1>4, VaultStep
<1>6. /\ stable' \in Ledgers /\ collateral' \in [Collaterals -> [Accounts -> Nat]]
      /\ stable'.balances[con_vaults]
           >= stable.balances[con_vaults] + new_books.surplus_buffer - books[vt].surplus_buffer
  <2>1. stable' = stable /\ collateral' = collateral
    BY <1>1 DEF tokens
  <2> QED
    BY <1>3, <1>4, <2>1, CustodyTypes DEF Inv, TypeOK
<1> QED
  BY <1>1, <1>2, <1>4, <1>5, <1>6, VaultCallStep

\* What a cure pays, which is nothing when the owner repays nothing.
LEMMA CurePaymentFacts ==
  ASSUME Inv, NEW v \in VaultIds, vaults[v].open, NEW amount \in Nat
  PROVE  LET done == IF amount > 0 THEN AuctionRepayment(vaults[v], amount)
                     ELSE [vault |-> vaults[v], books |-> books[vaults[v].vault_type_id],
                           split |-> NoPayment]
         IN  /\ done.vault \in VaultRecords
             /\ done.vault.owner = vaults[v].owner
             /\ done.vault.vault_type_id = vaults[v].vault_type_id
             /\ done.vault.auction_settled = vaults[v].auction_settled
             /\ done.books \in BookRecords /\ done.books.rate_accumulator > 0
             /\ done.split.fee \in Nat /\ done.split.principal \in Nat
             /\ done.split.fee + done.split.principal <= amount
             /\ done.books.surplus_buffer
                  = books[vaults[v].vault_type_id].surplus_buffer
                      + buffer_amount(vaults[v].vault_type_id, done.split.fee)
<1> DEFINE vt == vaults[v].vault_type_id
           payment == AuctionRepayment(vaults[v], amount)
           nothing == [vault |-> vaults[v], books |-> books[vt], split |-> NoPayment]
           done == IF amount > 0 THEN payment ELSE nothing
           Right(d) == /\ d.vault \in VaultRecords
                       /\ d.vault.owner = vaults[v].owner
                       /\ d.vault.vault_type_id = vt
                       /\ d.vault.auction_settled = vaults[v].auction_settled
                       /\ d.books \in BookRecords /\ d.books.rate_accumulator > 0
                       /\ d.split.fee \in Nat /\ d.split.principal \in Nat
                       /\ d.split.fee + d.split.principal <= amount
                       /\ d.books.surplus_buffer
                            = books[vt].surplus_buffer + buffer_amount(vt, d.split.fee)
<1>1. vaults[v] \in VaultRecords /\ vt \in TypeIds
  BY OpenVaultFacts
<1>2. Right(payment)
  <2>1. /\ payment.vault = [vaults[v] EXCEPT
              !.auction_debt_snapshot = payment.vault.auction_debt_snapshot,
              !.auction_principal_snapshot = payment.vault.auction_principal_snapshot]
        /\ payment.vault.auction_debt_snapshot \in Nat
        /\ payment.vault.auction_principal_snapshot \in Nat
        /\ payment.books \in BookRecords /\ payment.books.rate_accumulator > 0
        /\ payment.split.fee \in Nat /\ payment.split.principal \in Nat
        /\ payment.split.fee + payment.split.principal <= amount
        /\ payment.books.surplus_buffer
             = books[vt].surplus_buffer + buffer_amount(vt, payment.split.fee)
    BY <1>1, AuctionRepaymentFacts
  <2> HIDE DEF payment
  <2>2. /\ payment.vault \in VaultRecords
        /\ payment.vault.owner = vaults[v].owner
        /\ payment.vault.vault_type_id = vt
        /\ payment.vault.auction_settled = vaults[v].auction_settled
    BY <1>1, <2>1 DEF VaultRecords
  <2> QED
    BY <2>1, <2>2
<1>3. Right(nothing)
  <2>1. books[vt] \in BookRecords /\ books[vt].rate_accumulator > 0
        /\ books[vt].surplus_buffer \in Nat
    BY <1>1 DEF Inv, TypeOK, TypeIdOK, BookRecords
  <2>2. buffer_amount(vt, 0) = 0
    BY <1>1, BufferFacts
  <2> QED
    BY <1>1, <2>1, <2>2 DEF NoPayment
<1> HIDE DEF payment, nothing, Right
<1>4. Right(done)
  BY <1>2, <1>3
<1> QED
  BY ONLY <1>4 DEF Right, done, payment, nothing

LEMMA CureStep ==
  ASSUME Inv, NEW caller \in Users, NEW v \in VaultIds, NEW amount \in Nat,
         cure_auction(caller, v, amount)
  PROVE  Inv'
<1> DEFINE vt == vaults[v].vault_type_id
           c == CollateralOf(v)
           done == IF amount > 0 THEN AuctionRepayment(vaults[v], amount)
                   ELSE [vault |-> vaults[v], books |-> books[vt], split |-> NoPayment]
           closed == close_vault_record(done.vault)
           restored == RestoredVault(done.vault)
           restored_books == RestoredBooks(done.vault, done.books)
<1>1. /\ vaults[v].open
      /\ amount > 0 => stable.balances[caller] >= amount
      /\ stable' = PaidOut(LedgerTransfer(stable, caller, con_vaults, amount), vt, done.split)
      /\ UNCHANGED <<now, price, vault_types, vault_type_count, vault_count, auction_bids, wiring>>
  BY DEF cure_auction, CanPay
<1>2. \/ /\ collateral[c][con_vaults] >= vaults[v].collateral_amount
         /\ collateral' = [collateral EXCEPT ![c] =
                              Moved(@, con_vaults, caller, vaults[v].collateral_amount)]
         /\ vaults' = [vaults EXCEPT ![v] = closed]
         /\ books' = [books EXCEPT ![vt] = done.books]
      \/ /\ vaults' = [vaults EXCEPT ![v] = restored]
         /\ books' = [books EXCEPT ![vt] = restored_books]
         /\ collateral' = collateral
  BY DEF cure_auction
<1>3. /\ vaults[v] \in VaultRecords /\ vt \in TypeIds /\ c \in Collaterals
      /\ vaults[v].collateral_amount \in Nat
  BY <1>1, OpenVaultFacts
<1>4. stable.balances[caller] >= amount
  <2>1. stable.balances[caller] \in Nat
    BY AccountFacts DEF Inv, TypeOK
  <2> QED
    BY <1>1, <2>1
<1>5. /\ done.vault \in VaultRecords
      /\ done.vault.owner = vaults[v].owner
      /\ done.vault.vault_type_id = vt
      /\ done.vault.auction_settled = vaults[v].auction_settled
      /\ done.books \in BookRecords /\ done.books.rate_accumulator > 0
      /\ done.split.fee \in Nat /\ done.split.principal \in Nat
      /\ done.split.fee + done.split.principal <= amount
      /\ done.books.surplus_buffer
           = books[vt].surplus_buffer + buffer_amount(vt, done.split.fee)
  BY <1>1, CurePaymentFacts
<1> HIDE DEF done
<1>6. /\ closed \in VaultRecords
      /\ closed.owner = vaults[v].owner /\ closed.vault_type_id = vt
      /\ closed.auction_settled = vaults[v].auction_settled /\ ~closed.auction_open
  BY <1>5, ClosedRecordFacts
<1>7. /\ restored \in VaultRecords
      /\ restored.owner = vaults[v].owner /\ restored.vault_type_id = vt
      /\ restored.auction_settled = vaults[v].auction_settled /\ ~restored.auction_open
      /\ restored_books \in BookRecords /\ restored_books.rate_accumulator > 0
      /\ restored_books.surplus_buffer = done.books.surplus_buffer
  BY <1>3, <1>5, RestoredFacts
<1> HIDE DEF closed, restored, restored_books
<1>8. CASE /\ collateral[c][con_vaults] >= vaults[v].collateral_amount
           /\ collateral' = [collateral EXCEPT ![c] =
                                Moved(@, con_vaults, caller, vaults[v].collateral_amount)]
           /\ vaults' = [vaults EXCEPT ![v] = closed]
           /\ books' = [books EXCEPT ![vt] = done.books]
  <2>1. collateral' \in [Collaterals -> [Accounts -> Nat]]
    BY <1>3, <1>8, CollateralStep, AccountFacts
  <2> QED
    BY <1>1, <1>4, <1>5, <1>6, <1>8, <2>1, PaymentStep
<1>9. CASE /\ vaults' = [vaults EXCEPT ![v] = restored]
           /\ books' = [books EXCEPT ![vt] = restored_books]
           /\ collateral' = collateral
  <2>1. collateral' \in [Collaterals -> [Accounts -> Nat]]
    BY <1>9 DEF Inv, TypeOK
  <2>2. restored_books.surplus_buffer
          = books[vt].surplus_buffer + buffer_amount(vt, done.split.fee)
    BY <1>5, <1>7
  <2> QED
    BY <1>1, <1>4, <1>5, <1>7, <1>9, <2>1, <2>2, PaymentStep
<1> QED
  BY <1>2, <1>8, <1>9

\* The parts of the invariant together, when escrow changes too.
LEMMA EscrowCallStep ==
  ASSUME Inv,
         books' \in [TypeIds -> BookRecords], \A t \in TypeIds : TypeIdOK(t)',
         auction_bids' \in [VaultIds \X Accounts -> Nat],
         stable' \in Ledgers,
         stable'.balances[con_vaults] >= Total(SurplusIn(books')) + Total(auction_bids'),
         collateral' \in [Collaterals -> [Accounts -> Nat]],
         vaults' \in [VaultIds -> VaultRecords], \A w \in VaultIds : VaultOK(w)',
         UNCHANGED <<now, price, vault_types, vault_type_count, vault_count, wiring>>
  PROVE  Inv'
<1>1. TypeOK'
  BY LedgerTyped DEF Inv, TypeOK, wiring
<1> QED
  BY <1>1, CustodyStep DEF Inv

\* Books that stay as they are.
LEMMA BooksKept ==
  ASSUME Inv, UNCHANGED types
  PROVE  books' \in [TypeIds -> BookRecords] /\ \A t \in TypeIds : TypeIdOK(t)'
  BY DEF Inv, TypeOK, TypeIdOK, types

\* A vault that no bid or settlement concerns.
LEMMA OtherVaultOK ==
  ASSUME Inv, NEW w \in VaultIds, vaults'[w] = vaults[w], vault_types' = vault_types,
         \A a \in Accounts : auction_bids'[<<w, a>>] = auction_bids[<<w, a>>]
  PROVE  VaultOK(w)'
<1>1. VaultOK(w) /\ vaults[w] \in VaultRecords
  BY DEF Inv, TypeOK
<1>2. vaults[w].auction_highest_bidder # NoOne => vaults[w].auction_highest_bidder \in Accounts
  BY <1>1, AccountFacts DEF VaultRecords
<1> QED
  BY <1>1, <1>2 DEF VaultOK, CollateralOf

LEMMA BidStep ==
  ASSUME Inv, NEW caller \in Users, NEW v \in VaultIds, NEW bid_amount \in Nat,
         bid(caller, v, bid_amount)
  PROVE  Inv'
<1> DEFINE terms == vault_types[vaults[v].vault_type_id].auction
           added == bid_amount - auction_bids[<<v, caller>>]
           end_time == vaults[v].auction_end_time
           extended == /\ terms.extension_window_seconds > 0
                       /\ end_time - now <= terms.extension_window_seconds
           new_end_time == IF extended THEN end_time + terms.bid_extension_seconds ELSE end_time
           new == [vaults[v] EXCEPT !.auction_highest_bidder = caller,
                                    !.auction_highest_bid = bid_amount,
                                    !.auction_end_time = new_end_time]
<1>1. /\ vaults[v].open
      /\ added > 0 /\ stable.balances[caller] >= added
      /\ stable' = LedgerTransfer(stable, caller, con_vaults, added)
      /\ auction_bids' = [auction_bids EXCEPT ![<<v, caller>>] = bid_amount]
      /\ vaults' = [vaults EXCEPT ![v] = new]
      /\ UNCHANGED <<now, price, collateral, types, vault_count, wiring>>
  BY DEF bid, CanPay
<1>2. /\ vaults[v] \in VaultRecords /\ vaults[v].vault_type_id \in TypeIds
      /\ ~vaults[v].auction_settled
      /\ vaults \in [VaultIds -> VaultRecords]
      /\ auction_bids \in [VaultIds \X Accounts -> Nat]
      /\ auction_bids[<<v, caller>>] \in Nat
      /\ caller \in Accounts /\ con_vaults \in Accounts /\ caller # con_vaults
      /\ IsFiniteSet(Accounts)
  BY <1>1, OpenVaultFacts, AccountFacts, VaultsAssumption DEF Inv, TypeOK
<1>3. added \in Nat
  BY <1>1, <1>2
<1>4. new_end_time \in Nat
  <2>1. terms.bid_extension_seconds \in Nat
    BY <1>2 DEF Inv, TypeOK, TypeSettings, AuctionTerms
  <2> HIDE DEF terms, extended
  <2> QED
    BY <1>2, <2>1, VaultFieldTypes
<1> HIDE DEF added, new_end_time
<1>5. /\ new \in VaultRecords
      /\ new.owner = vaults[v].owner /\ new.vault_type_id = vaults[v].vault_type_id
      /\ new.open = vaults[v].open /\ new.auction_settled = vaults[v].auction_settled
      /\ new.auction_highest_bidder = caller /\ new.auction_highest_bid = bid_amount
  BY <1>2, <1>4 DEF VaultRecords
<1> HIDE DEF new
<1>6. vaults' \in [VaultIds -> VaultRecords]
  BY <1>1, <1>2, <1>5
<1>7. ASSUME NEW w \in VaultIds PROVE VaultOK(w)'
  <2>1. vault_types' = vault_types
    BY <1>1 DEF types
  <2>2. CASE w = v
    <3>1. vaults'[v] = new /\ auction_bids'[<<v, caller>>] = bid_amount /\ VaultOK(v)
      BY <1>1, <1>2 DEF Inv
    <3> QED
      BY <1>1, <1>2, <1>5, <2>1, <2>2, <3>1 DEF VaultOK, CollateralOf
  <2>3. CASE w # v
    <3>1. vaults'[w] = vaults[w]
      BY <1>1, <1>2, <2>3
    <3>2. \A a \in Accounts : auction_bids'[<<w, a>>] = auction_bids[<<w, a>>]
      BY <1>1, <1>2, <2>3
    <3> QED
      BY <2>1, <3>1, <3>2, OtherVaultOK
  <2> QED
    BY <2>2, <2>3
<1>8. /\ auction_bids' \in [VaultIds \X Accounts -> Nat]
      /\ Total(auction_bids') = Total(auction_bids) + bid_amount - auction_bids[<<v, caller>>]
  <2> DEFINE k == <<v, caller>>
  <2>1. /\ k \in Pairs /\ auction_bids \in [Pairs -> Nat]
        /\ auction_bids' = [auction_bids EXCEPT ![k] = bid_amount]
    BY <1>1, <1>2 DEF Pairs
  <2> HIDE DEF k
  <2>2. /\ auction_bids' \in [Pairs -> Nat]
        /\ Total(auction_bids') = Total(auction_bids) + bid_amount - auction_bids[k]
    BY <2>1, EscrowUpdate
  <2> QED
    BY <2>2 DEF k, Pairs
<1>9. /\ stable' \in Ledgers
      /\ stable'.balances[con_vaults] = stable.balances[con_vaults] + added
  BY <1>1, <1>2, <1>3, TransferKeepsLedger DEF Inv, Ledgers
<1>10. stable'.balances[con_vaults] >= Total(SurplusIn(books')) + Total(auction_bids')
  <2>1. books' = books
    BY <1>1 DEF types
  <2>2. added = bid_amount - auction_bids[<<v, caller>>]
    BY DEF added
  <2> QED
    BY <1>2, <1>8, <1>9, <2>1, <2>2, CustodyTypes
<1>11. collateral' \in [Collaterals -> [Accounts -> Nat]]
  BY <1>1 DEF Inv, TypeOK
<1>12. UNCHANGED <<now, price, vault_types, vault_type_count, vault_count, wiring>>
  BY <1>1 DEF types
<1>13. books' \in [TypeIds -> BookRecords] /\ \A t \in TypeIds : TypeIdOK(t)'
  BY <1>1, BooksKept
<1> QED
  BY <1>6, <1>7, <1>8, <1>9, <1>10, <1>11, <1>12, <1>13, EscrowCallStep

\* Taking an escrow out.
LEMMA EscrowReleased ==
  ASSUME Inv, NEW v \in VaultIds, NEW a \in Accounts,
         auction_bids' = [auction_bids EXCEPT ![<<v, a>>] = 0]
  PROVE  /\ auction_bids[<<v, a>>] \in Nat
         /\ auction_bids' \in [VaultIds \X Accounts -> Nat]
         /\ Total(auction_bids') = Total(auction_bids) - auction_bids[<<v, a>>]
         /\ Total(auction_bids') \in Nat
         /\ \A w \in VaultIds : w # v =>
               \A x \in Accounts : auction_bids'[<<w, x>>] = auction_bids[<<w, x>>]
<1>1. auction_bids \in [VaultIds \X Accounts -> Nat]
  BY DEF Inv, TypeOK
<1>2. auction_bids[<<v, a>>] \in Nat
  BY <1>1
<1>3. /\ auction_bids' \in [VaultIds \X Accounts -> Nat]
      /\ Total(auction_bids') = Total(auction_bids) + 0 - auction_bids[<<v, a>>]
  <2> DEFINE k == <<v, a>>
             none == 0
  <2>1. /\ none \in Nat /\ k \in Pairs /\ auction_bids \in [Pairs -> Nat]
        /\ auction_bids' = [auction_bids EXCEPT ![k] = none]
    BY <1>1 DEF Pairs
  <2> HIDE DEF k, none
  <2>2. /\ auction_bids' \in [Pairs -> Nat]
        /\ Total(auction_bids') = Total(auction_bids) + none - auction_bids[k]
    BY <2>1, EscrowUpdate
  <2> QED
    BY <2>2 DEF k, none, Pairs
<1>4. Total(auction_bids') \in Nat /\ Total(auction_bids) \in Nat
  BY <1>1, <1>3, TotalType, AccountFacts
<1>5. \A w \in VaultIds : w # v =>
         \A x \in Accounts : auction_bids'[<<w, x>>] = auction_bids[<<w, x>>]
  BY <1>1
<1>6. Total(auction_bids') = Total(auction_bids) - auction_bids[<<v, a>>]
  BY <1>2, <1>3, <1>4
<1> QED
  BY <1>2, <1>3, <1>4, <1>5, <1>6

LEMMA ClaimStep ==
  ASSUME Inv, NEW caller \in Users, NEW v \in VaultIds, claim_refund(caller, v)
  PROVE  Inv'
<1> DEFINE refund == auction_bids[<<v, caller>>]
<1>1. /\ vaults[v].auction_settled
      /\ stable.balances[con_vaults] >= refund
      /\ auction_bids' = [auction_bids EXCEPT ![<<v, caller>>] = 0]
      /\ stable' = LedgerTransfer(stable, con_vaults, caller, refund)
      /\ UNCHANGED <<now, price, collateral, types, vaults, vault_count, wiring>>
  BY DEF claim_refund, CanPay
<1>2. /\ caller \in Accounts /\ con_vaults \in Accounts /\ IsFiniteSet(Accounts)
  BY AccountFacts
<1>3. /\ refund \in Nat
      /\ auction_bids' \in [VaultIds \X Accounts -> Nat]
      /\ Total(auction_bids') = Total(auction_bids) - refund
      /\ \A w \in VaultIds : w # v =>
            \A x \in Accounts : auction_bids'[<<w, x>>] = auction_bids[<<w, x>>]
  BY <1>1, <1>2, EscrowReleased
<1> HIDE DEF refund
<1>4. /\ stable' \in Ledgers
      /\ stable'.balances[con_vaults] >= stable.balances[con_vaults] - refund
  BY <1>1, <1>2, <1>3, TransferKeepsLedger DEF Inv, Ledgers
<1>5. stable'.balances[con_vaults] >= Total(SurplusIn(books')) + Total(auction_bids')
  <2>1. books' = books
    BY <1>1 DEF types
  <2>2. stable'.balances[con_vaults] \in Nat
    BY <1>2, <1>4 DEF Ledgers, LedgersOver
  <2> QED
    BY <1>3, <1>4, <2>1, <2>2, CustodyTypes
<1>6. ASSUME NEW w \in VaultIds PROVE VaultOK(w)'
  <2>1. vault_types' = vault_types /\ vaults' = vaults /\ VaultOK(w)
    BY <1>1 DEF types, Inv
  <2>2. CASE w = v
    BY <1>1, <2>1, <2>2 DEF VaultOK, CollateralOf
  <2>3. CASE w # v
    BY <1>3, <2>1, <2>3, OtherVaultOK
  <2> QED
    BY <2>2, <2>3
<1>7. /\ collateral' \in [Collaterals -> [Accounts -> Nat]]
      /\ vaults' \in [VaultIds -> VaultRecords]
      /\ UNCHANGED <<now, price, vault_types, vault_type_count, vault_count, wiring>>
  BY <1>1 DEF Inv, TypeOK, types
<1>8. books' \in [TypeIds -> BookRecords] /\ \A t \in TypeIds : TypeIdOK(t)'
  BY <1>1, BooksKept
<1> QED
  BY <1>3, <1>4, <1>5, <1>6, <1>7, <1>8, EscrowCallStep

\* The winner's escrow pays the fee, the principal and the owner, and what of
\* the fee is buffered stays.
LEMMA SettleStep ==
  ASSUME Inv, NEW v \in VaultIds, settle_auction(v)
  PROVE  Inv'
<1> DEFINE vt == vaults[v].vault_type_id
           c == CollateralOf(v)
           debt == vaults[v].auction_debt_snapshot
           principal == vaults[v].auction_principal_snapshot
           winner == vaults[v].auction_highest_bidder
           winning_bid == vaults[v].auction_highest_bid
           split == split_payment(debt, principal, winning_bid)
           excess == winning_bid - split.fee - split.principal
           paid == PaidOut(stable, vt, split)
           kept == buffer_amount(vt, split.fee)
           loss == AtLeastZero(debt - winning_bid)
           new == [close_vault_record(vaults[v]) EXCEPT !.auction_settled = TRUE]
           new_books == [books[vt] EXCEPT
                            !.auction_debt_locked = @ - debt,
                            !.auction_principal_locked = @ - principal,
                            !.surplus_buffer = @ + kept,
                            !.bad_debt = @ + loss]
<1>1. /\ vaults[v].open /\ vaults[v].auction_open
      /\ winner # NoOne
      /\ auction_bids' = [auction_bids EXCEPT ![<<v, winner>>] = 0]
      /\ vaults' = [vaults EXCEPT ![v] = new]
      /\ books' = [books EXCEPT ![vt] = new_books]
      /\ stable' = LedgerTransfer(paid, con_vaults, vaults[v].owner, excess)
  BY DEF settle_auction
<1>2. /\ collateral[c][con_vaults] >= vaults[v].collateral_amount
      /\ collateral' = [collateral EXCEPT ![c] =
                           Moved(@, con_vaults, winner, vaults[v].collateral_amount)]
      /\ UNCHANGED <<now, price, vault_types, vault_type_count, vault_count, wiring>>
  BY DEF settle_auction, CanPay
<1>3. /\ vaults[v] \in VaultRecords /\ vt \in TypeIds /\ c \in Collaterals
      /\ vaults[v].collateral_amount \in Nat /\ vaults[v].owner \in Accounts
  BY <1>1, OpenVaultFacts
<1>4. /\ debt \in Nat /\ principal \in Nat /\ winning_bid \in Nat
      /\ winner \in Users
  BY <1>1, <1>3 DEF VaultRecords
<1>5. auction_bids[<<v, winner>>] = winning_bid
  BY <1>1 DEF Inv, VaultOK
<1>6. /\ winner \in Accounts /\ con_vaults \in Accounts /\ IsFiniteSet(Accounts)
  BY <1>4, AccountFacts
<1> HIDE DEF debt, principal, winner, winning_bid
<1>7. /\ auction_bids' \in [VaultIds \X Accounts -> Nat]
      /\ Total(auction_bids') = Total(auction_bids) - winning_bid
      /\ Total(auction_bids') \in Nat
      /\ \A w \in VaultIds : w # v =>
            \A x \in Accounts : auction_bids'[<<w, x>>] = auction_bids[<<w, x>>]
  <2>1. auction_bids' = [auction_bids EXCEPT ![<<v, winner>>] = 0]
    BY <1>1
  <2>2. /\ auction_bids' \in [VaultIds \X Accounts -> Nat]
        /\ Total(auction_bids') = Total(auction_bids) - auction_bids[<<v, winner>>]
        /\ Total(auction_bids') \in Nat
        /\ \A w \in VaultIds : w # v =>
              \A x \in Accounts : auction_bids'[<<w, x>>] = auction_bids[<<w, x>>]
    BY ONLY Inv, v \in VaultIds, <1>6, <2>1, EscrowReleased
  <2> QED
    BY <1>5, <2>2
<1>8. /\ split.fee \in Nat /\ split.principal \in Nat
      /\ split.fee + split.principal <= winning_bid
  BY <1>4, SplitFacts
<1>9. loss \in Nat
  BY <1>4 DEF AtLeastZero
<1> HIDE DEF split, loss
<1>10. kept \in Nat
  BY <1>3, <1>8, BufferFacts
<1> HIDE DEF kept
<1>11. /\ new_books \in BookRecords /\ new_books.rate_accumulator > 0
       /\ new_books.surplus_buffer = books[vt].surplus_buffer + kept
  <2> DEFINE base == books[vt]
             a == base.auction_debt_locked - debt
             b == base.auction_principal_locked - principal
             surplus == base.surplus_buffer + kept
             bad == base.bad_debt + loss
  <2>1. base \in BookRecords /\ base.rate_accumulator > 0
    BY <1>3 DEF Inv, TypeOK, TypeIdOK
  <2>2. a \in Int /\ b \in Int /\ surplus \in Nat /\ bad \in Nat
    BY <1>4, <1>9, <1>10, <2>1 DEF BookRecords
  <2>3. new_books = [base EXCEPT !.auction_debt_locked = a, !.auction_principal_locked = b,
                                 !.surplus_buffer = surplus, !.bad_debt = bad]
    OBVIOUS
  <2>4. surplus = books[vt].surplus_buffer + kept
    OBVIOUS
  <2> HIDE DEF base, a, b, surplus, bad, new_books
  <2>5. /\ new_books \in BookRecords /\ new_books.rate_accumulator > 0
        /\ new_books.surplus_buffer = surplus
    BY <2>1, <2>2, <2>3 DEF BookRecords
  <2> QED
    BY <2>4, <2>5
<1> HIDE DEF new_books
<1>12. /\ new \in VaultRecords /\ ~new.open /\ ~new.auction_open
  <2> DEFINE closed == close_vault_record(vaults[v])
  <2>1. closed \in VaultRecords /\ ~closed.open /\ ~closed.auction_open
    BY <1>3, ClosedRecordFacts
  <2> HIDE DEF closed
  <2>2. [closed EXCEPT !.auction_settled = TRUE] \in VaultRecords
        /\ ~[closed EXCEPT !.auction_settled = TRUE].open
        /\ ~[closed EXCEPT !.auction_settled = TRUE].auction_open
    BY <2>1 DEF VaultRecords
  <2> QED
    BY <2>2 DEF closed
<1> HIDE DEF new
<1>13. vaults' \in [VaultIds -> VaultRecords]
  BY <1>1, <1>12 DEF Inv, TypeOK
<1>14. ASSUME NEW w \in VaultIds PROVE VaultOK(w)'
  <2>1. vault_types' = vault_types /\ vaults \in [VaultIds -> VaultRecords]
    BY <1>2 DEF Inv, TypeOK
  <2>2. CASE w = v
    <3>1. vaults'[w] = new
      BY <1>1, <2>1, <2>2
    <3> QED
      BY <1>12, <3>1 DEF VaultOK
  <2>3. CASE w # v
    <3>1. vaults'[w] = vaults[w]
      BY <1>1, <2>1, <2>3
    <3> QED
      BY <1>7, <2>1, <2>3, <3>1, OtherVaultOK
  <2> QED
    BY <2>2, <2>3
<1>15. /\ books' \in [TypeIds -> BookRecords]
       /\ \A t \in TypeIds : TypeIdOK(t)'
       /\ Total(SurplusIn(books')) = Total(SurplusIn(books)) + kept
  <2>1. vault_types' = vault_types /\ books[vt].surplus_buffer \in Nat
    BY <1>2, <1>3 DEF Inv, TypeOK, BookRecords
  <2>2. /\ books' \in [TypeIds -> BookRecords]
        /\ \A t \in TypeIds : TypeIdOK(t)'
        /\ Total(SurplusIn(books'))
             = Total(SurplusIn(books)) + new_books.surplus_buffer - books[vt].surplus_buffer
    BY <1>1, <1>3, <1>11, <2>1, BooksStep
  <2> QED
    BY <1>10, <1>11, <2>1, <2>2, CustodyTypes
<1> DEFINE held == stable.balances[con_vaults]
<1>16. /\ held \in Nat /\ Total(SurplusIn(books)) \in Nat
       /\ held >= Total(SurplusIn(books)) + Total(auction_bids') + winning_bid
  <2>1. Total(auction_bids) \in Nat
    BY CustodyTypes
  <2> QED
    BY <1>4, <1>7, <2>1, CustodyTypes
<1> HIDE DEF held
<1>17. /\ paid \in Ledgers
       /\ paid.balances[con_vaults] >= held - split.fee - split.principal + kept
  <2>1. stable.balances[con_vaults] >= split.fee + split.principal /\ stable \in Ledgers
    BY <1>4, <1>7, <1>8, <1>16 DEF held, Inv
  <2> QED
    BY <1>3, <1>8, <2>1, PaidOutFacts DEF held, kept
<1> HIDE DEF paid
<1>18. paid.balances[con_vaults] \in Nat
  BY <1>6, <1>17 DEF Ledgers, LedgersOver
<1>19. /\ excess \in Nat /\ paid.balances[con_vaults] >= excess
  BY <1>4, <1>7, <1>8, <1>10, <1>16, <1>17, <1>18
<1>20. excess = winning_bid - split.fee - split.principal
  OBVIOUS
<1> HIDE DEF excess
<1>21. /\ stable' \in Ledgers
       /\ stable'.balances[con_vaults] >= paid.balances[con_vaults] - excess
  BY <1>1, <1>3, <1>6, <1>17, <1>19, TransferKeepsLedger DEF Ledgers
<1>22. stable'.balances[con_vaults] >= Total(SurplusIn(books')) + Total(auction_bids')
  <2>1. stable'.balances[con_vaults] \in Nat
    BY <1>6, <1>21 DEF Ledgers, LedgersOver
  <2> QED
    BY <1>4, <1>7, <1>8, <1>10, <1>15, <1>16, <1>17, <1>18, <1>19, <1>20, <1>21, <2>1
<1>23. collateral' \in [Collaterals -> [Accounts -> Nat]]
  BY <1>2, <1>3, <1>6, CollateralStep
<1> QED
  BY <1>2, <1>7, <1>13, <1>14, <1>15, <1>21, <1>22, <1>23, EscrowCallStep

-----------------------------------------------------------------------------
(* Losses and surplus. *)

\* Vaults and escrow that stay as they are.
LEMMA PositionsKept ==
  ASSUME Inv, UNCHANGED <<positions, vault_types>>
  PROVE  \A w \in VaultIds : VaultOK(w)'
<1>1. vaults' = vaults /\ auction_bids' = auction_bids /\ vault_types' = vault_types
  BY DEF positions
<1> QED
  BY <1>1, OtherVaultOK DEF VaultOK, CollateralOf, Inv

\* A call that moves stable and surplus or bad debt of one type.
LEMMA LossCallStep ==
  ASSUME Inv, NEW vt \in TypeIds, NEW surplus \in Nat, NEW bad \in Nat,
         books' = [books EXCEPT ![vt] = [books[vt] EXCEPT !.surplus_buffer = surplus,
                                                          !.bad_debt = bad]],
         stable' \in Ledgers,
         stable'.balances[con_vaults]
            >= stable.balances[con_vaults] + surplus - books[vt].surplus_buffer,
         UNCHANGED <<now, price, collateral, vault_types, vault_type_count, positions, wiring>>
  PROVE  Inv'
<1> DEFINE new == [books[vt] EXCEPT !.surplus_buffer = surplus, !.bad_debt = bad]
<1>1. books[vt] \in BookRecords /\ books[vt].rate_accumulator > 0
  BY DEF Inv, TypeOK, TypeIdOK
<1>2. new \in BookRecords /\ new.rate_accumulator > 0 /\ new.surplus_buffer = surplus
  BY <1>1 DEF BookRecords
<1> HIDE DEF new
<1>3. books' = [books EXCEPT ![vt] = new]
  BY DEF new
<1>4. \A w \in VaultIds : VaultOK(w)'
  BY PositionsKept
<1>5. /\ collateral' \in [Collaterals -> [Accounts -> Nat]]
      /\ vaults' \in [VaultIds -> VaultRecords]
      /\ UNCHANGED <<now, price, vault_types, vault_type_count, vault_count, auction_bids, wiring>>
  BY DEF Inv, TypeOK, positions
<1> QED
  BY <1>2, <1>3, <1>4, <1>5, VaultCallStep

LEMMA CoverStep ==
  ASSUME Inv, NEW vt \in TypeIds, NEW amount \in Nat, cover_bad_debt(vt, amount)
  PROVE  Inv'
<1> DEFINE coverable == AtMost(books[vt].surplus_buffer, books[vt].bad_debt)
           covered == IF amount = 0 THEN coverable ELSE amount
           surplus == books[vt].surplus_buffer - covered
           bad == books[vt].bad_debt - covered
<1>1. /\ covered <= coverable
      /\ stable.balances[con_vaults] >= covered
      /\ books' = [books EXCEPT ![vt] = [books[vt] EXCEPT !.surplus_buffer = surplus,
                                                          !.bad_debt = bad]]
      /\ stable' = LedgerBurn(stable, con_vaults, covered)
      /\ UNCHANGED <<now, price, collateral, vault_types, vault_type_count, positions, wiring>>
  BY DEF cover_bad_debt, CanPay
<1>2. books[vt].surplus_buffer \in Nat /\ books[vt].bad_debt \in Nat
  BY DEF Inv, TypeOK, BookRecords
<1>3. /\ coverable \in Nat
      /\ coverable <= books[vt].surplus_buffer /\ coverable <= books[vt].bad_debt
  BY <1>2 DEF AtMost
<1> HIDE DEF coverable
<1>4. covered \in Nat
  BY <1>3
<1>5. surplus \in Nat /\ bad \in Nat
  <2> HIDE DEF covered
  <2> QED
    BY <1>1, <1>2, <1>3, <1>4
<1>6. surplus = books[vt].surplus_buffer - covered
  OBVIOUS
<1> HIDE DEF covered, surplus, bad
<1>7. /\ stable' \in Ledgers
      /\ stable'.balances[con_vaults] = stable.balances[con_vaults] - covered
  BY <1>1, <1>4, AccountFacts, BurnKeepsLedger DEF Inv, Ledgers
<1>8. stable'.balances[con_vaults]
        >= stable.balances[con_vaults] + surplus - books[vt].surplus_buffer
  BY <1>2, <1>4, <1>6, <1>7, CustodyTypes
<1> QED
  BY <1>1, <1>5, <1>7, <1>8, LossCallStep

LEMMA RecapitalizeStep ==
  ASSUME Inv, NEW caller \in Users, NEW vt \in TypeIds, NEW amount \in Nat,
         recapitalize(caller, vt, amount)
  PROVE  Inv'
<1> DEFINE reduced == AtMost(amount, books[vt].bad_debt)
           surplus == books[vt].surplus_buffer + (amount - reduced)
           bad == books[vt].bad_debt - reduced
           ledger == LedgerTransfer(stable, caller, con_vaults, amount)
<1>1. /\ stable.balances[caller] >= amount
      /\ books' = [books EXCEPT ![vt] = [books[vt] EXCEPT !.bad_debt = bad,
                                                          !.surplus_buffer = surplus]]
      /\ stable' = LedgerBurn(ledger, con_vaults, reduced)
      /\ UNCHANGED <<now, price, collateral, vault_types, vault_type_count, positions, wiring>>
  BY DEF recapitalize, CanPay
<1>2. books[vt].surplus_buffer \in Nat /\ books[vt].bad_debt \in Nat
      /\ books[vt] \in BookRecords
  BY DEF Inv, TypeOK, BookRecords
<1>3. reduced \in Nat /\ reduced <= amount /\ reduced <= books[vt].bad_debt
  BY <1>2 DEF AtMost
<1> HIDE DEF reduced
<1>4. surplus \in Nat /\ bad \in Nat
  BY <1>2, <1>3
<1>5. surplus = books[vt].surplus_buffer + (amount - reduced)
  OBVIOUS
<1> HIDE DEF surplus, bad
<1>6. [books[vt] EXCEPT !.bad_debt = bad, !.surplus_buffer = surplus]
        = [books[vt] EXCEPT !.surplus_buffer = surplus, !.bad_debt = bad]
  BY <1>2 DEF BookRecords
<1>7. /\ caller \in Accounts /\ con_vaults \in Accounts /\ caller # con_vaults
      /\ IsFiniteSet(Accounts)
  BY AccountFacts, VaultsAssumption
<1>8. /\ ledger \in LedgersOver(Accounts)
      /\ ledger.balances[con_vaults] = stable.balances[con_vaults] + amount
  BY <1>1, <1>7, TransferKeepsLedger DEF Inv, Ledgers
<1> HIDE DEF ledger
<1>9. ledger.balances[con_vaults] >= reduced
  BY <1>3, <1>8, CustodyTypes
<1>10. /\ stable' \in Ledgers
       /\ stable'.balances[con_vaults] = ledger.balances[con_vaults] - reduced
  BY <1>1, <1>3, <1>7, <1>8, <1>9, BurnKeepsLedger DEF Ledgers
<1>11. stable'.balances[con_vaults]
         >= stable.balances[con_vaults] + surplus - books[vt].surplus_buffer
  BY <1>2, <1>3, <1>5, <1>8, <1>10, CustodyTypes
<1>12. books' = [books EXCEPT ![vt] = [books[vt] EXCEPT !.surplus_buffer = surplus,
                                                         !.bad_debt = bad]]
  BY <1>1, <1>6
<1> QED
  BY <1>1, <1>4, <1>10, <1>11, <1>12, LossCallStep

LEMMA SweepStep ==
  ASSUME Inv, NEW caller \in Users, NEW vt \in TypeIds, NEW amount \in Nat,
         sweep_surplus(caller, vt, amount)
  PROVE  Inv'
<1> DEFINE swept == IF amount = 0 THEN books[vt].surplus_buffer ELSE amount
           surplus == books[vt].surplus_buffer - swept
           bad == books[vt].bad_debt
<1>1. /\ swept <= books[vt].surplus_buffer
      /\ stable.balances[con_vaults] >= swept
      /\ books' = [books EXCEPT ![vt].surplus_buffer = @ - swept]
      /\ stable' = LedgerTransfer(stable, con_vaults, fee_destination, swept)
      /\ UNCHANGED <<now, price, collateral, vault_types, vault_type_count, positions, wiring>>
  BY DEF sweep_surplus, CanPay
<1>2. /\ books[vt].surplus_buffer \in Nat /\ bad \in Nat
      /\ books[vt] \in BookRecords /\ books \in [TypeIds -> BookRecords]
  BY DEF Inv, TypeOK, BookRecords
<1>3. swept \in Nat
  BY <1>2
<1> HIDE DEF swept
<1>4. surplus \in Nat
  BY <1>1, <1>2, <1>3
<1>5. books' = [books EXCEPT ![vt] = [books[vt] EXCEPT !.surplus_buffer = surplus,
                                                       !.bad_debt = bad]]
  BY <1>1, <1>2 DEF BookRecords
<1>6. /\ stable' \in Ledgers
      /\ stable'.balances[con_vaults] >= stable.balances[con_vaults] - swept
  BY <1>1, <1>3, AccountFacts, FeeDestinationType, TransferKeepsLedger DEF Inv, Ledgers
<1>7. stable'.balances[con_vaults]
        >= stable.balances[con_vaults] + surplus - books[vt].surplus_buffer
  <2>1. stable'.balances[con_vaults] \in Nat
    BY <1>6, AccountFacts DEF Ledgers, LedgersOver
  <2> QED
    BY <1>2, <1>3, <1>6, <2>1, CustodyTypes
<1> HIDE DEF surplus, bad
<1> QED
  BY <1>1, <1>2, <1>4, <1>5, <1>6, <1>7, LossCallStep

-----------------------------------------------------------------------------
(* Governance. *)

\* A type that starts from empty books.
LEMMA AddTypeStep ==
  ASSUME Inv, NEW caller \in Users, NEW arguments \in NewTypes, add_vault_type(caller, arguments)
  PROVE  Inv'
<1> DEFINE vt == vault_type_count + 1
           settings == [collateral_contract |-> arguments.collateral_contract, active |-> TRUE,
                        ratios |-> arguments.ratios, limits |-> arguments.limits,
                        auction |-> arguments.auction,
                        stability_fee_bps |-> arguments.stability_fee_bps,
                        surplus_buffer_bps |-> arguments.surplus_buffer_bps]
           new == NewBooks(now)
<1>1. /\ vault_type_count < MaxTypes
      /\ arguments.surplus_buffer_bps <= BPS_DENOMINATOR
      /\ vault_type_count' = vt
      /\ vault_types' = [vault_types EXCEPT ![vt] = settings]
      /\ books' = [books EXCEPT ![vt] = new]
      /\ UNCHANGED <<now, price, tokens, positions, wiring>>
  BY DEF add_vault_type, ValidSurplus
<1>2. vt \in TypeIds /\ vt \in 0..MaxTypes
  BY <1>1, VaultsAssumption DEF Inv, TypeOK, TypeIds
<1>3. arguments \in TypeArguments
  BY VaultsAssumption
<1>4. /\ settings \in TypeSettings
      /\ settings.collateral_contract \in Collaterals
      /\ settings.surplus_buffer_bps <= BPS_DENOMINATOR
  BY <1>1, <1>3 DEF TypeArguments, TypeSettings
<1>5. new \in BookRecords /\ new.rate_accumulator > 0 /\ new.surplus_buffer = 0
  BY ScaleAssumption DEF NewBooks, BookRecords, Inv, TypeOK
<1> HIDE DEF vt, settings, new
<1>6. vault_types \in [TypeIds -> TypeSettings] /\ books \in [TypeIds -> BookRecords]
  BY DEF Inv, TypeOK
<1>7. /\ vault_types' \in [TypeIds -> TypeSettings]
      /\ \A t \in TypeIds : vault_types[t].collateral_contract \in Collaterals =>
                               vault_types'[t].collateral_contract \in Collaterals
  BY <1>1, <1>2, <1>4, <1>6
<1>8. books' \in [TypeIds -> BookRecords]
      /\ Total(SurplusIn([books EXCEPT ![vt] = new]))
           = Total(SurplusIn(books)) + new.surplus_buffer - books[vt].surplus_buffer
  BY <1>1, <1>2, <1>5, <1>6, SurplusUpdate
<1>9. \A t \in TypeIds : TypeIdOK(t)'
  BY <1>1, <1>2, <1>4, <1>5, <1>6 DEF Inv, TypeIdOK
<1>10. vaults' = vaults /\ auction_bids' = auction_bids /\ stable' = stable
       /\ collateral' = collateral /\ vault_count' = vault_count
  BY <1>1 DEF positions, tokens
<1>11. \A v \in VaultIds : VaultOK(v)'
  BY <1>7, <1>10 DEF Inv, VaultOK, CollateralOf
<1>12. StableCustody'
  <2>1. books[vt].surplus_buffer \in Nat
    BY <1>2, <1>6 DEF BookRecords
  <2>2. Total(SurplusIn(books')) <= Total(SurplusIn(books))
        /\ Total(SurplusIn(books')) \in Int
    BY <1>1, <1>5, <1>8, <2>1, CustodyTypes
  <2> QED
    BY <1>10, <2>2, CustodyTypes, CustodyStep
<1>13. TypeOK'
  BY <1>1, <1>2, <1>7, <1>8, <1>10 DEF Inv, TypeOK, wiring
<1> QED
  BY <1>9, <1>10, <1>11, <1>12, <1>13 DEF Inv

\* Custody depends on the ledger, the books and the escrow only.
LEMMA CustodyKept ==
  ASSUME StableCustody, stable' = stable, books' = books, auction_bids' = auction_bids
  PROVE  StableCustody'
  BY DEF StableCustody, SurplusOf

\* New settings of a type whose collateral stays.
LEMMA ChangeTypeStep ==
  ASSUME Inv, NEW caller \in Users, NEW vt \in TypeIds, NEW settings \in TypeSettings,
         settings.collateral_contract = vault_types[vt].collateral_contract,
         settings.surplus_buffer_bps <= BPS_DENOMINATOR,
         ChangeType(caller, vt, settings)
  PROVE  Inv'
<1>1. /\ vault_types' = [vault_types EXCEPT ![vt] = settings]
      /\ UNCHANGED <<now, price, stable, collateral, books, vault_type_count,
                     vaults, vault_count, auction_bids, wiring>>
  BY DEF ChangeType, tokens, positions
<1>2. vault_types \in [TypeIds -> TypeSettings]
  BY DEF Inv, TypeOK
<1>3. /\ vault_types' \in [TypeIds -> TypeSettings]
      /\ \A t \in TypeIds :
            vault_types'[t].collateral_contract = vault_types[t].collateral_contract
  BY <1>1, <1>2
<1>4. \A t \in TypeIds : TypeIdOK(t)'
  BY <1>1, <1>2 DEF Inv, TypeIdOK
<1>5. \A v \in VaultIds : VaultOK(v)'
  BY <1>1, <1>3 DEF Inv, VaultOK, CollateralOf
<1>6. TypeOK'
  BY <1>1, <1>3 DEF Inv, TypeOK, wiring
<1> QED
  BY <1>1, <1>4, <1>5, <1>6, CustodyKept DEF Inv

LEMMA TypeCallStep ==
  ASSUME Inv, NEW caller \in Users, NEW vt \in TypeIds, TypeCall(caller, vt)
  PROVE  Inv'
<1> DEFINE now_set == vault_types[vt]
<1>1. /\ now_set \in TypeSettings
      /\ now_set.surplus_buffer_bps <= BPS_DENOMINATOR
  BY DEF Inv, TypeOK, TypeIdOK
<1>2. CASE \E active \in ActiveChoices : set_vault_type_active(caller, vt, active)
  <2>1. PICK active \in ActiveChoices :
           ChangeType(caller, vt, [now_set EXCEPT !.active = active])
    BY <1>2 DEF set_vault_type_active
  <2>2. active \in BOOLEAN
    BY VaultsAssumption
  <2> DEFINE new == [now_set EXCEPT !.active = active]
  <2>3. /\ new \in TypeSettings
        /\ new.collateral_contract = now_set.collateral_contract
        /\ new.surplus_buffer_bps <= BPS_DENOMINATOR
    BY <1>1, <2>2 DEF TypeSettings
  <2> HIDE DEF new
  <2> QED
    BY <2>1, <2>3, ChangeTypeStep DEF new
<1>3. CASE \E fee \in FeeChoices : set_vault_type_fee(caller, vt, fee)
  <2>1. PICK fee \in FeeChoices :
           ChangeType(caller, vt, [now_set EXCEPT !.stability_fee_bps = fee])
    BY <1>3 DEF set_vault_type_fee
  <2>2. fee \in Nat
    BY VaultsAssumption
  <2> DEFINE new == [now_set EXCEPT !.stability_fee_bps = fee]
  <2>3. /\ new \in TypeSettings
        /\ new.collateral_contract = now_set.collateral_contract
        /\ new.surplus_buffer_bps <= BPS_DENOMINATOR
    BY <1>1, <2>2 DEF TypeSettings
  <2> HIDE DEF new
  <2> QED
    BY <2>1, <2>3, ChangeTypeStep DEF new
<1>4. CASE \E limits \in LimitChoices : set_vault_type_limits(caller, vt, limits)
  <2>1. PICK limits \in LimitChoices :
           ChangeType(caller, vt, [now_set EXCEPT !.limits = limits])
    BY <1>4 DEF set_vault_type_limits
  <2>2. limits \in Limits
    BY VaultsAssumption
  <2> DEFINE new == [now_set EXCEPT !.limits = limits]
  <2>3. /\ new \in TypeSettings
        /\ new.collateral_contract = now_set.collateral_contract
        /\ new.surplus_buffer_bps <= BPS_DENOMINATOR
    BY <1>1, <2>2 DEF TypeSettings
  <2> HIDE DEF new
  <2> QED
    BY <2>1, <2>3, ChangeTypeStep DEF new
<1>5. CASE \E ratios \in RatioChoices : set_vault_type_ratios(caller, vt, ratios)
  <2>1. PICK ratios \in RatioChoices :
           ChangeType(caller, vt, [now_set EXCEPT !.ratios = ratios])
    BY <1>5 DEF set_vault_type_ratios
  <2>2. ratios \in Ratios
    BY VaultsAssumption
  <2> DEFINE new == [now_set EXCEPT !.ratios = ratios]
  <2>3. /\ new \in TypeSettings
        /\ new.collateral_contract = now_set.collateral_contract
        /\ new.surplus_buffer_bps <= BPS_DENOMINATOR
    BY <1>1, <2>2 DEF TypeSettings
  <2> HIDE DEF new
  <2> QED
    BY <2>1, <2>3, ChangeTypeStep DEF new
<1>6. CASE \E terms \in AuctionChoices : set_vault_type_auction_config(caller, vt, terms)
  <2>1. PICK terms \in AuctionChoices :
           ChangeType(caller, vt, [now_set EXCEPT !.auction = terms])
    BY <1>6 DEF set_vault_type_auction_config
  <2>2. terms \in AuctionTerms
    BY VaultsAssumption
  <2> DEFINE new == [now_set EXCEPT !.auction = terms]
  <2>3. /\ new \in TypeSettings
        /\ new.collateral_contract = now_set.collateral_contract
        /\ new.surplus_buffer_bps <= BPS_DENOMINATOR
    BY <1>1, <2>2 DEF TypeSettings
  <2> HIDE DEF new
  <2> QED
    BY <2>1, <2>3, ChangeTypeStep DEF new
<1>7. CASE \E bps \in SurplusChoices : set_vault_type_surplus_buffer_bps(caller, vt, bps)
  <2>1. PICK bps \in SurplusChoices :
           /\ bps <= BPS_DENOMINATOR
           /\ ChangeType(caller, vt, [now_set EXCEPT !.surplus_buffer_bps = bps])
    BY <1>7 DEF set_vault_type_surplus_buffer_bps, ValidSurplus
  <2>2. bps \in Nat
    BY VaultsAssumption
  <2> DEFINE new == [now_set EXCEPT !.surplus_buffer_bps = bps]
  <2>3. /\ new \in TypeSettings
        /\ new.collateral_contract = now_set.collateral_contract
        /\ new.surplus_buffer_bps <= BPS_DENOMINATOR
    BY <1>1, <2>1, <2>2 DEF TypeSettings
  <2> HIDE DEF new
  <2> QED
    BY <2>1, <2>3, ChangeTypeStep DEF new
<1> QED
  BY <1>2, <1>3, <1>4, <1>5, <1>6, <1>7 DEF TypeCall

\* Who governs, where fees go and whether the protocol is paused.
LEMMA WiringStep ==
  ASSUME Inv, UNCHANGED <<now, price, tokens, types, positions>>,
         savings_contract' \in FeeReceivers \cup {NoOne},
         treasury_address' \in FeeReceivers \cup {NoOne},
         governor' \in Users, proposed_governor' \in Users \cup {NoOne},
         paused' \in BOOLEAN
  PROVE  Inv'
<1>1. UNCHANGED <<now, price, stable, collateral, vault_types, books, vault_type_count,
                  vaults, vault_count, auction_bids>>
  BY DEF tokens, types, positions
<1>2. TypeOK'
  BY <1>1 DEF Inv, TypeOK
<1>3. \A v \in VaultIds : VaultOK(v)'
  BY <1>1, PositionsKept DEF positions
<1>4. \A t \in TypeIds : TypeIdOK(t)'
  BY BooksKept
<1> QED
  BY <1>1, <1>2, <1>3, <1>4, CustodyKept DEF Inv

LEMMA GovernorStep ==
  ASSUME Inv, NEW caller \in Users, GovernorCall(caller)
  PROVE  Inv'
<1>1. /\ savings_contract \in FeeReceivers \cup {NoOne}
      /\ treasury_address \in FeeReceivers \cup {NoOne}
      /\ governor \in Users /\ proposed_governor \in Users \cup {NoOne}
      /\ paused \in BOOLEAN
  BY DEF Inv, TypeOK
<1>2. CASE \E arguments \in NewTypes : add_vault_type(caller, arguments)
  BY <1>2, AddTypeStep
<1>3. CASE \E value \in PauseChoices : set_paused(caller, value)
  <2>1. /\ paused' \in BOOLEAN
        /\ UNCHANGED <<now, price, tokens, types, positions, savings_contract,
                       treasury_address, governor, proposed_governor>>
    BY <1>3, VaultsAssumption DEF set_paused
  <2> QED
    BY <1>1, <2>1, WiringStep
<1>4. CASE \E target \in ReceiverChoices : set_savings_contract(caller, target)
  <2>1. /\ savings_contract' \in FeeReceivers \cup {NoOne}
        /\ UNCHANGED <<now, price, tokens, types, positions, treasury_address,
                       governor, proposed_governor, paused>>
    BY <1>4, VaultsAssumption DEF set_savings_contract
  <2> QED
    BY <1>1, <2>1, WiringStep
<1>5. CASE \E address \in ReceiverChoices : set_treasury_address(caller, address)
  <2>1. /\ treasury_address' \in FeeReceivers \cup {NoOne}
        /\ UNCHANGED <<now, price, tokens, types, positions, savings_contract,
                       governor, proposed_governor, paused>>
    BY <1>5, VaultsAssumption DEF set_treasury_address
  <2> QED
    BY <1>1, <2>1, WiringStep
<1>6. CASE \E user \in NomineeChoices : start_governance_transfer(caller, user)
  <2>1. /\ proposed_governor' \in Users
        /\ UNCHANGED <<now, price, tokens, types, positions, savings_contract,
                       treasury_address, governor, paused>>
    BY <1>6, VaultsAssumption DEF start_governance_transfer
  <2> QED
    BY <1>1, <2>1, WiringStep
<1>7. CASE accept_governance(caller)
  <2>1. /\ governor' \in Users /\ proposed_governor' = NoOne
        /\ UNCHANGED <<now, price, tokens, types, positions, savings_contract,
                       treasury_address, paused>>
    BY <1>1, <1>7 DEF accept_governance
  <2> QED
    BY <1>1, <2>1, WiringStep
<1> QED
  BY <1>2, <1>3, <1>4, <1>5, <1>6, <1>7 DEF GovernorCall

-----------------------------------------------------------------------------
(* The world outside. *)

LEMMA TransferStep ==
  ASSUME Inv, NEW caller \in Users, NEW amount \in Nat, NEW to \in Accounts,
         HolderTransfers(caller, amount, to)
  PROVE  Inv'
<1>1. /\ stable.balances[caller] >= amount
      /\ stable' = LedgerTransfer(stable, caller, to, amount)
      /\ UNCHANGED <<now, price, collateral, types, positions, wiring>>
  BY DEF HolderTransfers, CanPay
<1>2. /\ caller \in Accounts /\ con_vaults \in Accounts /\ caller # con_vaults
      /\ IsFiniteSet(Accounts)
  BY AccountFacts, VaultsAssumption
<1>3. /\ stable' \in Ledgers
      /\ stable'.balances[con_vaults] >= stable.balances[con_vaults]
  <2>1. /\ stable' \in Ledgers
        /\ stable'.balances[con_vaults]
             >= stable.balances[con_vaults] - (IF con_vaults = caller THEN amount ELSE 0)
    BY <1>1, <1>2, TransferKeepsLedger DEF Inv, Ledgers
  <2> QED
    BY <1>2, <2>1, CustodyTypes
<1>4. /\ books' = books /\ auction_bids' = auction_bids /\ vaults' = vaults
      /\ UNCHANGED <<now, price, vault_types, vault_type_count, vault_count, wiring>>
  BY <1>1 DEF types, positions
<1>5. stable'.balances[con_vaults] >= Total(SurplusIn(books')) + Total(auction_bids')
  <2>1. stable'.balances[con_vaults] \in Nat
    BY <1>2, <1>3 DEF Ledgers, LedgersOver
  <2> QED
    BY <1>3, <1>4, <2>1, CustodyTypes
<1>6. \A v \in VaultIds : VaultOK(v)'
  BY <1>1, <1>4, PositionsKept
<1>7. books' \in [TypeIds -> BookRecords] /\ \A t \in TypeIds : TypeIdOK(t)'
  BY <1>1, BooksKept
<1>8. /\ collateral' \in [Collaterals -> [Accounts -> Nat]]
      /\ vaults' \in [VaultIds -> VaultRecords]
      /\ auction_bids' \in [VaultIds \X Accounts -> Nat]
  BY <1>1, <1>4 DEF Inv, TypeOK
<1> QED
  BY <1>3, <1>4, <1>5, <1>6, <1>7, <1>8, EscrowCallStep

\* Time, prices and steps of others leave everything else as it is.
LEMMA WorldStep ==
  ASSUME Inv, now' \in Nat, price' \in [Collaterals -> Nat],
         UNCHANGED <<tokens, types, positions, wiring>>
  PROVE  Inv'
<1>1. UNCHANGED <<stable, collateral, vault_types, books, vault_type_count,
                  vaults, vault_count, auction_bids, wiring>>
  BY DEF tokens, types, positions
<1>2. TypeOK'
  BY <1>1 DEF Inv, TypeOK, wiring
<1>3. \A v \in VaultIds : VaultOK(v)'
  BY <1>1, PositionsKept DEF positions
<1>4. \A t \in TypeIds : TypeIdOK(t)'
  BY BooksKept
<1> QED
  BY <1>1, <1>2, <1>3, <1>4, CustodyKept DEF Inv

-----------------------------------------------------------------------------
(* Every step. *)

LEMMA OwnerCallStep ==
  ASSUME Inv, NEW caller \in Users, NEW v \in VaultIds, OwnerCall(caller, v)
  PROVE  Inv'
<1>1. CASE \E amount \in CollateralAmounts : deposit_collateral(caller, v, amount)
  BY <1>1, DepositStep, VaultsAssumption
<1>2. CASE \E amount \in CollateralAmounts : withdraw_collateral(caller, v, amount)
  BY <1>2, WithdrawStep, VaultsAssumption
<1>3. CASE \E amount \in DebtAmounts : borrow(caller, v, amount)
  BY <1>3, BorrowStep, VaultsAssumption
<1>4. CASE close_vault(caller, v)
  BY <1>4, CloseStep
<1>5. CASE \E amount \in PaymentAmounts \cup {0, vaults[v].auction_debt_snapshot} :
              cure_auction(caller, v, amount)
  <2>1. PICK amount \in PaymentAmounts \cup {0, vaults[v].auction_debt_snapshot} :
           cure_auction(caller, v, amount)
    BY <1>5
  <2>2. vaults[v].auction_debt_snapshot \in Nat
    BY VaultFieldTypes DEF Inv, TypeOK
  <2>3. amount \in Nat
    BY <2>2, VaultsAssumption
  <2> QED
    BY <2>1, <2>3, CureStep
<1> QED
  BY <1>1, <1>2, <1>3, <1>4, <1>5 DEF OwnerCall

LEMMA AnyonesCallStep ==
  ASSUME Inv, NEW caller \in Users, NEW v \in VaultIds, AnyonesCall(caller, v)
  PROVE  Inv'
<1>1. CASE \E amount \in PaymentAmounts : repay(caller, v, amount)
  BY <1>1, RepayStep, VaultsAssumption
<1>2. CASE \E amount \in PaymentAmounts \ {0} : liquidate(caller, v, amount)
  BY <1>2, LiquidateStep, VaultsAssumption
<1>3. CASE liquidate_fast(caller, v)
  <2>1. liquidate(caller, v, 0)
    BY <1>3 DEF liquidate_fast
  <2> QED
    BY <2>1, LiquidateStep
<1>4. CASE \E amount \in BidAmounts : bid(caller, v, amount)
  BY <1>4, BidStep, VaultsAssumption
<1>5. CASE claim_refund(caller, v)
  BY <1>5, ClaimStep
<1> QED
  BY <1>1, <1>2, <1>3, <1>4, <1>5 DEF AnyonesCall

LEMMA CallStep ==
  ASSUME Inv, NEW caller \in Users, Call(caller)
  PROVE  Inv'
<1>1. CASE \E vt \in TypeIds, amount \in CollateralAmounts, debt \in DebtAmounts :
              create_vault(caller, vt, amount, debt)
  BY <1>1, CreateVaultStep, VaultsAssumption
<1>2. CASE \E v \in VaultIds : OwnerCall(caller, v) \/ AnyonesCall(caller, v)
  BY <1>2, OwnerCallStep, AnyonesCallStep
<1>3. CASE \E vt \in TypeIds : LossCall(caller, vt)
  <2>1. PICK vt \in TypeIds : LossCall(caller, vt)
    BY <1>3
  <2>2. CASE \E amount \in LossAmounts : recapitalize(caller, vt, amount)
    BY <2>2, RecapitalizeStep, VaultsAssumption
  <2>3. CASE \E amount \in LossAmounts \cup {0} : sweep_surplus(caller, vt, amount)
    BY <2>3, SweepStep, VaultsAssumption
  <2> QED
    BY <2>1, <2>2, <2>3 DEF LossCall
<1>4. CASE \E vt \in TypeIds : TypeCall(caller, vt)
  BY <1>4, TypeCallStep
<1>5. CASE GovernorCall(caller)
  BY <1>5, GovernorStep
<1>6. CASE \E amount \in TransferAmounts, to \in Accounts : HolderTransfers(caller, amount, to)
  BY <1>6, TransferStep, VaultsAssumption
<1> QED
  BY <1>1, <1>2, <1>3, <1>4, <1>5, <1>6 DEF Call

LEMMA NextPreservesInv ==
  ASSUME Inv, [Next]_vars PROVE Inv'
<1>1. now \in Nat /\ price \in [Collaterals -> Nat]
  BY DEF Inv, TypeOK
<1>2. CASE \E caller \in Users : Call(caller)
  BY <1>2, CallStep
<1>3. CASE \E v \in VaultIds : KeeperCall(v)
  BY <1>3, OpenAuctionStep, CancelStep, SettleStep DEF KeeperCall
<1>4. CASE \E vt \in TypeIds, amount \in LossAmounts \cup {0} : cover_bad_debt(vt, amount)
  BY <1>4, CoverStep, VaultsAssumption
<1>5. CASE \E c \in Collaterals, quote \in Prices : OracleMoves(c, quote)
  <2>1. /\ price' \in [Collaterals -> Nat] /\ now' = now
        /\ UNCHANGED <<tokens, types, positions, wiring>>
    BY <1>1, <1>5, VaultsAssumption DEF OracleMoves
  <2> QED
    BY <1>1, <2>1, WorldStep
<1>6. CASE Tick
  <2>1. /\ price' = price /\ now' \in Nat
        /\ UNCHANGED <<tokens, types, positions, wiring>>
    BY <1>1, <1>6 DEF Tick
  <2> QED
    BY <1>1, <2>1, WorldStep
<1>7. CASE UNCHANGED vars
  <2>1. /\ price' = price /\ now' = now
        /\ UNCHANGED <<tokens, types, positions, wiring>>
    BY <1>7 DEF vars
  <2> QED
    BY <1>1, <2>1, WorldStep
<1> QED
  BY <1>2, <1>3, <1>4, <1>5, <1>6, <1>7 DEF Next

-----------------------------------------------------------------------------
(* The theorems. *)

\* The inductive invariant holds in every reachable state of the contract.
THEOREM VaultsInvariant == Spec => []Inv
<1>1. Init => Inv
  BY InitEstablishesInv
<1>2. Inv /\ [Next]_vars => Inv'
  BY NextPreservesInv
<1> QED
  BY <1>1, <1>2, PTL DEF Spec

\* Every field of con_vaults keeps its type: no amount, balance, surplus or bad
\* debt goes below zero, whatever is called in whatever order.
THEOREM VaultsTypeCorrect == Spec => []TypeOK
<1>1. Inv => TypeOK
  BY DEF Inv
<1> QED
  BY <1>1, VaultsInvariant, PTL

\* The contract always holds the stable it has buffered and the stable it has in
\* escrow at once, so no refund, settlement, cover or sweep fails for want of it.
THEOREM StableIsInCustody == Spec => []StableCustody
<1>1. Inv => StableCustody
  BY DEF Inv
<1> QED
  BY <1>1, VaultsInvariant, PTL

\* The vault engine's own calls keep the stable token's supply equal to the sum
\* of its balances.
THEOREM VaultsConserveStable == Spec => [](stable.total_supply = Total(stable.balances))
<1>1. Inv => stable.total_supply = Total(stable.balances)
  BY DEF Inv, Ledgers, LedgersOver
<1> QED
  BY <1>1, VaultsInvariant, PTL


-----------------------------------------------------------------------------
(* The safety invariant: what a vault records is what the contract holds, what *)
(* its type's totals count and what its auction has in escrow.  It builds on    *)
(* Inv, which types both the state and the next state.                         *)

\* What keeps a vault worth auctioning: live debt has collateral behind it, and
\* an auction has debt to recover.
Secured(vault) ==
    /\ ~vault.auction_open /\ vault.debt_shares > 0 => vault.collateral_amount > 0
    /\ vault.auction_open => vault.auction_debt_snapshot > 0

\* A type with a collateral token has been added, with ratios that were checked;
\* one that has not been added owes nothing, so its books can be started afresh.
TypeRecorded(vt) ==
    /\ vault_types[vt].collateral_contract # NoOne =>
          vt <= vault_type_count /\ ValidRatios(vault_types[vt].ratios)
    /\ vt > vault_type_count =>
          /\ books[vt].principal_outstanding = 0
          /\ books[vt].auction_principal_locked = 0
          /\ books[vt].bad_debt = 0
    /\ books[vt].rate_accumulator >= SCALE

VaultRecorded(v) ==
    /\ v > vault_count => vaults[v] = NoVault
    /\ vaults[v].vault_type_id <= vault_type_count
    /\ Secured(vaults[v])

Recorded ==
    /\ \A vt \in TypeIds : TypeRecorded(vt)
    /\ \A v \in VaultIds : VaultRecorded(v)

\* The inductive invariant.  Each of the three properties needs Recorded: a type
\* that is added must have no vaults and no debt yet, a vault that is created no
\* escrow, and an auction that opens must have collateral to sell.
SafetyInv ==
    /\ Inv
    /\ Recorded
    /\ CollateralCustody
    /\ TotalsCoverVaults
    /\ EscrowMatchesAuction

\* What has to be shown of a step: the new state is as the invariant wants it,
\* and the step is one the action properties allow.
BackingStep == Uncovered' <= Uncovered + SettlementRounding

MarketStep ==
    now' = now /\ price' = price /\ vault_types' = vault_types =>
        \A v \in VaultIds : Liquidatable(vaults[v])' => Liquidatable(vaults[v])

\* A vault that closes as new has given all its collateral to the winner of its
\* settled auction, or else to its owner.
HandedOut(v, new) ==
    LET c == CollateralOf(v)
        receiver == IF new.auction_settled
                    THEN vaults[v].auction_highest_bidder
                    ELSE vaults[v].owner
    IN  /\ ~new.open
        /\ collateral'[c][receiver] = collateral[c][receiver] + vaults[v].collateral_amount

PauseStep ==
    paused =>
        /\ stable'.total_supply <= stable.total_supply
        /\ \A v \in VaultIds :
              /\ vaults'[v].auction_open => vaults[v].auction_open
              /\ vaults'[v].collateral_amount < vaults[v].collateral_amount =>
                    HandedOut(v, vaults'[v])

SafeStep ==
    /\ Recorded' /\ CollateralCustody' /\ TotalsCoverVaults' /\ EscrowMatchesAuction'
    /\ BackingStep /\ MarketStep /\ PauseStep

-----------------------------------------------------------------------------
(* Decimals. *)

LEMMA MulUnit ==
  ASSUME NEW a \in Nat
  PROVE  Mul(a, SCALE) = a
<1>1. a * SCALE = SCALE * a /\ a * SCALE \in Int
  BY Z3, ScaleAssumption
<1>2. (a * SCALE) \div SCALE <= a
  BY <1>1, QuotientBounded, ScaleAssumption
<1>3. (a * SCALE) \div SCALE >= a
  BY <1>1, QuotientAtLeast, ScaleAssumption
<1>4. (a * SCALE) \div SCALE \in Int
  BY <1>1, Floor, ScaleAssumption
<1> QED
  BY <1>2, <1>3, <1>4 DEF Mul

\* A quotient grows with its numerator.
LEMMA QuotientMonotonic ==
  ASSUME NEW a \in Int, NEW b \in Int, a <= b, NEW c \in Nat, c > 0
  PROVE  a \div c <= b \div c
<1>1. a \div c \in Int /\ c * (a \div c) <= a
  BY Floor
<1>2. c * (a \div c) <= b /\ b \div c \in Int
  BY <1>1, Floor
<1> QED
  BY <1>1, <1>2, QuotientAtLeast

LEMMA MulMonotonic ==
  ASSUME NEW a \in Nat, NEW b \in Nat, a <= b, NEW rate \in Nat
  PROVE  Mul(a, rate) <= Mul(b, rate)
<1>1. rate * a <= rate * b
  BY ProductMonotonic
<1>2. a * rate \in Nat /\ b * rate \in Nat /\ a * rate = rate * a /\ b * rate = rate * b
  BY Z3
<1> QED
  BY <1>1, <1>2, QuotientMonotonic, ScaleAssumption DEF Mul

\* Debt turned into shares and back is no more than it was, also when it is added
\* to other shares.
LEMMA MulAfterDiv ==
  ASSUME NEW s \in Nat, NEW p \in Nat, NEW rate \in Nat, rate > 0
  PROVE  Mul(s + Div(p, rate), rate) <= Mul(s, rate) + p
<1> DEFINE shares == Div(p, rate)
<1>1. shares \in Nat
  BY DivType
<1>2. rate * shares <= p * SCALE
  <2>1. p * SCALE \in Int
    BY ScaleAssumption
  <2> QED
    BY <2>1, Floor DEF Div
<1> HIDE DEF shares
<1>3. Mul(s, rate) \in Nat
  BY MulType
<1>4. s * rate < SCALE * Mul(s, rate) + SCALE
  <2>1. s * rate \in Int
    OBVIOUS
  <2> QED
    BY <2>1, Floor, ScaleAssumption DEF Mul
<1>5. (s + shares) * rate = s * rate + rate * shares
  BY <1>1, Z3
<1> DEFINE m == Mul(s, rate)
<1>6. (s + shares) * rate < SCALE * (m + p) + SCALE
  <2>1. SCALE * (m + p) = SCALE * m + p * SCALE
    BY <1>3, ScaleAssumption, Z3
  <2>2. s * rate \in Int /\ rate * shares \in Int /\ SCALE * m \in Int /\ p * SCALE \in Int
        /\ SCALE \in Int
    BY <1>1, <1>3, ScaleAssumption
  <2> QED
    BY <1>2, <1>4, <1>5, <2>1, <2>2
<1>7. (s + shares) * rate \in Int /\ m + p \in Int /\ m \in Nat
  BY <1>1, <1>3
<1>8. Mul(s + shares, rate) \in Int /\ SCALE * Mul(s + shares, rate) <= (s + shares) * rate
  BY <1>7, Floor, ScaleAssumption DEF Mul
<1> HIDE DEF m
<1> DEFINE x == Mul(s + shares, rate)
           y == m + p
<1>9. x \in Int /\ y \in Int /\ SCALE * x < SCALE * y + SCALE
  <2>1. SCALE * x \in Int /\ SCALE * y \in Int /\ (s + shares) * rate \in Int /\ SCALE \in Int
    BY <1>7, <1>8, ScaleAssumption
  <2> QED
    BY <1>6, <1>7, <1>8, <2>1
<1> HIDE DEF x, y
<1>10. x <= y
  <2>1. SUFFICES ASSUME x >= y + 1 PROVE FALSE
    BY <1>9
  <2>2. SCALE * (y + 1) <= SCALE * x
    BY <1>9, <2>1, ProductMonotonic, ScaleAssumption
  <2>3. SCALE * (y + 1) = SCALE * y + SCALE
    BY <1>9, ScaleAssumption, Z3
  <2>4. SCALE * x \in Int /\ SCALE * y \in Int /\ SCALE \in Int
    BY <1>9, ScaleAssumption
  <2> QED
    BY <1>9, <2>2, <2>3, <2>4
<1> QED
  BY <1>10 DEF x, y, m, shares

-----------------------------------------------------------------------------
(* A call on one vault: what it has to satisfy, part by part. *)

\* The vault v becomes new and the books of its type vt become new_books.  The
\* vault is one of that type, or one that is created.
VaultCall(v, vt, new, new_books) ==
    /\ vaults' = [vaults EXCEPT ![v] = new]
    /\ books' = [books EXCEPT ![vt] = new_books]
    /\ UNCHANGED <<now, price, vault_types, vault_type_count>>
    /\ new.vault_type_id = vt
    /\ vt <= vault_type_count
    /\ \/ vaults[v].vault_type_id = vt /\ vault_count' = vault_count /\ v <= vault_count
       \/ vaults[v] = NoVault /\ vault_count' = vault_count + 1 /\ v = vault_count + 1

\* What the call adds to the vault it adds to the totals, or more.
DebtsCounted(old, new, old_books, new_books) ==
    /\ new_books.normalized_debt_total - old_books.normalized_debt_total
          >= new.debt_shares - old.debt_shares
    /\ new_books.principal_outstanding - old_books.principal_outstanding
          >= new.principal - old.principal
    /\ new_books.auction_debt_locked - old_books.auction_debt_locked
          >= new.auction_debt_snapshot - old.auction_debt_snapshot
    /\ new_books.auction_principal_locked - old_books.auction_principal_locked
          >= new.auction_principal_snapshot - old.auction_principal_snapshot

\* What the vault records comes in, and no more leaves than it stops recording.
Held(vault) == IF vault.open THEN vault.collateral_amount ELSE 0

CollateralFollows(c, old, new) ==
    /\ \A d \in Collaterals \ {c} : collateral'[d] = collateral[d]
    /\ collateral'[c][con_vaults] - collateral[c][con_vaults] >= Held(new) - Held(old)

\* What is minted is owed, and what is no longer owed is burnt or bad debt.
RoundingOf(old, new) ==
    IF new.auction_settled /\ ~old.auction_settled
    THEN AtLeastZero(old.auction_principal_snapshot - old.auction_debt_snapshot)
    ELSE 0

BackingKept(old, new, old_books, new_books) ==
    stable'.total_supply - stable.total_supply
      <= (new_books.principal_outstanding - old_books.principal_outstanding)
           + (new_books.auction_principal_locked - old_books.auction_principal_locked)
           + (new_books.bad_debt - old_books.bad_debt)
           + RoundingOf(old, new)

\* Books are brought up to date or left with the rate they have.
RateKept(vt, new_books) ==
    \/ /\ new_books.rate_accumulator = books[vt].rate_accumulator
       /\ new_books.last_rate_time = books[vt].last_rate_time
    \/ new_books.rate_accumulator = current_rate(vt) /\ new_books.last_rate_time = now

\* The part of EscrowMatchesAuction about one vault.
EscrowAgrees(v) ==
    /\ vaults[v].auction_open =>
          /\ vaults[v].open
          /\ vaults[v].debt_shares = 0 /\ vaults[v].principal = 0
          /\ vaults[v].collateral_amount > 0
          /\ \A a \in Accounts : auction_bids[<<v, a>>] <= vaults[v].auction_highest_bid
          /\ vaults[v].auction_highest_bidder # NoOne =>
                auction_bids[<<v, vaults[v].auction_highest_bidder>>]
                    = vaults[v].auction_highest_bid
    /\ ~vaults[v].auction_open /\ ~vaults[v].auction_settled =>
          \A a \in Accounts : auction_bids[<<v, a>>] = 0

OthersEscrowKept(v) ==
    \A w \in VaultIds \ {v}, a \in Accounts : auction_bids'[<<w, a>>] = auction_bids[<<w, a>>]

\* Minting, opening an auction and taking collateral out of a vault otherwise than
\* by closing it are for when the protocol is not paused.
PauseRespected(v, new) ==
    paused =>
        /\ stable'.total_supply <= stable.total_supply
        /\ new.auction_open => vaults[v].auction_open
        /\ new.collateral_amount < vaults[v].collateral_amount => HandedOut(v, new)

\* Types of what such a call is about.
LEMMA CallTypes ==
  ASSUME Inv, Inv', NEW v \in VaultIds, NEW vt \in TypeIds, NEW new, NEW new_books,
         VaultCall(v, vt, new, new_books)
  PROVE  /\ vaults[v] \in VaultRecords /\ new \in VaultRecords
         /\ books[vt] \in BookRecords /\ new_books \in BookRecords
         /\ vaults'[v] = new /\ books'[vt] = new_books
         /\ \A w \in VaultIds \ {v} : vaults'[w] = vaults[w]
         /\ \A t \in TypeIds \ {vt} : books'[t] = books[t]
<1>1. /\ vaults \in [VaultIds -> VaultRecords] /\ vaults' \in [VaultIds -> VaultRecords]
      /\ books \in [TypeIds -> BookRecords] /\ books' \in [TypeIds -> BookRecords]
  BY DEF Inv, TypeOK
<1>2. vaults' = [vaults EXCEPT ![v] = new] /\ books' = [books EXCEPT ![vt] = new_books]
  BY DEF VaultCall
<1> QED
  BY <1>1, <1>2

LEMMA VaultIdsFinite == IsFiniteSet(VaultIds)
  BY FS_Interval, VaultsAssumption DEF VaultIds

-----------------------------------------------------------------------------
(* Collateral. *)

LEMMA CallKeepsCollateral ==
  ASSUME SafetyInv, Inv', NEW v \in VaultIds, NEW vt \in TypeIds, NEW new, NEW new_books,
         VaultCall(v, vt, new, new_books),
         CollateralFollows(vault_types[vt].collateral_contract, vaults[v], new)
  PROVE  CollateralCustody'
<1> DEFINE c == vault_types[vt].collateral_contract
           old == vaults[v]
<1> SUFFICES ASSUME NEW d \in Collaterals
             PROVE  collateral'[d][con_vaults] >= Total(RecordedCollateral(d)')
  BY DEF CollateralCustody
<1> DEFINE f == RecordedCollateral(d)
           x == IF new.open /\ c = d THEN new.collateral_amount ELSE 0
<1>1. /\ old \in VaultRecords /\ new \in VaultRecords /\ vaults'[v] = new
      /\ \A w \in VaultIds \ {v} : vaults'[w] = vaults[w]
      /\ vaults \in [VaultIds -> VaultRecords]
  BY CallTypes DEF SafetyInv, Inv, TypeOK
<1>2. /\ vault_types' = vault_types /\ new.vault_type_id = vt
      /\ old.vault_type_id = vt \/ old = NoVault
  BY DEF VaultCall
<1>3. f \in [VaultIds -> Nat] /\ x \in Nat
  BY <1>1 DEF RecordedCollateral, VaultRecords
<1>4. RecordedCollateral(d)' = [f EXCEPT ![v] = x]
  BY <1>1, <1>2 DEF RecordedCollateral, CollateralOf
<1>5. Total(RecordedCollateral(d)') = Total(f) + x - f[v]
  <2> HIDE DEF f, x
  <2> QED
    BY <1>3, <1>4, VaultIdsFinite, TotalUpdate
<1>6. Total(f) \in Nat /\ f[v] \in Nat
  <2> HIDE DEF f
  <2> QED
    BY <1>3, VaultIdsFinite, TotalType
<1>7. collateral[d][con_vaults] >= Total(f)
      /\ collateral[d][con_vaults] \in Nat /\ collateral'[d][con_vaults] \in Nat
  BY AccountFacts DEF SafetyInv, CollateralCustody, Inv, TypeOK
<1>8. collateral'[d][con_vaults] - collateral[d][con_vaults] >= x - f[v]
  <2>1. f[v] = IF old.open /\ CollateralOf(v) = d THEN old.collateral_amount ELSE 0
    BY DEF RecordedCollateral
  <2>2. CASE c = d
    <3>1. x = Held(new) /\ f[v] = Held(old)
      BY <1>2, <2>1, <2>2 DEF Held, CollateralOf, NoVault
    <3> QED
      BY <2>2, <3>1 DEF CollateralFollows
  <2>3. CASE c # d
    <3>1. x = 0 /\ f[v] = 0
      BY <1>2, <2>1, <2>3 DEF CollateralOf, NoVault
    <3> QED
      BY <1>7, <2>3, <3>1 DEF CollateralFollows
  <2> QED
    BY <2>2, <2>3
<1> HIDE DEF f, x
<1> QED
  BY <1>3, <1>5, <1>6, <1>7, <1>8

-----------------------------------------------------------------------------
(* Totals. *)

\* The amounts of the vaults of one type.
Selected(type_of, amount, vt) == [v \in VaultIds |-> IF type_of[v] = vt THEN amount[v] ELSE 0]

LEMMA SelectedUpdate ==
  ASSUME NEW type_of \in [VaultIds -> Nat], NEW amount \in [VaultIds -> Nat],
         NEW v \in VaultIds, NEW vt \in TypeIds, NEW x \in Nat,
         type_of[v] = vt \/ amount[v] = 0,
         NEW totals \in [TypeIds -> Int], NEW y \in Int,
         y - totals[vt] >= x - amount[v],
         NEW t \in TypeIds, totals[t] >= Total(Selected(type_of, amount, t))
  PROVE  [totals EXCEPT ![vt] = y][t]
            >= Total(Selected([type_of EXCEPT ![v] = vt], [amount EXCEPT ![v] = x], t))
<1> DEFINE f == Selected(type_of, amount, t)
           g == Selected([type_of EXCEPT ![v] = vt], [amount EXCEPT ![v] = x], t)
           z == IF vt = t THEN x ELSE 0
<1>1. f \in [VaultIds -> Nat] /\ z \in Nat /\ IsFiniteSet(VaultIds)
  BY VaultIdsFinite DEF Selected
<1>2. g = [f EXCEPT ![v] = z]
  BY DEF Selected
<1>3. f[v] = IF type_of[v] = t THEN amount[v] ELSE 0
  BY DEF Selected
<1>4. f[v] \in Nat /\ Total(f) \in Nat /\ Total(g) = Total(f) + z - f[v]
  <2> HIDE DEF f, g, z
  <2> QED
    BY <1>1, <1>2, TotalUpdate, TotalType
<1>5. totals[t] >= Total(f)
  OBVIOUS
<1>6. vt = t => f[v] = amount[v] /\ z = x
  BY <1>3
<1>7. vt # t => f[v] = 0 /\ z = 0
  BY <1>3
<1> HIDE DEF f, g, z
<1>8. CASE vt = t
  <2>1. [totals EXCEPT ![vt] = y][t] = y /\ totals[t] = totals[vt] /\ totals[t] \in Int
    BY <1>8
  <2>2. amount[v] \in Nat
    OBVIOUS
  <2> QED
    BY <1>4, <1>5, <1>6, <1>8, <2>1, <2>2 DEF g
<1>9. CASE vt # t
  <2>1. [totals EXCEPT ![vt] = y][t] = totals[t]
    BY <1>9
  <2> QED
    BY <1>4, <1>5, <1>7, <1>9, <2>1 DEF g
<1> QED
  BY <1>8, <1>9

\* What the totals of a type say, in maps from vaults and from types to amounts.
TypesIn(vs) == [v \in VaultIds |-> vs[v].vault_type_id]
SharesIn(vs) == [v \in VaultIds |-> vs[v].debt_shares]
PrincipalsIn(vs) == [v \in VaultIds |-> vs[v].principal]
FrozenDebtsIn(vs) == [v \in VaultIds |-> vs[v].auction_debt_snapshot]
FrozenPrincipalsIn(vs) == [v \in VaultIds |-> vs[v].auction_principal_snapshot]

DebtTotals(b) == [vt \in TypeIds |-> b[vt].normalized_debt_total]
PrincipalTotals(b) == [vt \in TypeIds |-> b[vt].principal_outstanding]
FrozenDebtTotals(b) == [vt \in TypeIds |-> b[vt].auction_debt_locked]
FrozenPrincipalTotals(b) == [vt \in TypeIds |-> b[vt].auction_principal_locked]

CoveredIn(b, vs, vt) ==
    /\ DebtTotals(b)[vt] >= Total(Selected(TypesIn(vs), SharesIn(vs), vt))
    /\ PrincipalTotals(b)[vt] >= Total(Selected(TypesIn(vs), PrincipalsIn(vs), vt))
    /\ FrozenDebtTotals(b)[vt] >= Total(Selected(TypesIn(vs), FrozenDebtsIn(vs), vt))
    /\ FrozenPrincipalTotals(b)[vt] >= Total(Selected(TypesIn(vs), FrozenPrincipalsIn(vs), vt))

LEMMA SelectedAmounts ==
  ASSUME NEW vs, NEW vt
  PROVE  /\ Selected(TypesIn(vs), SharesIn(vs), vt)
              = [v \in VaultIds |-> IF vs[v].vault_type_id = vt THEN vs[v].debt_shares ELSE 0]
         /\ Selected(TypesIn(vs), PrincipalsIn(vs), vt)
              = [v \in VaultIds |-> IF vs[v].vault_type_id = vt THEN vs[v].principal ELSE 0]
         /\ Selected(TypesIn(vs), FrozenDebtsIn(vs), vt)
              = [v \in VaultIds |->
                    IF vs[v].vault_type_id = vt THEN vs[v].auction_debt_snapshot ELSE 0]
         /\ Selected(TypesIn(vs), FrozenPrincipalsIn(vs), vt)
              = [v \in VaultIds |->
                    IF vs[v].vault_type_id = vt THEN vs[v].auction_principal_snapshot ELSE 0]
  BY DEF Selected, TypesIn, SharesIn, PrincipalsIn, FrozenDebtsIn, FrozenPrincipalsIn

AllCovered == \A vt \in TypeIds : CoveredIn(books, vaults, vt)

LEMMA TotalsAsMaps == TotalsCoverVaults <=> AllCovered
<1>1. \A vt \in TypeIds :
         CoveredIn(books, vaults, vt) <=>
            /\ books[vt].normalized_debt_total
                 >= Total([v \in VaultIds |->
                       IF vaults[v].vault_type_id = vt THEN vaults[v].debt_shares ELSE 0])
            /\ books[vt].principal_outstanding
                 >= Total([v \in VaultIds |->
                       IF vaults[v].vault_type_id = vt THEN vaults[v].principal ELSE 0])
            /\ books[vt].auction_debt_locked
                 >= Total([v \in VaultIds |->
                       IF vaults[v].vault_type_id = vt THEN vaults[v].auction_debt_snapshot ELSE 0])
            /\ books[vt].auction_principal_locked
                 >= Total([v \in VaultIds |->
                       IF vaults[v].vault_type_id = vt
                       THEN vaults[v].auction_principal_snapshot ELSE 0])
  BY SelectedAmounts DEF CoveredIn, DebtTotals, PrincipalTotals, FrozenDebtTotals,
                         FrozenPrincipalTotals
<1> QED
  BY <1>1 DEF TotalsCoverVaults, OfType, AllCovered

LEMMA VaultMapTypes ==
  ASSUME NEW vs \in [VaultIds -> VaultRecords]
  PROVE  /\ TypesIn(vs) \in [VaultIds -> Nat]
         /\ SharesIn(vs) \in [VaultIds -> Nat]
         /\ PrincipalsIn(vs) \in [VaultIds -> Nat]
         /\ FrozenDebtsIn(vs) \in [VaultIds -> Nat]
         /\ FrozenPrincipalsIn(vs) \in [VaultIds -> Nat]
<1>1. TypeIds \cup {0} \subseteq Nat
  BY VaultsAssumption DEF TypeIds
<1> QED
  BY <1>1 DEF TypesIn, SharesIn, PrincipalsIn, FrozenDebtsIn, FrozenPrincipalsIn, VaultRecords

LEMMA BookMapTypes ==
  ASSUME NEW b \in [TypeIds -> BookRecords]
  PROVE  /\ DebtTotals(b) \in [TypeIds -> Int]
         /\ PrincipalTotals(b) \in [TypeIds -> Int]
         /\ FrozenDebtTotals(b) \in [TypeIds -> Int]
         /\ FrozenPrincipalTotals(b) \in [TypeIds -> Int]
  BY DEF DebtTotals, PrincipalTotals, FrozenDebtTotals, FrozenPrincipalTotals, BookRecords

LEMMA CallKeepsTotals ==
  ASSUME SafetyInv, Inv', NEW v \in VaultIds, NEW vt \in TypeIds, NEW new, NEW new_books,
         VaultCall(v, vt, new, new_books),
         DebtsCounted(vaults[v], new, books[vt], new_books)
  PROVE  TotalsCoverVaults'
<1> DEFINE old == vaults[v]
           old_books == books[vt]
<1>1. /\ old \in VaultRecords /\ new \in VaultRecords
      /\ old_books \in BookRecords /\ new_books \in BookRecords
      /\ vaults \in [VaultIds -> VaultRecords] /\ books \in [TypeIds -> BookRecords]
  BY CallTypes DEF SafetyInv, Inv, TypeOK
<1>2. /\ vaults' = [vaults EXCEPT ![v] = new] /\ books' = [books EXCEPT ![vt] = new_books]
      /\ new.vault_type_id = vt
      /\ old.vault_type_id = vt \/ old = NoVault
  BY DEF VaultCall
<1>3. TotalsCoverVaults' <=> AllCovered'
  BY TotalsAsMaps, PTL
<1> SUFFICES ASSUME NEW t \in TypeIds PROVE CoveredIn(books', vaults', t)
  BY <1>3 DEF AllCovered
<1>4. CoveredIn(books, vaults, t)
  BY TotalsAsMaps DEF SafetyInv, AllCovered
<1> DEFINE type_of == TypesIn(vaults)
<1>5. type_of \in [VaultIds -> Nat] /\ TypesIn(vaults') = [type_of EXCEPT ![v] = vt]
  BY <1>1, <1>2, VaultMapTypes DEF TypesIn
<1>6. /\ type_of[v] = vt
      \/ /\ old.debt_shares = 0 /\ old.principal = 0
         /\ old.auction_debt_snapshot = 0 /\ old.auction_principal_snapshot = 0
  BY <1>2 DEF TypesIn, NoVault
<1> HIDE DEF type_of
<1>7. DebtTotals(books')[t] >= Total(Selected(TypesIn(vaults'), SharesIn(vaults'), t))
  <2> DEFINE amount == SharesIn(vaults)
             totals == DebtTotals(books)
             x == new.debt_shares
             y == new_books.normalized_debt_total
  <2>1. /\ amount \in [VaultIds -> Nat] /\ totals \in [TypeIds -> Int] /\ x \in Nat /\ y \in Int
        /\ SharesIn(vaults') = [amount EXCEPT ![v] = x]
        /\ DebtTotals(books') = [totals EXCEPT ![vt] = y]
    BY <1>1, <1>2, VaultMapTypes, BookMapTypes
    DEF SharesIn, DebtTotals, VaultRecords, BookRecords
  <2>2. /\ amount[v] = old.debt_shares
        /\ totals[vt] = old_books.normalized_debt_total
    BY DEF SharesIn, DebtTotals
  <2>3. y - totals[vt] >= x - amount[v] /\ (type_of[v] = vt \/ amount[v] = 0)
    BY <1>6, <2>2 DEF DebtsCounted
  <2>4. totals[t] >= Total(Selected(type_of, amount, t))
    BY <1>4 DEF CoveredIn, type_of
  <2> HIDE DEF amount, totals, x, y
  <2>5. [totals EXCEPT ![vt] = y][t]
          >= Total(Selected([type_of EXCEPT ![v] = vt], [amount EXCEPT ![v] = x], t))
    BY <1>5, <2>1, <2>3, <2>4, SelectedUpdate
  <2> QED
    BY <1>5, <2>1, <2>5
<1>8. PrincipalTotals(books')[t] >= Total(Selected(TypesIn(vaults'), PrincipalsIn(vaults'), t))
  <2> DEFINE amount == PrincipalsIn(vaults)
             totals == PrincipalTotals(books)
             x == new.principal
             y == new_books.principal_outstanding
  <2>1. /\ amount \in [VaultIds -> Nat] /\ totals \in [TypeIds -> Int] /\ x \in Nat /\ y \in Int
        /\ PrincipalsIn(vaults') = [amount EXCEPT ![v] = x]
        /\ PrincipalTotals(books') = [totals EXCEPT ![vt] = y]
    BY <1>1, <1>2, VaultMapTypes, BookMapTypes
    DEF PrincipalsIn, PrincipalTotals, VaultRecords, BookRecords
  <2>2. /\ amount[v] = old.principal
        /\ totals[vt] = old_books.principal_outstanding
    BY DEF PrincipalsIn, PrincipalTotals
  <2>3. y - totals[vt] >= x - amount[v] /\ (type_of[v] = vt \/ amount[v] = 0)
    BY <1>6, <2>2 DEF DebtsCounted
  <2>4. totals[t] >= Total(Selected(type_of, amount, t))
    BY <1>4 DEF CoveredIn, type_of
  <2> HIDE DEF amount, totals, x, y
  <2>5. [totals EXCEPT ![vt] = y][t]
          >= Total(Selected([type_of EXCEPT ![v] = vt], [amount EXCEPT ![v] = x], t))
    BY <1>5, <2>1, <2>3, <2>4, SelectedUpdate
  <2> QED
    BY <1>5, <2>1, <2>5
<1>9. FrozenDebtTotals(books')[t] >= Total(Selected(TypesIn(vaults'), FrozenDebtsIn(vaults'), t))
  <2> DEFINE amount == FrozenDebtsIn(vaults)
             totals == FrozenDebtTotals(books)
             x == new.auction_debt_snapshot
             y == new_books.auction_debt_locked
  <2>1. /\ amount \in [VaultIds -> Nat] /\ totals \in [TypeIds -> Int] /\ x \in Nat /\ y \in Int
        /\ FrozenDebtsIn(vaults') = [amount EXCEPT ![v] = x]
        /\ FrozenDebtTotals(books') = [totals EXCEPT ![vt] = y]
    BY <1>1, <1>2, VaultMapTypes, BookMapTypes
    DEF FrozenDebtsIn, FrozenDebtTotals, VaultRecords, BookRecords
  <2>2. /\ amount[v] = old.auction_debt_snapshot
        /\ totals[vt] = old_books.auction_debt_locked
    BY DEF FrozenDebtsIn, FrozenDebtTotals
  <2>3. y - totals[vt] >= x - amount[v] /\ (type_of[v] = vt \/ amount[v] = 0)
    BY <1>6, <2>2 DEF DebtsCounted
  <2>4. totals[t] >= Total(Selected(type_of, amount, t))
    BY <1>4 DEF CoveredIn, type_of
  <2> HIDE DEF amount, totals, x, y
  <2>5. [totals EXCEPT ![vt] = y][t]
          >= Total(Selected([type_of EXCEPT ![v] = vt], [amount EXCEPT ![v] = x], t))
    BY <1>5, <2>1, <2>3, <2>4, SelectedUpdate
  <2> QED
    BY <1>5, <2>1, <2>5
<1>10. FrozenPrincipalTotals(books')[t]
         >= Total(Selected(TypesIn(vaults'), FrozenPrincipalsIn(vaults'), t))
  <2> DEFINE amount == FrozenPrincipalsIn(vaults)
             totals == FrozenPrincipalTotals(books)
             x == new.auction_principal_snapshot
             y == new_books.auction_principal_locked
  <2>1. /\ amount \in [VaultIds -> Nat] /\ totals \in [TypeIds -> Int] /\ x \in Nat /\ y \in Int
        /\ FrozenPrincipalsIn(vaults') = [amount EXCEPT ![v] = x]
        /\ FrozenPrincipalTotals(books') = [totals EXCEPT ![vt] = y]
    BY <1>1, <1>2, VaultMapTypes, BookMapTypes
    DEF FrozenPrincipalsIn, FrozenPrincipalTotals, VaultRecords, BookRecords
  <2>2. /\ amount[v] = old.auction_principal_snapshot
        /\ totals[vt] = old_books.auction_principal_locked
    BY DEF FrozenPrincipalsIn, FrozenPrincipalTotals
  <2>3. y - totals[vt] >= x - amount[v] /\ (type_of[v] = vt \/ amount[v] = 0)
    BY <1>6, <2>2 DEF DebtsCounted
  <2>4. totals[t] >= Total(Selected(type_of, amount, t))
    BY <1>4 DEF CoveredIn, type_of
  <2> HIDE DEF amount, totals, x, y
  <2>5. [totals EXCEPT ![vt] = y][t]
          >= Total(Selected([type_of EXCEPT ![v] = vt], [amount EXCEPT ![v] = x], t))
    BY <1>5, <2>1, <2>3, <2>4, SelectedUpdate
  <2> QED
    BY <1>5, <2>1, <2>5
<1> QED
  BY <1>7, <1>8, <1>9, <1>10 DEF CoveredIn

-----------------------------------------------------------------------------
(* Backing. *)

BadDebts(b) == [vt \in TypeIds |-> b[vt].bad_debt]

LEMMA UncoveredAsMaps ==
  /\ Uncovered = stable.total_supply - Total(InitialStable) - Total(PrincipalTotals(books))
                   - Total(FrozenPrincipalTotals(books)) - Total(BadDebts(books))
  /\ Uncovered' = stable'.total_supply - Total(InitialStable) - Total(PrincipalTotals(books'))
                    - Total(FrozenPrincipalTotals(books')) - Total(BadDebts(books'))
<1>1. Uncovered = stable.total_supply - Total(InitialStable)
        - Total([vt \in TypeIds |-> books[vt].principal_outstanding])
        - Total([vt \in TypeIds |-> books[vt].auction_principal_locked])
        - Total([vt \in TypeIds |-> books[vt].bad_debt])
  BY DEF BookSum, Uncovered
<1>2. Uncovered' = stable'.total_supply - Total(InitialStable)
        - Total([vt \in TypeIds |-> books'[vt].principal_outstanding])
        - Total([vt \in TypeIds |-> books'[vt].auction_principal_locked])
        - Total([vt \in TypeIds |-> books'[vt].bad_debt])
  BY DEF BookSum, Uncovered
<1> QED
  BY <1>1, <1>2 DEF PrincipalTotals, FrozenPrincipalTotals, BadDebts

\* Totals that cover what vaults owe are not negative.
NaturalTotals ==
    /\ PrincipalTotals(books) \in [TypeIds -> Nat]
    /\ FrozenPrincipalTotals(books) \in [TypeIds -> Nat]
    /\ BadDebts(books) \in [TypeIds -> Nat]

LEMMA TotalsAreNatural == Inv /\ TotalsCoverVaults => NaturalTotals
<1> SUFFICES ASSUME Inv, TotalsCoverVaults PROVE NaturalTotals
  OBVIOUS
<1>1. vaults \in [VaultIds -> VaultRecords] /\ books \in [TypeIds -> BookRecords]
  BY DEF Inv, TypeOK
<1>2. ASSUME NEW vt \in TypeIds
      PROVE  PrincipalTotals(books)[vt] \in Nat /\ FrozenPrincipalTotals(books)[vt] \in Nat
  <2> DEFINE f == Selected(TypesIn(vaults), PrincipalsIn(vaults), vt)
             g == Selected(TypesIn(vaults), FrozenPrincipalsIn(vaults), vt)
  <2>1. PrincipalTotals(books)[vt] >= Total(f) /\ FrozenPrincipalTotals(books)[vt] >= Total(g)
    BY TotalsAsMaps DEF AllCovered, CoveredIn
  <2>2. f \in [VaultIds -> Nat] /\ g \in [VaultIds -> Nat]
    BY <1>1, VaultMapTypes DEF Selected
  <2> HIDE DEF f, g
  <2>3. Total(f) \in Nat /\ Total(g) \in Nat
    BY <2>2, VaultIdsFinite, TotalType
  <2>4. PrincipalTotals(books)[vt] \in Int /\ FrozenPrincipalTotals(books)[vt] \in Int
    BY <1>1, BookMapTypes
  <2> QED
    BY <2>1, <2>3, <2>4
<1>3. BadDebts(books) \in [TypeIds -> Nat]
  BY <1>1 DEF BadDebts, BookRecords
<1>4. PrincipalTotals(books) \in [TypeIds -> Nat]
  BY <1>2 DEF PrincipalTotals
<1>5. FrozenPrincipalTotals(books) \in [TypeIds -> Nat]
  BY <1>2 DEF FrozenPrincipalTotals
<1> QED
  BY <1>3, <1>4, <1>5 DEF NaturalTotals

LEMMA TotalsStayNatural == Inv' /\ TotalsCoverVaults' => NaturalTotals'
  BY TotalsAreNatural, PTL

UncoveredCounts == Uncovered \in Int

LEMMA UncoveredType == Inv /\ TotalsCoverVaults => UncoveredCounts
<1> SUFFICES ASSUME Inv, TotalsCoverVaults PROVE UncoveredCounts
  OBVIOUS
<1>1. /\ Total(PrincipalTotals(books)) \in Nat /\ Total(FrozenPrincipalTotals(books)) \in Nat
      /\ Total(BadDebts(books)) \in Nat
  BY TotalsAreNatural, TotalType, AccountFacts DEF NaturalTotals
<1>2. Total(InitialStable) \in Nat
  BY TotalType, AccountFacts, VaultsAssumption
<1>3. stable.total_supply \in Nat
  BY DEF Inv, TypeOK
<1> QED
  BY <1>1, <1>2, <1>3, UncoveredAsMaps DEF UncoveredCounts

LEMMA UncoveredTypeNext == Inv' /\ TotalsCoverVaults' => UncoveredCounts'
  BY UncoveredType, PTL

\* New books of one type, and the backing.
LEMMA BackingUpdate ==
  ASSUME SafetyInv, Inv', TotalsCoverVaults', NEW vt \in TypeIds, NEW new_books \in BookRecords,
         books' = [books EXCEPT ![vt] = new_books],
         NEW rounding \in Nat,
         stable'.total_supply - stable.total_supply
           <= (new_books.principal_outstanding - books[vt].principal_outstanding)
                + (new_books.auction_principal_locked - books[vt].auction_principal_locked)
                + (new_books.bad_debt - books[vt].bad_debt) + rounding
  PROVE  Uncovered' <= Uncovered + rounding
<1> DEFINE f == PrincipalTotals(books)
           g == FrozenPrincipalTotals(books)
           h == BadDebts(books)
           x == new_books.principal_outstanding
           y == new_books.auction_principal_locked
           z == new_books.bad_debt
<1>1. f \in [TypeIds -> Nat] /\ g \in [TypeIds -> Nat] /\ h \in [TypeIds -> Nat]
  BY TotalsAreNatural DEF NaturalTotals, SafetyInv
<1>2. /\ PrincipalTotals(books') \in [TypeIds -> Nat]
      /\ FrozenPrincipalTotals(books') \in [TypeIds -> Nat]
      /\ BadDebts(books') \in [TypeIds -> Nat]
  BY TotalsStayNatural DEF NaturalTotals
<1>3. books \in [TypeIds -> BookRecords] /\ IsFiniteSet(TypeIds)
  BY AccountFacts DEF SafetyInv, Inv, TypeOK
<1>4. /\ PrincipalTotals(books') = [f EXCEPT ![vt] = x]
      /\ FrozenPrincipalTotals(books') = [g EXCEPT ![vt] = y]
      /\ BadDebts(books') = [h EXCEPT ![vt] = z]
  BY <1>3 DEF PrincipalTotals, FrozenPrincipalTotals, BadDebts
<1>5. /\ f[vt] = books[vt].principal_outstanding
      /\ g[vt] = books[vt].auction_principal_locked
      /\ h[vt] = books[vt].bad_debt
  BY DEF PrincipalTotals, FrozenPrincipalTotals, BadDebts
<1> HIDE DEF f, g, h
<1>6. x \in Nat /\ y \in Nat /\ z \in Nat
  <2>1. x = PrincipalTotals(books')[vt] /\ y = FrozenPrincipalTotals(books')[vt]
        /\ z = BadDebts(books')[vt]
    BY <1>1, <1>4
  <2> QED
    BY <1>2, <2>1
<1> DEFINE xs == stable'.total_supply
           s == stable.total_supply
           init == Total(InitialStable)
<1>7. xs \in Nat /\ s \in Nat /\ init \in Nat
  <2>1. init \in Nat
    BY TotalType, AccountFacts, VaultsAssumption
  <2> QED
    BY <2>1 DEF SafetyInv, Inv, TypeOK
<1>8. xs - s <= (x - f[vt]) + (y - g[vt]) + (z - h[vt]) + rounding
  BY <1>5
<1> HIDE DEF x, y, z
<1>9. /\ Total(f) \in Nat /\ Total(g) \in Nat /\ Total(h) \in Nat
      /\ f[vt] \in Nat /\ g[vt] \in Nat /\ h[vt] \in Nat
  BY <1>1, <1>3, TotalType
<1>10. /\ Total(PrincipalTotals(books')) = Total(f) + x - f[vt]
       /\ Total(FrozenPrincipalTotals(books')) = Total(g) + y - g[vt]
       /\ Total(BadDebts(books')) = Total(h) + z - h[vt]
  <2>1. Total([f EXCEPT ![vt] = x]) = Total(f) + x - f[vt]
    BY <1>1, <1>3, <1>6, TotalUpdate
  <2>2. Total([g EXCEPT ![vt] = y]) = Total(g) + y - g[vt]
    BY <1>1, <1>3, <1>6, TotalUpdate
  <2>3. Total([h EXCEPT ![vt] = z]) = Total(h) + z - h[vt]
    BY <1>1, <1>3, <1>6, TotalUpdate
  <2> QED
    BY <1>4, <2>1, <2>2, <2>3
<1>11. /\ Uncovered = s - init - Total(f) - Total(g) - Total(h)
       /\ Uncovered' = xs - init - (Total(f) + x - f[vt]) - (Total(g) + y - g[vt])
                         - (Total(h) + z - h[vt])
  BY <1>10, UncoveredAsMaps DEF f, g, h
<1> HIDE DEF xs, s, init
<1> QED
  BY <1>6, <1>7, <1>8, <1>9, <1>11

LEMMA CallKeepsBacking ==
  ASSUME SafetyInv, Inv', TotalsCoverVaults',
         NEW v \in VaultIds, NEW vt \in TypeIds, NEW new, NEW new_books,
         VaultCall(v, vt, new, new_books),
         BackingKept(vaults[v], new, books[vt], new_books)
  PROVE  BackingStep
<1> DEFINE old == vaults[v]
           r == RoundingOf(old, new)
<1>1. /\ old \in VaultRecords /\ new \in VaultRecords /\ new_books \in BookRecords
      /\ vaults'[v] = new
      /\ \A w \in VaultIds \ {v} : vaults'[w] = vaults[w]
  BY CallTypes DEF SafetyInv
<1>2. r \in Nat
  BY <1>1 DEF RoundingOf, AtLeastZero, VaultRecords
<1>3. SettlementRounding = r
  <2>1. [w \in VaultIds |->
            IF vaults'[w].auction_settled /\ ~vaults[w].auction_settled
            THEN AtLeastZero(vaults[w].auction_principal_snapshot
                               - vaults[w].auction_debt_snapshot)
            ELSE 0]
          = [w \in VaultIds |-> IF w = v THEN r ELSE 0]
    BY <1>1 DEF RoundingOf
  <2> HIDE DEF r
  <2>2. Total([w \in VaultIds |-> IF w = v THEN r ELSE 0]) = r
    BY <1>2, VaultIdsFinite, TotalSingle
  <2> QED
    BY <2>1, <2>2 DEF SettlementRounding
<1>4. books' = [books EXCEPT ![vt] = new_books]
  BY DEF VaultCall
<1>5. stable'.total_supply - stable.total_supply
        <= (new_books.principal_outstanding - books[vt].principal_outstanding)
             + (new_books.auction_principal_locked - books[vt].auction_principal_locked)
             + (new_books.bad_debt - books[vt].bad_debt) + r
  BY DEF BackingKept
<1> HIDE DEF r
<1>6. Uncovered' <= Uncovered + r
  BY <1>1, <1>2, <1>4, <1>5, BackingUpdate
<1> QED
  BY <1>3, <1>6 DEF BackingStep

-----------------------------------------------------------------------------
(* Records, escrow, the pause. *)

LEMMA CallKeepsRecords ==
  ASSUME SafetyInv, Inv', NEW v \in VaultIds, NEW vt \in TypeIds, NEW new, NEW new_books,
         VaultCall(v, vt, new, new_books), RateKept(vt, new_books), Secured(new)
  PROVE  Recorded'
<1>1. /\ vaults'[v] = new /\ books'[vt] = new_books
      /\ \A w \in VaultIds \ {v} : vaults'[w] = vaults[w]
      /\ \A t \in TypeIds \ {vt} : books'[t] = books[t]
  BY CallTypes DEF SafetyInv
<1>2. /\ vault_types' = vault_types /\ vault_type_count' = vault_type_count
      /\ new.vault_type_id = vt /\ vt <= vault_type_count
      /\ \/ vault_count' = vault_count /\ v <= vault_count
         \/ vault_count' = vault_count + 1 /\ v = vault_count + 1
  BY DEF VaultCall
<1>3. /\ vault_count \in Nat /\ vault_count' \in Nat /\ VaultIds \subseteq Nat
      /\ vault_type_count \in Nat /\ TypeIds \subseteq Nat
  BY VaultsAssumption DEF SafetyInv, Inv, TypeOK, VaultIds, TypeIds
<1>4. ASSUME NEW t \in TypeIds PROVE TypeRecorded(t)'
  <2>1. TypeRecorded(t)
    BY DEF SafetyInv, Recorded
  <2>2. CASE t = vt
    <3>1. new_books.rate_accumulator >= SCALE
      <4>1. /\ current_rate(vt) \in Nat /\ books[vt].rate_accumulator \in Nat
            /\ current_rate(vt) >= books[vt].rate_accumulator
        BY RateFacts DEF SafetyInv, Inv, TypeOK, BookRecords
      <4>2. books[vt].rate_accumulator >= SCALE
        BY <2>1, <2>2 DEF TypeRecorded
      <4> QED
        BY <4>1, <4>2, ScaleAssumption DEF RateKept
    <3>2. ~(t > vault_type_count)
      BY <1>2, <1>3, <2>2
    <3> QED
      BY <1>1, <1>2, <2>1, <2>2, <3>1, <3>2 DEF TypeRecorded
  <2>3. CASE t # vt
    BY <1>1, <1>2, <2>1, <2>3 DEF TypeRecorded
  <2> QED
    BY <2>2, <2>3
<1>5. ASSUME NEW w \in VaultIds PROVE VaultRecorded(w)'
  <2>1. VaultRecorded(w)
    BY DEF SafetyInv, Recorded
  <2>2. CASE w = v
    <3>1. ~(w > vault_count')
      BY <1>2, <1>3, <2>2
    <3> QED
      BY <1>1, <1>2, <2>2, <3>1 DEF VaultRecorded
  <2>3. CASE w # v
    <3>1. w > vault_count' => w > vault_count
      BY <1>2, <1>3
    <3> QED
      BY <1>1, <1>2, <2>1, <2>3, <3>1 DEF VaultRecorded
  <2> QED
    BY <2>2, <2>3
<1> QED
  BY <1>4, <1>5 DEF Recorded

LEMMA EscrowByVault == EscrowMatchesAuction <=> \A v \in VaultIds : EscrowAgrees(v)
  BY DEF EscrowMatchesAuction, EscrowAgrees

LEMMA CallKeepsEscrow ==
  ASSUME SafetyInv, Inv', NEW v \in VaultIds, NEW vt \in TypeIds, NEW new, NEW new_books,
         VaultCall(v, vt, new, new_books), EscrowAgrees(v)', OthersEscrowKept(v)
  PROVE  EscrowMatchesAuction'
<1>1. \A w \in VaultIds \ {v} : vaults'[w] = vaults[w]
  BY CallTypes DEF SafetyInv
<1>2. \A w \in VaultIds : EscrowAgrees(w)
  BY EscrowByVault DEF SafetyInv
<1>3. ASSUME NEW w \in VaultIds, w # v PROVE EscrowAgrees(w)'
  <2>1. EscrowAgrees(w) /\ vaults'[w] = vaults[w]
    BY <1>1, <1>2, <1>3
  <2>2. \A a \in Accounts : auction_bids'[<<w, a>>] = auction_bids[<<w, a>>]
    BY <1>3 DEF OthersEscrowKept
  <2>3. vaults[w].auction_highest_bidder # NoOne => vaults[w].auction_highest_bidder \in Accounts
    BY AccountFacts DEF SafetyInv, Inv, TypeOK, VaultRecords
  <2> QED
    BY <2>1, <2>2, <2>3 DEF EscrowAgrees
<1> QED
  BY <1>3 DEF EscrowMatchesAuction, EscrowAgrees

LEMMA CallRespectsPause ==
  ASSUME SafetyInv, Inv', NEW v \in VaultIds, NEW vt \in TypeIds, NEW new, NEW new_books,
         VaultCall(v, vt, new, new_books), PauseRespected(v, new)
  PROVE  PauseStep
<1>1. /\ vaults'[v] = new
      /\ \A w \in VaultIds \ {v} : vaults'[w] = vaults[w] /\ vaults[w].collateral_amount \in Nat
  BY CallTypes DEF SafetyInv, Inv, TypeOK, VaultRecords
<1>2. \A w \in VaultIds \ {v} : ~(vaults'[w].collateral_amount < vaults[w].collateral_amount)
  BY <1>1
<1> QED
  BY <1>1, <1>2 DEF PauseStep, PauseRespected

-----------------------------------------------------------------------------
(* The market. *)

\* Bringing the books up to date does not move the rate.
LEMMA RatesKept ==
  ASSUME SafetyInv, Inv', NEW vt \in TypeIds, NEW new_books \in BookRecords,
         RateKept(vt, new_books), books' = [books EXCEPT ![vt] = new_books],
         now' = now, vault_types' = vault_types
  PROVE  \A t \in TypeIds : current_rate(t)' = current_rate(t)
<1>1. books \in [TypeIds -> BookRecords] /\ now \in Nat
      /\ vault_types \in [TypeIds -> TypeSettings]
  BY DEF SafetyInv, Inv, TypeOK
<1> SUFFICES ASSUME NEW t \in TypeIds PROVE current_rate(t)' = current_rate(t)
  OBVIOUS
<1>2. CASE t # vt \/ /\ new_books.rate_accumulator = books[vt].rate_accumulator
                     /\ new_books.last_rate_time = books[vt].last_rate_time
  <2>1. /\ books'[t].rate_accumulator = books[t].rate_accumulator
        /\ books'[t].last_rate_time = books[t].last_rate_time
    BY <1>1, <1>2
  <2> QED
    BY <2>1 DEF current_rate, elapsed_seconds
<1>3. CASE t = vt /\ new_books.rate_accumulator = current_rate(vt)
           /\ new_books.last_rate_time = now
  <2> DEFINE rate == current_rate(vt)
             fee == vault_types[vt].stability_fee_bps
  <2>1. books'[t].rate_accumulator = rate /\ books'[t].last_rate_time = now
    BY <1>1, <1>3
  <2>2. elapsed_seconds(books[t].last_rate_time)' = 0
    BY <1>1, <2>1 DEF elapsed_seconds, AtLeastZero
  <2>3. rate \in Nat /\ fee \in Nat
    BY <1>1, RateFacts DEF SafetyInv, TypeSettings
  <2>4. /\ SCALE \in Nat /\ SECONDS_PER_YEAR \in Nat /\ SECONDS_PER_YEAR > 0
        /\ BPS_DENOMINATOR \in Nat /\ BPS_DENOMINATOR > 0
    BY VaultsAssumption, ScaleAssumption
  <2> HIDE DEF rate, fee
  <2>5. fee * 0 * SCALE = 0
    BY <2>3, <2>4, Z3
  <2>6. 0 \div SECONDS_PER_YEAR = 0
    BY <2>4, Floor, QuotientAtLeast, QuotientBounded
  <2>7. 0 \div BPS_DENOMINATOR = 0
    BY <2>4, Floor, QuotientAtLeast, QuotientBounded
  <2>8. current_rate(t)'
          = Mul(rate, SCALE + ((fee * 0 * SCALE) \div SECONDS_PER_YEAR) \div BPS_DENOMINATOR)
    BY <1>3, <2>1, <2>2 DEF current_rate, fee
  <2>9. SCALE + 0 = SCALE
    BY <2>4
  <2>10. current_rate(t)' = Mul(rate, SCALE)
    BY <2>5, <2>6, <2>7, <2>8, <2>9
  <2> QED
    BY <1>3, <2>3, <2>10, MulUnit DEF rate
<1> QED
  BY <1>2, <1>3 DEF RateKept

\* A vault is liquidatable in the next state if its record would be in this one.
LEMMA LiquidatableNext ==
  ASSUME SafetyInv, Inv', now' = now, price' = price, vault_types' = vault_types,
         \A t \in TypeIds : current_rate(t)' = current_rate(t),
         NEW w \in VaultIds, NEW new \in VaultRecords, vaults'[w] = new,
         new.vault_type_id \in TypeIds
  PROVE  Liquidatable(vaults[w])' <=> Liquidatable(new)
  BY DEF Liquidatable, vault_live_debt, MeetsRatio, OracleAnswers, collateral_value,
         current_oracle_price

LEMMA CallKeepsMarket ==
  ASSUME SafetyInv, Inv', NEW v \in VaultIds, NEW vt \in TypeIds, NEW new, NEW new_books,
         VaultCall(v, vt, new, new_books), RateKept(vt, new_books),
         Liquidatable(new) => Liquidatable(vaults[v])
  PROVE  MarketStep
<1>1. /\ vaults'[v] = new /\ new \in VaultRecords /\ new_books \in BookRecords
      /\ \A w \in VaultIds \ {v} : vaults'[w] = vaults[w]
      /\ vaults \in [VaultIds -> VaultRecords]
  BY CallTypes DEF SafetyInv, Inv, TypeOK
<1>2. /\ now' = now /\ price' = price /\ vault_types' = vault_types /\ new.vault_type_id = vt
      /\ books' = [books EXCEPT ![vt] = new_books]
  BY DEF VaultCall
<1>3. \A t \in TypeIds : current_rate(t)' = current_rate(t)
  BY <1>1, <1>2, RatesKept
<1>4. ASSUME NEW w \in VaultIds, Liquidatable(vaults[w])' PROVE Liquidatable(vaults[w])
  <2>1. CASE w = v
    BY <1>1, <1>2, <1>3, <1>4, <2>1, LiquidatableNext
  <2>2. CASE w # v
    <3>1. vaults'[w] = vaults[w] /\ vaults[w] \in VaultRecords
      BY <1>1, <2>2
    <3>2. vaults[w].open
      BY <1>4, <3>1 DEF Liquidatable
    <3>3. vaults[w].vault_type_id \in TypeIds
      BY <3>2 DEF SafetyInv, Inv, VaultOK
    <3> QED
      BY <1>2, <1>3, <1>4, <3>1, <3>3, LiquidatableNext
  <2> QED
    BY <2>1, <2>2
<1> QED
  BY <1>4 DEF MarketStep

-----------------------------------------------------------------------------
(* Together. *)

LEMMA VaultCallIsSafe ==
  ASSUME SafetyInv, Inv', NEW v \in VaultIds, NEW vt \in TypeIds, NEW new, NEW new_books,
         VaultCall(v, vt, new, new_books),
         DebtsCounted(vaults[v], new, books[vt], new_books),
         CollateralFollows(vault_types[vt].collateral_contract, vaults[v], new),
         BackingKept(vaults[v], new, books[vt], new_books),
         RateKept(vt, new_books), Secured(new),
         EscrowAgrees(v)', OthersEscrowKept(v),
         PauseRespected(v, new),
         Liquidatable(new) => Liquidatable(vaults[v])
  PROVE  SafeStep
<1>1. TotalsCoverVaults' /\ CollateralCustody'
  BY CallKeepsTotals, CallKeepsCollateral
<1>2. BackingStep
  BY <1>1, CallKeepsBacking
<1>3. Recorded' /\ EscrowMatchesAuction'
  BY CallKeepsRecords, CallKeepsEscrow
<1>4. PauseStep /\ MarketStep
  BY CallRespectsPause, CallKeepsMarket
<1> QED
  BY <1>1, <1>2, <1>3, <1>4 DEF SafeStep

\* All the collateral of a vault that closes, paid to whom it is due.
LEMMA AllHandedOut ==
  ASSUME SafetyInv, NEW v \in VaultIds, vaults[v].open, NEW to \in Users, NEW new, ~new.open,
         collateral' = [collateral EXCEPT ![CollateralOf(v)] =
                           Moved(@, con_vaults, to, vaults[v].collateral_amount)],
         to = IF new.auction_settled THEN vaults[v].auction_highest_bidder ELSE vaults[v].owner
  PROVE  HandedOut(v, new)
<1> DEFINE c == CollateralOf(v)
           balances == collateral[c]
<1>1. c \in Collaterals
  BY OpenVaultFacts DEF SafetyInv
<1>2. balances \in [Accounts -> Nat] /\ collateral' = [collateral EXCEPT ![c] =
                           Moved(balances, con_vaults, to, vaults[v].collateral_amount)]
  BY <1>1 DEF SafetyInv, Inv, TypeOK
<1>3. collateral'[c] = Moved(balances, con_vaults, to, vaults[v].collateral_amount)
  BY <1>1, <1>2 DEF SafetyInv, Inv, TypeOK
<1>4. con_vaults \in Accounts /\ to \in Accounts /\ to # con_vaults
  BY AccountFacts, VaultsAssumption
<1> HIDE DEF c, balances
<1>5. collateral'[c][to] = balances[to] + vaults[v].collateral_amount
  BY <1>2, <1>3, <1>4 DEF Moved
<1> QED
  BY <1>5 DEF HandedOut, c, balances

-----------------------------------------------------------------------------
(* Ratios. *)

\* A ratio that is met is met by more collateral, less debt and for less.
LEMMA RatioWeakens ==
  ASSUME Inv, NEW vt \in TypeIds, vault_types[vt].collateral_contract \in Collaterals,
         NEW amount \in Nat, NEW more \in Nat, amount <= more,
         NEW debt \in Nat, NEW less \in Nat, less <= debt,
         NEW r \in Nat, NEW q \in Nat, q <= r,
         MeetsRatio(vt, amount, debt, r)
  PROVE  MeetsRatio(vt, more, less, q)
<1> DEFINE quote == current_oracle_price(vt)
           value == collateral_value(vt, amount)
           larger == collateral_value(vt, more)
<1> SUFFICES ASSUME less > 0 PROVE MeetsRatio(vt, more, less, q)
  BY DEF MeetsRatio
<1>1. OracleAnswers(vt) /\ value * BPS_DENOMINATOR >= r * debt
  BY DEF MeetsRatio
<1>2. quote \in Nat /\ value \in Nat /\ larger \in Nat
  BY PriceType
<1>3. value <= larger
  BY <1>2, MulMonotonic DEF collateral_value
<1>4. BPS_DENOMINATOR \in Nat
  BY VaultsAssumption
<1> HIDE DEF value, larger
<1>5. value * BPS_DENOMINATOR <= larger * BPS_DENOMINATOR
  <2>1. BPS_DENOMINATOR * value <= BPS_DENOMINATOR * larger
    BY <1>2, <1>3, <1>4, ProductMonotonic
  <2>2. BPS_DENOMINATOR * value = value * BPS_DENOMINATOR
        /\ BPS_DENOMINATOR * larger = larger * BPS_DENOMINATOR
    BY <1>2, <1>4, Z3
  <2> QED
    BY <2>1, <2>2
<1>6. q * less <= r * debt
  <2>1. q * less <= q * debt
    BY ProductMonotonic
  <2>2. debt * q <= debt * r
    BY ProductMonotonic
  <2>3. debt * q = q * debt /\ debt * r = r * debt
    BY Z3
  <2>4. q * less \in Int /\ q * debt \in Int /\ r * debt \in Int
    OBVIOUS
  <2> QED
    BY <2>1, <2>2, <2>3, <2>4
<1>7. larger * BPS_DENOMINATOR >= q * less
  <2>1. /\ value * BPS_DENOMINATOR \in Int /\ larger * BPS_DENOMINATOR \in Int
        /\ q * less \in Int /\ r * debt \in Int
    BY <1>2, <1>4
  <2> QED
    BY <1>1, <1>5, <1>6, <2>1
<1> QED
  BY <1>1, <1>7 DEF MeetsRatio, larger

\* Debt cannot meet a ratio without collateral.
LEMMA CollateralNeeded ==
  ASSUME Inv, NEW vt \in TypeIds, NEW amount \in Nat, NEW debt \in Nat, debt > 0,
         NEW r \in Nat, r > 0, vault_types[vt].collateral_contract \in Collaterals,
         MeetsRatio(vt, amount, debt, r)
  PROVE  amount > 0
<1> SUFFICES ASSUME amount = 0 PROVE FALSE
  OBVIOUS
<1>1. current_oracle_price(vt) \in Nat /\ BPS_DENOMINATOR \in Nat
  BY PriceType, VaultsAssumption
<1>2. 0 * current_oracle_price(vt) = 0
  BY <1>1, Z3
<1>3. 0 \div SCALE = 0
  BY Floor, QuotientAtLeast, QuotientBounded, ScaleAssumption
<1>4. collateral_value(vt, amount) = 0
  BY <1>2, <1>3 DEF collateral_value, Mul
<1>5. 0 * BPS_DENOMINATOR = 0
  BY <1>1, Z3
<1>6. 0 >= r * debt
  BY <1>4, <1>5 DEF MeetsRatio
<1>7. r * debt > 0
  BY Z3
<1> QED
  BY <1>6, <1>7

\* What the invariant says of an open vault and its type.
LEMMA LiveVaultFacts ==
  ASSUME SafetyInv, NEW v \in VaultIds, vaults[v].open
  PROVE  LET vt == vaults[v].vault_type_id
         IN  /\ v <= vault_count
             /\ vt \in TypeIds /\ vt <= vault_type_count
             /\ vault_types[vt].collateral_contract \in Collaterals
             /\ vault_types[vt].collateral_contract # NoOne
             /\ vaults[v] \in VaultRecords /\ books[vt] \in BookRecords
             /\ Secured(vaults[v]) /\ EscrowAgrees(v)
             /\ vaults[v].owner \in Users /\ ~vaults[v].auction_settled
<1> DEFINE vt == vaults[v].vault_type_id
<1>1. VaultOK(v) /\ VaultRecorded(v) /\ EscrowAgrees(v)
  BY EscrowByVault DEF SafetyInv, Inv, Recorded
<1>2. vt \in TypeIds /\ vault_types[vt].collateral_contract \in Collaterals
      /\ vaults[v].owner \in Users /\ ~vaults[v].auction_settled
  BY <1>1 DEF VaultOK, CollateralOf
<1>3. v <= vault_count
  <2>1. ~(v > vault_count)
    BY <1>1 DEF VaultRecorded, NoVault
  <2> QED
    BY <2>1, VaultsAssumption DEF SafetyInv, Inv, TypeOK, VaultIds
<1>4. vaults[v] \in VaultRecords /\ books[vt] \in BookRecords
  BY <1>2 DEF SafetyInv, Inv, TypeOK
<1>5. vault_types[vt].collateral_contract # NoOne
  BY <1>2, VaultsAssumption
<1>6. vt <= vault_type_count /\ Secured(vaults[v])
  BY <1>1 DEF VaultRecorded
<1> QED
  BY <1>1, <1>2, <1>3, <1>4, <1>5, <1>6

\* The rates and ratios of a type that has a collateral token.
LEMMA AddedTypeFacts ==
  ASSUME SafetyInv, NEW vt \in TypeIds, vault_types[vt].collateral_contract # NoOne
  PROVE  /\ vt <= vault_type_count
         /\ vault_types[vt].ratios \in Ratios
         /\ vault_types[vt].ratios.min_collateral_ratio_bps \in Nat
         /\ vault_types[vt].ratios.min_collateral_ratio_bps > 0
         /\ vault_types[vt].ratios.liquidation_ratio_bps \in Nat
         /\ vault_types[vt].ratios.liquidation_ratio_bps
              <= vault_types[vt].ratios.min_collateral_ratio_bps
  BY DEF SafetyInv, Inv, TypeOK, TypeSettings, Ratios, Recorded, TypeRecorded, ValidRatios

LEMMA RateAtLeastOne ==
  ASSUME SafetyInv, NEW vt \in TypeIds
  PROVE  current_rate(vt) \in Nat /\ current_rate(vt) > 0 /\ current_rate(vt) >= SCALE
<1>1. /\ current_rate(vt) \in Nat /\ current_rate(vt) > 0
      /\ current_rate(vt) >= books[vt].rate_accumulator
  BY RateFacts DEF SafetyInv
<1>2. books[vt].rate_accumulator >= SCALE /\ books[vt].rate_accumulator \in Nat
  BY DEF SafetyInv, Recorded, TypeRecorded, Inv, TypeOK, BookRecords
<1> QED
  BY <1>1, <1>2, ScaleAssumption

\* Shares are worth at least their number.
LEMMA SharesAreDebt ==
  ASSUME SafetyInv, NEW vault \in VaultRecords, vault.vault_type_id \in TypeIds
  PROVE  vault_live_debt(vault) \in Nat /\ vault_live_debt(vault) >= vault.debt_shares
<1>1. vault.debt_shares \in Nat
  BY DEF VaultRecords
<1>2. current_rate(vault.vault_type_id) \in Nat /\ current_rate(vault.vault_type_id) >= SCALE
  BY RateAtLeastOne
<1> QED
  BY <1>1, <1>2, MulAtLeast, MulType DEF vault_live_debt

\* A vault whose debt met the ratio for new debt cannot be liquidated.
LEMMA SafeAtMinRatio ==
  ASSUME SafetyInv, NEW vault \in VaultRecords, vault.vault_type_id \in TypeIds,
         vault_types[vault.vault_type_id].collateral_contract \in Collaterals,
         NEW debt \in Nat, vault_live_debt(vault) <= debt,
         MeetsMinRatio(vault.vault_type_id, vault.collateral_amount, debt)
  PROVE  ~Liquidatable(vault)
<1> DEFINE vt == vault.vault_type_id
<1>1. /\ vault_types[vt].ratios.min_collateral_ratio_bps \in Nat
      /\ vault_types[vt].ratios.liquidation_ratio_bps \in Nat
      /\ vault_types[vt].ratios.liquidation_ratio_bps
           <= vault_types[vt].ratios.min_collateral_ratio_bps
  BY AddedTypeFacts, VaultsAssumption
<1>2. vault.collateral_amount \in Nat /\ vault_live_debt(vault) \in Nat
  BY SharesAreDebt DEF VaultRecords
<1>3. MeetsRatio(vt, vault.collateral_amount, vault_live_debt(vault),
                 vault_types[vt].ratios.liquidation_ratio_bps)
  BY <1>1, <1>2, RatioWeakens DEF SafetyInv, MeetsMinRatio
<1> QED
  BY <1>3 DEF Liquidatable

\* Paying debt or adding collateral does not make a vault liquidatable.
LEMMA SaferVault ==
  ASSUME SafetyInv, NEW old \in VaultRecords, NEW new \in VaultRecords,
         old.vault_type_id \in TypeIds, new.vault_type_id = old.vault_type_id,
         vault_types[old.vault_type_id].collateral_contract \in Collaterals,
         old.open, ~old.auction_open,
         new.debt_shares <= old.debt_shares,
         new.collateral_amount >= old.collateral_amount,
         Liquidatable(new)
  PROVE  Liquidatable(old)
<1> DEFINE vt == old.vault_type_id
           q == vault_types[vt].ratios.liquidation_ratio_bps
<1>1. /\ old.debt_shares \in Nat /\ new.debt_shares \in Nat
      /\ old.collateral_amount \in Nat /\ new.collateral_amount \in Nat
  BY DEF VaultRecords
<1>2. current_rate(vt) \in Nat
  BY RateAtLeastOne
<1>3. vault_live_debt(new) <= vault_live_debt(old)
  BY <1>1, <1>2, MulMonotonic DEF vault_live_debt
<1>4. vault_live_debt(new) \in Nat /\ vault_live_debt(old) \in Nat
  BY SharesAreDebt
<1>5. q \in Nat
  BY AddedTypeFacts, VaultsAssumption
<1>6. /\ vault_live_debt(new) > 0 /\ OracleAnswers(vt)
      /\ ~MeetsRatio(vt, new.collateral_amount, vault_live_debt(new), q)
  BY DEF Liquidatable
<1>7. ~MeetsRatio(vt, old.collateral_amount, vault_live_debt(old), q)
  BY <1>1, <1>3, <1>4, <1>5, <1>6, RatioWeakens DEF SafetyInv
<1> QED
  BY <1>3, <1>4, <1>6, <1>7 DEF Liquidatable

-----------------------------------------------------------------------------
(* Payments. *)

\* What a payment does to a vault and to the books of its type: both owe less,
\* the totals fall by no more than the vault's debts, and the principal that the
\* books stop counting is the principal that is burnt.
PaymentCounted(vault, vt, done) ==
    /\ DebtsCounted(vault, done.vault, books[vt], done.books)
    /\ done.books.principal_outstanding + done.books.auction_principal_locked
          = books[vt].principal_outstanding + books[vt].auction_principal_locked
              - done.split.principal
    /\ done.books.bad_debt = books[vt].bad_debt
    /\ RateKept(vt, done.books)
    /\ done.vault.debt_shares <= vault.debt_shares

\* Dropping dust never adds.
LEMMA DustOnlyDrops ==
  ASSUME NEW x \in Nat
  PROVE  without_dust(x) \in Nat /\ without_dust(x) <= x
  BY DEF without_dust

\* Less is counted in the same totals.
LEMMA LessIsCounted ==
  ASSUME NEW old \in VaultRecords, NEW mid, NEW new \in VaultRecords,
         NEW old_books \in BookRecords, NEW new_books \in BookRecords,
         mid.debt_shares \in Nat, mid.principal \in Nat,
         mid.auction_debt_snapshot \in Nat, mid.auction_principal_snapshot \in Nat,
         DebtsCounted(old, mid, old_books, new_books),
         new.debt_shares <= mid.debt_shares, new.principal <= mid.principal,
         new.auction_debt_snapshot <= mid.auction_debt_snapshot,
         new.auction_principal_snapshot <= mid.auction_principal_snapshot
  PROVE  DebtsCounted(old, new, old_books, new_books)
<1>1. /\ old.debt_shares \in Nat /\ old.principal \in Nat
      /\ old.auction_debt_snapshot \in Nat /\ old.auction_principal_snapshot \in Nat
      /\ new.debt_shares \in Nat /\ new.principal \in Nat
      /\ new.auction_debt_snapshot \in Nat /\ new.auction_principal_snapshot \in Nat
  BY DEF VaultRecords
<1>2. /\ old_books.normalized_debt_total \in Int /\ new_books.normalized_debt_total \in Int
      /\ old_books.principal_outstanding \in Int /\ new_books.principal_outstanding \in Int
      /\ old_books.auction_debt_locked \in Int /\ new_books.auction_debt_locked \in Int
      /\ old_books.auction_principal_locked \in Int
      /\ new_books.auction_principal_locked \in Int
  BY DEF BookRecords
<1> QED
  BY <1>1, <1>2 DEF DebtsCounted

LEMMA LiveRepaymentCounted ==
  ASSUME Inv, NEW vault \in VaultRecords, vault.vault_type_id \in TypeIds, NEW amount \in Nat
  PROVE  PaymentCounted(vault, vault.vault_type_id, LiveRepayment(vault, amount))
<1> DEFINE vt == vault.vault_type_id
           rate == current_rate(vt)
           debt == Mul(vault.debt_shares, rate)
           paid == AtMost(amount, debt)
           split == split_payment(debt, vault.principal, paid)
           shares_paid == Div(paid, rate)
           buffered == buffer_amount(vt, split.fee)
           shares_left == vault.debt_shares - shares_paid
           principal_left == vault.principal - split.principal
           b == books[vt]
           done == LiveRepayment(vault, amount)
<1>1. vault.debt_shares \in Nat /\ vault.principal \in Nat
  BY DEF VaultRecords
<1>2. rate \in Nat /\ rate > 0
  BY RateFacts
<1>3. debt \in Nat
  BY <1>1, <1>2, MulType
<1>4. paid \in Nat /\ paid <= debt
  <2> HIDE DEF debt
  <2> QED
    BY <1>3 DEF AtMost
<1>5. shares_paid \in Nat /\ shares_paid <= vault.debt_shares
  <2> HIDE DEF paid, rate
  <2>1. shares_paid \in Nat
    BY <1>2, <1>4, DivType
  <2>2. shares_paid <= vault.debt_shares
    BY <1>1, <1>2, <1>4, DivWithinMul
  <2> QED
    BY <2>1, <2>2
<1>6. split.principal \in Nat /\ split.principal <= vault.principal
  <2> HIDE DEF debt, paid
  <2> QED
    BY <1>1, <1>3, <1>4, SplitFacts
<1>7. b \in BookRecords
  BY DEF Inv, TypeOK
<1>8. /\ done.vault = [vault EXCEPT !.debt_shares = without_dust(shares_left),
                                    !.principal = without_dust(principal_left)]
      /\ done.books = [accrued(vt) EXCEPT
                          !.normalized_debt_total = @ - shares_paid,
                          !.principal_outstanding = @ - split.principal,
                          !.surplus_buffer = @ + buffered]
      /\ done.split = split
  BY DEF LiveRepayment
<1> HIDE DEF rate, debt, paid, split, shares_paid, buffered, done
<1>9. shares_left \in Nat /\ principal_left \in Nat
  BY <1>1, <1>5, <1>6
<1> HIDE DEF shares_left, principal_left
<1>10. /\ done.vault.debt_shares = without_dust(shares_left)
       /\ done.vault.principal = without_dust(principal_left)
       /\ done.vault.auction_debt_snapshot = vault.auction_debt_snapshot
       /\ done.vault.auction_principal_snapshot = vault.auction_principal_snapshot
  BY <1>8 DEF VaultRecords
<1>11. /\ done.vault.debt_shares \in Nat /\ done.vault.debt_shares <= shares_left
       /\ done.vault.principal \in Nat /\ done.vault.principal <= principal_left
  BY <1>9, <1>10, DustOnlyDrops
<1>12. /\ done.books.rate_accumulator = rate /\ done.books.last_rate_time = now
       /\ done.books.normalized_debt_total = b.normalized_debt_total - shares_paid
       /\ done.books.principal_outstanding = b.principal_outstanding - split.principal
       /\ done.books.auction_debt_locked = b.auction_debt_locked
       /\ done.books.auction_principal_locked = b.auction_principal_locked
       /\ done.books.bad_debt = b.bad_debt
  BY <1>7, <1>8 DEF accrued, BookRecords, rate
<1> HIDE DEF b
<1>13. /\ b.normalized_debt_total \in Int /\ b.principal_outstanding \in Int
       /\ b.auction_debt_locked \in Int /\ b.auction_principal_locked \in Int
  BY <1>7 DEF BookRecords
<1>14. vault.auction_debt_snapshot \in Nat /\ vault.auction_principal_snapshot \in Nat
  BY DEF VaultRecords
<1>15. DebtsCounted(vault, done.vault, b, done.books)
  <2>1. shares_left = vault.debt_shares - shares_paid
        /\ principal_left = vault.principal - split.principal
    BY DEF shares_left, principal_left
  <2>2. /\ done.books.normalized_debt_total - b.normalized_debt_total
             >= done.vault.debt_shares - vault.debt_shares
        /\ done.books.principal_outstanding - b.principal_outstanding
             >= done.vault.principal - vault.principal
    BY <1>1, <1>5, <1>6, <1>9, <1>11, <1>12, <1>13, <2>1
  <2>3. /\ done.books.auction_debt_locked - b.auction_debt_locked
             >= done.vault.auction_debt_snapshot - vault.auction_debt_snapshot
        /\ done.books.auction_principal_locked - b.auction_principal_locked
             >= done.vault.auction_principal_snapshot - vault.auction_principal_snapshot
    BY <1>10, <1>12, <1>13, <1>14
  <2> QED
    BY <2>2, <2>3 DEF DebtsCounted
<1>16. RateKept(vt, done.books)
  BY <1>12 DEF RateKept, rate
<1>17. done.vault.debt_shares <= vault.debt_shares
  BY <1>1, <1>5, <1>9, <1>11 DEF shares_left
<1>18. done.books.principal_outstanding + done.books.auction_principal_locked
         = b.principal_outstanding + b.auction_principal_locked - done.split.principal
  BY <1>6, <1>8, <1>12, <1>13
<1> QED
  BY <1>12, <1>15, <1>16, <1>17, <1>18 DEF PaymentCounted, b, done

LEMMA AuctionRepaymentCounted ==
  ASSUME Inv, NEW vault \in VaultRecords, vault.vault_type_id \in TypeIds, NEW amount \in Nat
  PROVE  PaymentCounted(vault, vault.vault_type_id, AuctionRepayment(vault, amount))
<1> DEFINE vt == vault.vault_type_id
           debt == vault.auction_debt_snapshot
           paid == AtMost(amount, debt)
           split == split_payment(debt, vault.auction_principal_snapshot, paid)
           buffered == buffer_amount(vt, split.fee)
           debt_left == debt - paid
           principal_left == vault.auction_principal_snapshot - split.principal
           b == books[vt]
           done == AuctionRepayment(vault, amount)
<1>1. debt \in Nat /\ vault.auction_principal_snapshot \in Nat
  BY DEF VaultRecords
<1>2. paid \in Nat /\ paid <= debt
  BY <1>1 DEF AtMost
<1>3. split.principal \in Nat /\ split.principal <= vault.auction_principal_snapshot
  <2> HIDE DEF debt, paid
  <2> QED
    BY <1>1, <1>2, SplitFacts
<1>4. b \in BookRecords
  BY DEF Inv, TypeOK
<1>5. /\ done.vault = [vault EXCEPT
                          !.auction_debt_snapshot = without_dust(debt_left),
                          !.auction_principal_snapshot = without_dust(principal_left)]
      /\ done.books = [b EXCEPT !.auction_debt_locked = @ - paid,
                                !.auction_principal_locked = @ - split.principal,
                                !.surplus_buffer = @ + buffered]
      /\ done.split = split
  <2>1. /\ AuctionRepayment(vault, amount).vault
             = [vault EXCEPT !.auction_debt_snapshot = without_dust(@ - paid),
                             !.auction_principal_snapshot = without_dust(@ - split.principal)]
        /\ AuctionRepayment(vault, amount).books
             = [b EXCEPT !.auction_debt_locked = @ - paid,
                         !.auction_principal_locked = @ - split.principal,
                         !.surplus_buffer = @ + buffered]
        /\ AuctionRepayment(vault, amount).split = split
    BY DEF AuctionRepayment
  <2>2. [vault EXCEPT !.auction_debt_snapshot = without_dust(@ - paid),
                      !.auction_principal_snapshot = without_dust(@ - split.principal)]
          = [vault EXCEPT !.auction_debt_snapshot = without_dust(debt_left),
                          !.auction_principal_snapshot = without_dust(principal_left)]
    OBVIOUS
  <2> QED
    BY <2>1, <2>2
<1>6. debt_left \in Nat /\ principal_left \in Nat
  BY <1>1, <1>2, <1>3
<1> HIDE DEF paid, split, buffered, done, debt_left, principal_left
<1>7. /\ done.vault.auction_debt_snapshot = without_dust(debt_left)
      /\ done.vault.auction_principal_snapshot = without_dust(principal_left)
      /\ done.vault.debt_shares = vault.debt_shares
      /\ done.vault.principal = vault.principal
  BY <1>5 DEF VaultRecords
<1>8. /\ done.vault.auction_debt_snapshot \in Nat
      /\ done.vault.auction_debt_snapshot <= debt_left
      /\ done.vault.auction_principal_snapshot \in Nat
      /\ done.vault.auction_principal_snapshot <= principal_left
  BY <1>6, <1>7, DustOnlyDrops
<1>9. /\ done.books.rate_accumulator = b.rate_accumulator
      /\ done.books.last_rate_time = b.last_rate_time
      /\ done.books.normalized_debt_total = b.normalized_debt_total
      /\ done.books.principal_outstanding = b.principal_outstanding
      /\ done.books.auction_debt_locked = b.auction_debt_locked - paid
      /\ done.books.auction_principal_locked = b.auction_principal_locked - split.principal
      /\ done.books.bad_debt = b.bad_debt
  <2> HIDE DEF b
  <2> QED
    BY <1>4, <1>5 DEF BookRecords
<1>10. RateKept(vt, done.books)
  BY <1>9 DEF RateKept
<1> HIDE DEF b
<1>11. /\ b.normalized_debt_total \in Int /\ b.principal_outstanding \in Int
       /\ b.auction_debt_locked \in Int /\ b.auction_principal_locked \in Int
       /\ vault.debt_shares \in Nat /\ vault.principal \in Nat
  BY <1>4 DEF BookRecords, VaultRecords
<1>12. DebtsCounted(vault, done.vault, b, done.books)
  <2>1. debt_left = debt - paid
        /\ principal_left = vault.auction_principal_snapshot - split.principal
    BY DEF debt_left, principal_left
  <2>2. /\ done.books.auction_debt_locked - b.auction_debt_locked
             >= done.vault.auction_debt_snapshot - debt
        /\ done.books.auction_principal_locked - b.auction_principal_locked
             >= done.vault.auction_principal_snapshot - vault.auction_principal_snapshot
    BY <1>1, <1>2, <1>3, <1>6, <1>8, <1>9, <1>11, <2>1
  <2>3. /\ done.books.normalized_debt_total - b.normalized_debt_total
             >= done.vault.debt_shares - vault.debt_shares
        /\ done.books.principal_outstanding - b.principal_outstanding
             >= done.vault.principal - vault.principal
    BY <1>7, <1>9, <1>11
  <2> QED
    BY <2>2, <2>3 DEF DebtsCounted
<1>13. done.books.principal_outstanding + done.books.auction_principal_locked
         = b.principal_outstanding + b.auction_principal_locked - done.split.principal
  BY <1>3, <1>5, <1>9, <1>11
<1>14. done.vault.debt_shares <= vault.debt_shares
  BY <1>7, <1>11
<1> QED
  BY <1>9, <1>10, <1>12, <1>13, <1>14 DEF PaymentCounted, b, done

\* The supply falls by the principal that is burnt.
LEMMA PaidOutSupply ==
  ASSUME Inv, NEW caller, NEW amount, NEW vt, NEW split
  PROVE  /\ PaidOut(stable, vt, split).total_supply = stable.total_supply - split.principal
         /\ PaidOut(LedgerTransfer(stable, caller, con_vaults, amount), vt, split).total_supply
              = stable.total_supply - split.principal
<1>1. stable \in [balances : [Accounts -> Nat], total_supply : Nat]
  BY DEF Inv, TypeOK
<1>2. ASSUME NEW ledger, NEW balances, NEW supply,
             ledger = [balances |-> balances, total_supply |-> supply]
      PROVE  PaidOut(ledger, vt, split).total_supply = supply - split.principal
  <2> DEFINE moved == Moved(balances, con_vaults, fee_destination,
                            split.fee - buffer_amount(vt, split.fee))
             routed == LedgerTransfer(ledger, con_vaults, fee_destination,
                                      split.fee - buffer_amount(vt, split.fee))
  <2>1. routed = [ledger EXCEPT !.balances = moved]
    BY <1>2 DEF LedgerTransfer
  <2> HIDE DEF moved, routed
  <2>2. routed.total_supply = supply
    BY <1>2, <2>1
  <2>3. PaidOut(ledger, vt, split) = LedgerBurn(routed, con_vaults, split.principal)
    BY DEF PaidOut, routed
  <2> QED
    BY <2>2, <2>3 DEF LedgerBurn
<1>3. stable = [balances |-> stable.balances, total_supply |-> stable.total_supply]
  BY <1>1
<1>4. LedgerTransfer(stable, caller, con_vaults, amount)
        = [balances |-> Moved(stable.balances, caller, con_vaults, amount),
           total_supply |-> stable.total_supply]
  <2> DEFINE moved == Moved(stable.balances, caller, con_vaults, amount)
  <2>1. LedgerTransfer(stable, caller, con_vaults, amount) = [stable EXCEPT !.balances = moved]
    BY DEF LedgerTransfer
  <2> HIDE DEF moved
  <2>2. [stable EXCEPT !.balances = moved]
          = [balances |-> moved, total_supply |-> stable.total_supply]
    BY <1>3
  <2> QED
    BY <2>1, <2>2 DEF moved
<1> QED
  BY <1>2, <1>3, <1>4

\* A call on an open vault that leaves it without an auction, and without escrow:
\* what is burnt of the supply, or minted when burnt is negative, is the principal
\* that the books stop counting.
LEMMA UnauctionedCallIsSafe ==
  ASSUME SafetyInv, Inv', NEW v \in VaultIds, vaults[v].open,
         NEW vt \in TypeIds, vt = vaults[v].vault_type_id,
         NEW new, NEW new_books, NEW burnt \in Int, paused => burnt >= 0,
         vaults' = [vaults EXCEPT ![v] = new], books' = [books EXCEPT ![vt] = new_books],
         UNCHANGED <<now, price, vault_types, vault_type_count, vault_count, auction_bids>>,
         stable'.total_supply = stable.total_supply - burnt,
         new.vault_type_id = vt, ~new.auction_open,
         new.debt_shares > 0 => new.collateral_amount > 0,
         DebtsCounted(vaults[v], new, books[vt], new_books),
         new_books.principal_outstanding + new_books.auction_principal_locked
            = books[vt].principal_outstanding + books[vt].auction_principal_locked - burnt,
         new_books.bad_debt = books[vt].bad_debt,
         RateKept(vt, new_books),
         \A a \in Accounts : auction_bids[<<v, a>>] = 0,
         CollateralFollows(vault_types[vt].collateral_contract, vaults[v], new),
         paused /\ new.collateral_amount < vaults[v].collateral_amount => HandedOut(v, new),
         Liquidatable(new) => Liquidatable(vaults[v])
  PROVE  SafeStep
<1>1. v <= vault_count /\ vt <= vault_type_count
  BY LiveVaultFacts
<1>2. VaultCall(v, vt, new, new_books)
  BY <1>1 DEF VaultCall
<1>3. /\ vaults[v] \in VaultRecords /\ new \in VaultRecords
      /\ books[vt] \in BookRecords /\ new_books \in BookRecords /\ vaults'[v] = new
  BY <1>2, CallTypes DEF SafetyInv
<1>4. stable.total_supply \in Nat /\ stable'.total_supply \in Nat
  BY DEF SafetyInv, Inv, TypeOK
<1>5. BackingKept(vaults[v], new, books[vt], new_books)
  <2>1. RoundingOf(vaults[v], new) \in Nat
    BY <1>3 DEF RoundingOf, AtLeastZero, VaultRecords
  <2>2. /\ books[vt].principal_outstanding \in Int /\ books[vt].auction_principal_locked \in Int
        /\ books[vt].bad_debt \in Nat
        /\ new_books.principal_outstanding \in Int /\ new_books.auction_principal_locked \in Int
    BY <1>3 DEF BookRecords
  <2> QED
    BY <1>4, <2>1, <2>2 DEF BackingKept
<1>6. Secured(new)
  BY DEF Secured
<1>7. EscrowAgrees(v)' /\ OthersEscrowKept(v)
  BY <1>3 DEF EscrowAgrees, OthersEscrowKept
<1>8. PauseRespected(v, new)
  BY <1>4 DEF PauseRespected
<1> QED
  BY <1>2, <1>5, <1>6, <1>7, <1>8, VaultCallIsSafe

\* A vault without an auction, or with one nobody has bid on, has no escrow.
LEMMA NoEscrow ==
  ASSUME SafetyInv, NEW v \in VaultIds, vaults[v].open,
         ~vaults[v].auction_open \/ vaults[v].auction_highest_bid <= 0
  PROVE  \A a \in Accounts : auction_bids[<<v, a>>] = 0
<1>1. EscrowAgrees(v) /\ ~vaults[v].auction_settled
  BY LiveVaultFacts
<1>2. \A a \in Accounts : auction_bids[<<v, a>>] \in Nat
  BY DEF SafetyInv, Inv, TypeOK
<1>3. vaults[v].auction_highest_bid \in Nat
  BY DEF SafetyInv, Inv, TypeOK, VaultRecords
<1> QED
  BY <1>1, <1>2, <1>3 DEF EscrowAgrees

\* Collateral that does not move.
LEMMA CollateralStays ==
  ASSUME SafetyInv, Inv', NEW c \in Collaterals, NEW old \in VaultRecords, NEW new \in VaultRecords,
         UNCHANGED collateral, Held(new) <= Held(old)
  PROVE  CollateralFollows(c, old, new)
<1>1. collateral[c][con_vaults] \in Nat
  BY AccountFacts DEF SafetyInv, Inv, TypeOK
<1>2. Held(old) \in Nat /\ Held(new) \in Nat
  BY DEF Held, VaultRecords
<1> QED
  BY <1>1, <1>2 DEF CollateralFollows

\* Collateral that moves to or from the contract.
LEMMA CollateralMoves ==
  ASSUME SafetyInv, Inv', NEW c \in Collaterals, NEW old \in VaultRecords, NEW new \in VaultRecords,
         NEW from \in Accounts, NEW to \in Accounts, NEW amount \in Nat,
         collateral' = [collateral EXCEPT ![c] = Moved(@, from, to, amount)],
         IF to = con_vaults /\ from # con_vaults THEN Held(new) <= Held(old) + amount
         ELSE Held(new) <= Held(old) - (IF from = con_vaults THEN amount ELSE 0)
  PROVE  CollateralFollows(c, old, new)
<1> DEFINE held == collateral[c]
<1>1. held \in [Accounts -> Nat] /\ con_vaults \in Accounts
      /\ collateral \in [Collaterals -> [Accounts -> Nat]]
  BY AccountFacts DEF SafetyInv, Inv, TypeOK
<1>2. collateral'[c] = Moved(held, from, to, amount)
      /\ \A d \in Collaterals \ {c} : collateral'[d] = collateral[d]
  BY <1>1
<1>3. Held(old) \in Nat /\ Held(new) \in Nat
  BY DEF Held, VaultRecords
<1> HIDE DEF held
<1>4. Moved(held, from, to, amount)[con_vaults]
        = held[con_vaults] - (IF from = con_vaults THEN amount ELSE 0)
            + (IF to = con_vaults THEN amount ELSE 0)
  BY <1>1 DEF Moved
<1>5. held[con_vaults] \in Nat
  BY <1>1
<1>6. Moved(held, from, to, amount)[con_vaults] - held[con_vaults] >= Held(new) - Held(old)
  BY <1>3, <1>4, <1>5
<1> QED
  BY <1>2, <1>6 DEF CollateralFollows, held

-----------------------------------------------------------------------------
(* Vault lifecycle. *)

LEMMA IssuedBooks ==
  ASSUME Inv, NEW vt \in TypeIds, NEW x \in Nat, NEW y \in Nat
  PROVE  LET new == [accrued(vt) EXCEPT !.normalized_debt_total = @ + x,
                                        !.principal_outstanding = @ + y]
         IN  /\ new.normalized_debt_total = books[vt].normalized_debt_total + x
             /\ new.principal_outstanding = books[vt].principal_outstanding + y
             /\ new.auction_debt_locked = books[vt].auction_debt_locked
             /\ new.auction_principal_locked = books[vt].auction_principal_locked
             /\ new.bad_debt = books[vt].bad_debt
             /\ RateKept(vt, new)
<1> DEFINE b == books[vt]
           rate == current_rate(vt)
           debt_total == b.normalized_debt_total + x
           principal_total == b.principal_outstanding + y
           base == accrued(vt)
           new == [base EXCEPT !.normalized_debt_total = debt_total,
                               !.principal_outstanding = principal_total]
<1>1. b \in BookRecords
  BY DEF Inv, TypeOK
<1>2. base = [b EXCEPT !.rate_accumulator = rate, !.last_rate_time = now]
  BY DEF accrued
<1>3. /\ base.normalized_debt_total = b.normalized_debt_total
      /\ base.principal_outstanding = b.principal_outstanding
  <2> HIDE DEF b, rate, base
  <2> QED
    BY <1>1, <1>2 DEF BookRecords
<1>4. [base EXCEPT !.normalized_debt_total = @ + x, !.principal_outstanding = @ + y] = new
  <2> HIDE DEF b, base
  <2> QED
    BY <1>3
<1> HIDE DEF rate, base, debt_total, principal_total, b
<1>5. /\ new.normalized_debt_total = debt_total
      /\ new.principal_outstanding = principal_total
      /\ new.auction_debt_locked = b.auction_debt_locked
      /\ new.auction_principal_locked = b.auction_principal_locked
      /\ new.bad_debt = b.bad_debt
      /\ new.rate_accumulator = rate /\ new.last_rate_time = now
  BY <1>1, <1>2 DEF BookRecords
<1> HIDE DEF new
<1>6. RateKept(vt, new)
  BY <1>5 DEF RateKept, rate
<1>7. /\ new.normalized_debt_total = books[vt].normalized_debt_total + x
      /\ new.principal_outstanding = books[vt].principal_outstanding + y
      /\ new.auction_debt_locked = books[vt].auction_debt_locked
      /\ new.auction_principal_locked = books[vt].auction_principal_locked
      /\ new.bad_debt = books[vt].bad_debt
      /\ RateKept(vt, new)
  BY <1>5, <1>6 DEF b, debt_total, principal_total
<1> QED
  BY <1>4, <1>7 DEF new, base

LEMMA MintedSupply ==
  ASSUME NEW ledger, NEW to, NEW amount
  PROVE  LedgerMint(ledger, to, amount).total_supply = ledger.total_supply + amount
  BY DEF LedgerMint

LEMMA CreateVaultIsSafe ==
  ASSUME SafetyInv, Inv', NEW caller \in Users, NEW vt \in TypeIds,
         NEW collateral_amount \in Nat, NEW debt_amount \in Nat,
         create_vault(caller, vt, collateral_amount, debt_amount)
  PROVE  SafeStep
<1> DEFINE c == vault_types[vt].collateral_contract
           rate == current_rate(vt)
           shares == Div(debt_amount, rate)
           new == [NoVault EXCEPT !.owner = caller, !.vault_type_id = vt, !.open = TRUE,
                                  !.collateral_amount = collateral_amount,
                                  !.debt_shares = shares, !.principal = debt_amount]
           new_books == [accrued(vt) EXCEPT !.normalized_debt_total = @ + shares,
                                            !.principal_outstanding = @ + debt_amount]
<1>0. PICK id : id = vault_count + 1
  OBVIOUS
<1>1. c \in Collaterals /\ c # NoOne /\ caller \in Accounts /\ con_vaults \in Accounts
      /\ caller # con_vaults
  BY AccountFacts, VaultsAssumption DEF SafetyInv, Inv, TypeOK, TypeSettings, create_vault
<1>2. id \in VaultIds /\ id > vault_count
  BY <1>0, VaultsAssumption DEF create_vault, SafetyInv, Inv, TypeOK, VaultIds
<1>3. vaults[id] = NoVault
  BY <1>2 DEF SafetyInv, Recorded, VaultRecorded
<1>4. vt <= vault_type_count
      /\ vault_types[vt].ratios.min_collateral_ratio_bps \in Nat
      /\ vault_types[vt].ratios.min_collateral_ratio_bps > 0
  BY <1>1, AddedTypeFacts
<1>5. rate \in Nat /\ rate > 0
  BY RateAtLeastOne
<1>6. shares \in Nat
  <2> HIDE DEF rate
  <2> QED
    BY <1>5, DivType
<1>7. /\ vaults' = [vaults EXCEPT ![id] = new] /\ books' = [books EXCEPT ![vt] = new_books]
      /\ stable' = LedgerMint(stable, caller, debt_amount)
      /\ collateral' = [collateral EXCEPT ![c] = Moved(@, caller, con_vaults, collateral_amount)]
      /\ UNCHANGED <<now, price, vault_types, vault_type_count, auction_bids>>
      /\ vault_count' = id /\ ~paused
      /\ debt_amount > 0
      /\ MeetsMinRatio(vt, collateral_amount, debt_amount)
  BY <1>0 DEF create_vault
<1>8. /\ new_books.normalized_debt_total = books[vt].normalized_debt_total + shares
      /\ new_books.principal_outstanding = books[vt].principal_outstanding + debt_amount
      /\ new_books.auction_debt_locked = books[vt].auction_debt_locked
      /\ new_books.auction_principal_locked = books[vt].auction_principal_locked
      /\ new_books.bad_debt = books[vt].bad_debt
      /\ RateKept(vt, new_books)
  <2> HIDE DEF shares
  <2> QED
    BY <1>6, IssuedBooks DEF SafetyInv
<1> HIDE DEF shares, new_books
<1>9. /\ new.vault_type_id = vt /\ new.open /\ ~new.auction_open /\ ~new.auction_settled
      /\ new.collateral_amount = collateral_amount
      /\ new.debt_shares = shares /\ new.principal = debt_amount
      /\ new.auction_debt_snapshot = 0 /\ new.auction_principal_snapshot = 0
  BY DEF NoVault
<1> HIDE DEF new
<1>10. VaultCall(id, vt, new, new_books)
  BY <1>0, <1>3, <1>4, <1>7, <1>9 DEF VaultCall
<1>11. /\ new \in VaultRecords /\ NoVault \in VaultRecords
       /\ books[vt] \in BookRecords /\ vaults'[id] = new
  BY <1>2, <1>3, <1>10, CallTypes DEF SafetyInv
<1>12. /\ books[vt].normalized_debt_total \in Int /\ books[vt].principal_outstanding \in Int
       /\ books[vt].auction_debt_locked \in Int /\ books[vt].auction_principal_locked \in Int
       /\ books[vt].bad_debt \in Nat
  BY <1>11 DEF BookRecords
<1>13. DebtsCounted(NoVault, new, books[vt], new_books)
  BY <1>6, <1>8, <1>9, <1>12 DEF DebtsCounted, NoVault
<1>14. BackingKept(NoVault, new, books[vt], new_books)
  <2>1. stable'.total_supply = stable.total_supply + debt_amount /\ stable.total_supply \in Nat
    BY <1>7, MintedSupply DEF SafetyInv, Inv, TypeOK
  <2>2. RoundingOf(NoVault, new) = 0
    BY <1>9 DEF RoundingOf
  <2> QED
    BY <1>8, <1>12, <2>1, <2>2 DEF BackingKept
<1>15. CollateralFollows(c, NoVault, new)
  <2>1. Held(new) = collateral_amount /\ Held(NoVault) = 0
    BY <1>9 DEF Held, NoVault
  <2>2. Held(new) <= Held(NoVault) + collateral_amount
    BY <2>1
  <2> QED
    BY <1>1, <1>7, <1>11, <2>2, CollateralMoves
<1>16. Secured(new)
  <2>1. collateral_amount > 0
    BY <1>1, <1>4, <1>7, CollateralNeeded DEF SafetyInv, MeetsMinRatio
  <2> QED
    BY <1>9, <2>1 DEF Secured
<1>17. EscrowAgrees(id)' /\ OthersEscrowKept(id)
  <2>1. EscrowAgrees(id)
    BY <1>2, EscrowByVault DEF SafetyInv
  <2>2. \A a \in Accounts : auction_bids[<<id, a>>] = 0
    BY <1>3, <2>1 DEF EscrowAgrees, NoVault
  <2> QED
    BY <1>7, <1>9, <1>11, <2>2 DEF EscrowAgrees, OthersEscrowKept
<1>18. PauseRespected(id, new)
  BY <1>7 DEF PauseRespected
<1>19. ~Liquidatable(new)
  <2>1. Mul(shares, rate) <= debt_amount
    <3>1. Mul(0 + shares, rate) <= Mul(0, rate) + debt_amount
      <4> HIDE DEF rate
      <4> QED
        BY <1>5, MulAfterDiv DEF shares
    <3>2. Mul(0, rate) = 0
      <4>1. 0 * rate = 0
        BY <1>5, Z3
      <4> QED
        BY <4>1, Floor, QuotientAtLeast, QuotientBounded, ScaleAssumption DEF Mul
    <3>3. 0 + shares = shares
      BY <1>6
    <3> QED
      BY <3>1, <3>2, <3>3
  <2>2. vault_live_debt(new) <= debt_amount
    BY <1>9, <2>1 DEF vault_live_debt
  <2> QED
    BY <1>1, <1>7, <1>9, <1>11, <2>2, SafeAtMinRatio
<1> QED
  BY <1>2, <1>3, <1>8, <1>10, <1>13, <1>14, <1>15, <1>16, <1>17, <1>18, <1>19, VaultCallIsSafe

LEMMA DepositIsSafe ==
  ASSUME SafetyInv, Inv', NEW caller \in Users, NEW v \in VaultIds, NEW amount \in Nat,
         deposit_collateral(caller, v, amount)
  PROVE  SafeStep
<1> DEFINE c == CollateralOf(v)
           old == vaults[v]
           vt == old.vault_type_id
           new == [old EXCEPT !.collateral_amount = @ + amount]
<1>1. /\ old.open /\ ~old.auction_open
      /\ collateral' = [collateral EXCEPT ![c] = Moved(@, caller, con_vaults, amount)]
      /\ vaults' = [vaults EXCEPT ![v] = new]
      /\ UNCHANGED <<now, price, stable, books, vault_types, vault_type_count, vault_count,
                     auction_bids>>
  BY DEF deposit_collateral, OwnLiveVault, LiveVault, types
<1>2. /\ old \in VaultRecords /\ vt \in TypeIds /\ books[vt] \in BookRecords
      /\ c \in Collaterals /\ c = vault_types[vt].collateral_contract
      /\ Secured(old)
  BY <1>1, LiveVaultFacts DEF CollateralOf
<1>3. /\ new.vault_type_id = vt /\ new.open /\ ~new.auction_open
      /\ new.collateral_amount = old.collateral_amount + amount
      /\ new.debt_shares = old.debt_shares /\ new.principal = old.principal
      /\ new.auction_debt_snapshot = old.auction_debt_snapshot
      /\ new.auction_principal_snapshot = old.auction_principal_snapshot
      /\ old.collateral_amount \in Nat /\ old.debt_shares \in Nat /\ old.principal \in Nat
      /\ old.auction_debt_snapshot \in Nat /\ old.auction_principal_snapshot \in Nat
  BY <1>1, <1>2 DEF VaultRecords
<1>4. books' = [books EXCEPT ![vt] = books[vt]]
  BY <1>1, <1>2 DEF SafetyInv, Inv, TypeOK
<1>5. new \in VaultRecords
  BY <1>2, <1>3 DEF VaultRecords
<1> HIDE DEF new
<1>6. CollateralFollows(c, old, new)
  <2>1. caller \in Accounts /\ con_vaults \in Accounts /\ caller # con_vaults
    BY AccountFacts, VaultsAssumption
  <2>2. Held(new) <= Held(old) + amount
    BY <1>1, <1>3 DEF Held
  <2> QED
    BY <1>1, <1>2, <1>5, <2>1, <2>2, CollateralMoves
<1>7. Liquidatable(new) => Liquidatable(old)
  BY <1>1, <1>2, <1>3, <1>5, SaferVault
<1>8. \A a \in Accounts : auction_bids[<<v, a>>] = 0
  BY <1>1, NoEscrow
<1>9. RateKept(vt, books[vt])
  BY DEF RateKept
<1>10. DebtsCounted(old, new, books[vt], books[vt])
  BY <1>2, <1>3 DEF DebtsCounted, BookRecords
<1> DEFINE burnt == 0
<1>11. burnt \in Int /\ burnt >= 0 /\ stable'.total_supply = stable.total_supply - burnt
  BY <1>1 DEF SafetyInv, Inv, TypeOK
<1>12. new.debt_shares > 0 => new.collateral_amount > 0
  BY <1>1, <1>2, <1>3 DEF Secured
<1>13. books[vt].principal_outstanding + books[vt].auction_principal_locked
         = books[vt].principal_outstanding + books[vt].auction_principal_locked - burnt
  BY <1>2 DEF BookRecords
<1>14. ~(new.collateral_amount < old.collateral_amount)
  BY <1>3
<1> HIDE DEF burnt
<1> QED
  BY <1>1, <1>2, <1>3, <1>4, <1>6, <1>7, <1>8, <1>9, <1>10, <1>11, <1>12, <1>13, <1>14,
     UnauctionedCallIsSafe

\* Books that are brought up to date count what they counted.
LEMMA AccruedCounts ==
  ASSUME Inv, NEW vt \in TypeIds
  PROVE  /\ accrued(vt).normalized_debt_total = books[vt].normalized_debt_total
         /\ accrued(vt).principal_outstanding = books[vt].principal_outstanding
         /\ accrued(vt).auction_debt_locked = books[vt].auction_debt_locked
         /\ accrued(vt).auction_principal_locked = books[vt].auction_principal_locked
         /\ accrued(vt).bad_debt = books[vt].bad_debt
         /\ RateKept(vt, accrued(vt))
<1> DEFINE b == books[vt]
           rate == current_rate(vt)
           new == [b EXCEPT !.rate_accumulator = rate, !.last_rate_time = now]
<1>1. b \in BookRecords
  BY DEF Inv, TypeOK
<1>2. accrued(vt) = new
  BY DEF accrued
<1> HIDE DEF b, rate
<1>3. /\ new.normalized_debt_total = b.normalized_debt_total
      /\ new.principal_outstanding = b.principal_outstanding
      /\ new.auction_debt_locked = b.auction_debt_locked
      /\ new.auction_principal_locked = b.auction_principal_locked
      /\ new.bad_debt = b.bad_debt
      /\ new.rate_accumulator = rate /\ new.last_rate_time = now
  BY <1>1 DEF BookRecords
<1> HIDE DEF new
<1>4. RateKept(vt, new)
  BY <1>3 DEF RateKept, rate
<1> QED
  BY <1>2, <1>3, <1>4 DEF b

LEMMA WithdrawIsSafe ==
  ASSUME SafetyInv, Inv', NEW caller \in Users, NEW v \in VaultIds, NEW amount \in Nat,
         withdraw_collateral(caller, v, amount)
  PROVE  SafeStep
<1> DEFINE c == CollateralOf(v)
           old == vaults[v]
           vt == old.vault_type_id
           left == old.collateral_amount - amount
           new == [old EXCEPT !.collateral_amount = left]
           new_books == accrued(vt)
<1>1. /\ old.open /\ ~old.auction_open /\ ~paused /\ left >= 0
      /\ MeetsMinRatio(vt, left, vault_live_debt(old))
      /\ collateral' = [collateral EXCEPT ![c] = Moved(@, con_vaults, caller, amount)]
      /\ vaults' = [vaults EXCEPT ![v] = new]
      /\ books' = [books EXCEPT ![vt] = new_books]
      /\ UNCHANGED <<now, price, stable, vault_types, vault_type_count, vault_count,
                     auction_bids>>
  BY DEF withdraw_collateral, OwnLiveVault, LiveVault
<1>2. /\ old \in VaultRecords /\ vt \in TypeIds /\ books[vt] \in BookRecords
      /\ c \in Collaterals /\ c # NoOne /\ c = vault_types[vt].collateral_contract
  BY <1>1, LiveVaultFacts DEF CollateralOf
<1>3. /\ old.collateral_amount \in Nat /\ old.debt_shares \in Nat /\ old.principal \in Nat
      /\ old.auction_debt_snapshot \in Nat /\ old.auction_principal_snapshot \in Nat
      /\ left \in Nat
  BY <1>1, <1>2 DEF VaultRecords
<1> HIDE DEF left
<1>4. /\ new.vault_type_id = vt /\ new.open /\ ~new.auction_open
      /\ new.collateral_amount = left
      /\ new.debt_shares = old.debt_shares /\ new.principal = old.principal
      /\ new.auction_debt_snapshot = old.auction_debt_snapshot
      /\ new.auction_principal_snapshot = old.auction_principal_snapshot
      /\ new \in VaultRecords
  BY <1>1, <1>2, <1>3 DEF VaultRecords
<1> HIDE DEF new
<1>5. /\ new_books.normalized_debt_total = books[vt].normalized_debt_total
      /\ new_books.principal_outstanding = books[vt].principal_outstanding
      /\ new_books.auction_debt_locked = books[vt].auction_debt_locked
      /\ new_books.auction_principal_locked = books[vt].auction_principal_locked
      /\ new_books.bad_debt = books[vt].bad_debt
      /\ RateKept(vt, new_books)
  BY <1>2, AccruedCounts DEF SafetyInv
<1> HIDE DEF new_books
<1>6. CollateralFollows(c, old, new)
  <2>1. caller \in Accounts /\ con_vaults \in Accounts /\ caller # con_vaults
    BY AccountFacts, VaultsAssumption
  <2>2. Held(new) <= Held(old) - amount
    BY <1>1, <1>3, <1>4 DEF Held, left
  <2> QED
    BY <1>1, <1>2, <1>4, <2>1, <2>2, CollateralMoves
<1>7. vault_live_debt(new) = vault_live_debt(old) /\ vault_live_debt(old) \in Nat
      /\ vault_live_debt(old) >= old.debt_shares
  BY <1>2, <1>4, SharesAreDebt DEF vault_live_debt
<1>8. ~Liquidatable(new)
  BY <1>1, <1>2, <1>4, <1>7, SafeAtMinRatio
<1>9. new.debt_shares > 0 => new.collateral_amount > 0
  <2>1. /\ vault_types[vt].ratios.min_collateral_ratio_bps \in Nat
        /\ vault_types[vt].ratios.min_collateral_ratio_bps > 0
    BY <1>2, AddedTypeFacts
  <2>2. old.debt_shares > 0 => vault_live_debt(old) > 0
    BY <1>3, <1>7
  <2>3. old.debt_shares > 0 => left > 0
    BY <1>1, <1>2, <1>3, <1>7, <2>1, <2>2, CollateralNeeded DEF SafetyInv, MeetsMinRatio
  <2> QED
    BY <1>4, <2>3
<1>10. \A a \in Accounts : auction_bids[<<v, a>>] = 0
  BY <1>1, NoEscrow
<1>11. DebtsCounted(old, new, books[vt], new_books)
  BY <1>2, <1>3, <1>4, <1>5 DEF DebtsCounted, BookRecords
<1> DEFINE burnt == 0
<1>12. burnt \in Int /\ stable'.total_supply = stable.total_supply - burnt
  BY <1>1 DEF SafetyInv, Inv, TypeOK
<1>13. new_books.principal_outstanding + new_books.auction_principal_locked
         = books[vt].principal_outstanding + books[vt].auction_principal_locked - burnt
  BY <1>2, <1>5 DEF BookRecords
<1> HIDE DEF burnt
<1> QED
  BY <1>1, <1>2, <1>4, <1>5, <1>6, <1>8, <1>9, <1>10, <1>11, <1>12, <1>13,
     UnauctionedCallIsSafe

LEMMA BorrowIsSafe ==
  ASSUME SafetyInv, Inv', NEW caller \in Users, NEW v \in VaultIds, NEW amount \in Nat,
         borrow(caller, v, amount)
  PROVE  SafeStep
<1> DEFINE c == CollateralOf(v)
           old == vaults[v]
           vt == old.vault_type_id
           rate == current_rate(vt)
           shares == Div(amount, rate)
           debt_shares == old.debt_shares + shares
           principal == old.principal + amount
           debt == vault_live_debt(old) + amount
           new == [old EXCEPT !.debt_shares = debt_shares, !.principal = principal]
           new_books == [accrued(vt) EXCEPT !.normalized_debt_total = @ + shares,
                                            !.principal_outstanding = @ + amount]
<1>1. /\ old.open /\ ~old.auction_open /\ ~paused /\ amount > 0
      /\ MeetsMinRatio(vt, old.collateral_amount, debt)
      /\ stable' = LedgerMint(stable, caller, amount)
      /\ UNCHANGED <<now, price, collateral, vault_types, vault_type_count, vault_count,
                     auction_bids>>
  BY DEF borrow, OwnLiveVault, LiveVault
<1>2. vaults' = [vaults EXCEPT ![v] = new] /\ books' = [books EXCEPT ![vt] = new_books]
  <2>1. vaults' = [vaults EXCEPT ![v] = new]
    BY Zenon DEF borrow
  <2>2. books' = [books EXCEPT ![vt] = new_books]
    BY Zenon DEF borrow
  <2> QED
    BY <2>1, <2>2
<1>3. /\ old \in VaultRecords /\ vt \in TypeIds /\ books[vt] \in BookRecords
      /\ c \in Collaterals /\ c # NoOne /\ c = vault_types[vt].collateral_contract
  BY <1>1, LiveVaultFacts DEF CollateralOf
<1>4. /\ old.collateral_amount \in Nat /\ old.debt_shares \in Nat /\ old.principal \in Nat
      /\ old.auction_debt_snapshot \in Nat /\ old.auction_principal_snapshot \in Nat
  BY <1>3 DEF VaultRecords
<1>5. rate \in Nat /\ rate > 0
  BY <1>3, RateAtLeastOne
<1>6. shares \in Nat
  <2> HIDE DEF rate
  <2> QED
    BY <1>5, DivType
<1>7. vault_live_debt(old) = Mul(old.debt_shares, rate) /\ vault_live_debt(old) \in Nat
  BY <1>3, SharesAreDebt DEF vault_live_debt
<1>8. Mul(debt_shares, rate) <= debt
  <2>1. Mul(old.debt_shares + shares, rate) <= Mul(old.debt_shares, rate) + amount
    <3> HIDE DEF rate
    <3> QED
      BY <1>4, <1>5, MulAfterDiv DEF shares
  <2> QED
    BY <1>7, <2>1
<1>9. /\ new_books.normalized_debt_total = books[vt].normalized_debt_total + shares
      /\ new_books.principal_outstanding = books[vt].principal_outstanding + amount
      /\ new_books.auction_debt_locked = books[vt].auction_debt_locked
      /\ new_books.auction_principal_locked = books[vt].auction_principal_locked
      /\ new_books.bad_debt = books[vt].bad_debt
      /\ RateKept(vt, new_books)
  <2> HIDE DEF shares
  <2> QED
    BY <1>3, <1>6, IssuedBooks DEF SafetyInv
<1>10. debt_shares \in Nat /\ principal \in Nat /\ debt \in Nat /\ debt > 0
  <2> HIDE DEF shares
  <2> QED
    BY <1>1, <1>4, <1>6, <1>7
<1> HIDE DEF shares, new_books, debt_shares, principal, debt, rate
<1>11. /\ new.vault_type_id = vt /\ new.open /\ ~new.auction_open
       /\ new.collateral_amount = old.collateral_amount
       /\ new.debt_shares = debt_shares /\ new.principal = principal
       /\ new.auction_debt_snapshot = old.auction_debt_snapshot
       /\ new.auction_principal_snapshot = old.auction_principal_snapshot
       /\ new \in VaultRecords
  BY <1>1, <1>3, <1>10 DEF VaultRecords
<1> HIDE DEF new
<1>12. CollateralFollows(c, old, new)
  <2>1. Held(new) = Held(old) /\ Held(old) \in Nat
    BY <1>1, <1>4, <1>11 DEF Held
  <2>2. Held(new) <= Held(old)
    BY <2>1
  <2> QED
    BY <1>1, <1>3, <1>11, <2>2, CollateralStays
<1>13. vault_live_debt(new) <= debt
  BY <1>8, <1>11 DEF vault_live_debt, rate
<1>14. ~Liquidatable(new)
  BY <1>1, <1>3, <1>10, <1>11, <1>13, SafeAtMinRatio
<1>15. new.collateral_amount > 0
  <2>1. /\ vault_types[vt].ratios.min_collateral_ratio_bps \in Nat
        /\ vault_types[vt].ratios.min_collateral_ratio_bps > 0
    BY <1>3, AddedTypeFacts
  <2> QED
    BY <1>1, <1>3, <1>4, <1>10, <1>11, <2>1, CollateralNeeded DEF SafetyInv, MeetsMinRatio
<1>16. \A a \in Accounts : auction_bids[<<v, a>>] = 0
  BY <1>1, NoEscrow
<1>17. DebtsCounted(old, new, books[vt], new_books)
  BY <1>3, <1>4, <1>6, <1>9, <1>11 DEF DebtsCounted, BookRecords, debt_shares, principal
<1> DEFINE burnt == 0 - amount
<1>18. burnt \in Int /\ stable'.total_supply = stable.total_supply - burnt
  <2>1. stable'.total_supply = stable.total_supply + amount /\ stable.total_supply \in Nat
    BY <1>1, MintedSupply DEF SafetyInv, Inv, TypeOK
  <2> QED
    BY <2>1
<1>19. new_books.principal_outstanding + new_books.auction_principal_locked
         = books[vt].principal_outstanding + books[vt].auction_principal_locked - burnt
  BY <1>3, <1>9 DEF BookRecords
<1> HIDE DEF burnt
<1> QED
  BY <1>1, <1>2, <1>3, <1>9, <1>11, <1>12, <1>14, <1>15, <1>16, <1>17, <1>18, <1>19,
     UnauctionedCallIsSafe

-----------------------------------------------------------------------------
(* Repayment and liquidation. *)

\* A call in which the caller pays live debt, and that leaves no more of the
\* vault's debts than the payment does.
LEMMA RepaymentIsSafe ==
  ASSUME SafetyInv, Inv', NEW caller, NEW v \in VaultIds, NEW amount \in Nat,
         vaults[v].open, ~vaults[v].auction_open,
         NEW vt \in TypeIds, vt = vaults[v].vault_type_id,
         NEW done, done = LiveRepayment(vaults[v], amount),
         NEW new \in VaultRecords,
         vaults' = [vaults EXCEPT ![v] = new], books' = [books EXCEPT ![vt] = done.books],
         stable' = PaidOut(LedgerTransfer(stable, caller, con_vaults, amount), vt, done.split),
         UNCHANGED <<now, price, vault_types, vault_type_count, vault_count, auction_bids>>,
         new.vault_type_id = vt, ~new.auction_open,
         new.debt_shares <= done.vault.debt_shares, new.principal <= done.vault.principal,
         new.auction_debt_snapshot <= done.vault.auction_debt_snapshot,
         new.auction_principal_snapshot <= done.vault.auction_principal_snapshot,
         new.debt_shares > 0 => new.collateral_amount > 0,
         CollateralFollows(vault_types[vt].collateral_contract, vaults[v], new),
         paused /\ new.collateral_amount < vaults[v].collateral_amount => HandedOut(v, new),
         Liquidatable(new) => Liquidatable(vaults[v])
  PROVE  SafeStep
<1> DEFINE old == vaults[v]
<1>1. old \in VaultRecords /\ books[vt] \in BookRecords
  BY LiveVaultFacts
<1>2. /\ done.books \in BookRecords /\ done.split.principal \in Nat
      /\ done.vault.debt_shares \in Nat /\ done.vault.principal \in Nat
  BY <1>1, LiveRepaymentFacts DEF SafetyInv
<1>3. done.vault.auction_debt_snapshot \in Nat /\ done.vault.auction_principal_snapshot \in Nat
  <2>1. done.vault \in VaultRecords
    BY RepaidVaultFacts DEF SafetyInv
  <2> QED
    BY <2>1 DEF VaultRecords
<1>4. PaymentCounted(old, vt, done)
  BY <1>1, LiveRepaymentCounted DEF SafetyInv
<1>5. DebtsCounted(old, new, books[vt], done.books)
  <2>1. DebtsCounted(old, done.vault, books[vt], done.books)
    BY <1>4 DEF PaymentCounted
  <2> QED
    BY <1>1, <1>2, <1>3, <2>1, LessIsCounted
<1>6. \A a \in Accounts : auction_bids[<<v, a>>] = 0
  BY NoEscrow
<1> DEFINE burnt == done.split.principal
<1>7. /\ burnt \in Int /\ burnt >= 0
      /\ stable'.total_supply = stable.total_supply - burnt
  BY <1>2, PaidOutSupply DEF SafetyInv
<1>8. /\ done.books.principal_outstanding + done.books.auction_principal_locked
           = books[vt].principal_outstanding + books[vt].auction_principal_locked - burnt
      /\ done.books.bad_debt = books[vt].bad_debt
      /\ RateKept(vt, done.books)
  BY <1>4 DEF PaymentCounted
<1> HIDE DEF burnt
<1> QED
  BY <1>5, <1>6, <1>7, <1>8, UnauctionedCallIsSafe

LEMMA RepayIsSafe ==
  ASSUME SafetyInv, Inv', NEW caller \in Users, NEW v \in VaultIds, NEW amount \in Nat,
         repay(caller, v, amount)
  PROVE  SafeStep
<1> DEFINE old == vaults[v]
           vt == old.vault_type_id
           done == LiveRepayment(old, amount)
           new == done.vault
<1>1. /\ old.open /\ ~old.auction_open
      /\ vaults' = [vaults EXCEPT ![v] = new]
      /\ books' = [books EXCEPT ![vt] = done.books]
      /\ stable' = PaidOut(LedgerTransfer(stable, caller, con_vaults, amount), vt, done.split)
      /\ UNCHANGED <<now, price, collateral, vault_types, vault_type_count, vault_count,
                     auction_bids>>
  BY DEF repay, LiveVault
<1>2. /\ old \in VaultRecords /\ vt \in TypeIds
      /\ vault_types[vt].collateral_contract \in Collaterals /\ Secured(old)
  BY <1>1, LiveVaultFacts
<1>3. new.debt_shares <= old.debt_shares
  BY <1>2, LiveRepaymentCounted DEF SafetyInv, PaymentCounted
<1>4. /\ new = [old EXCEPT !.debt_shares = new.debt_shares, !.principal = new.principal]
      /\ new \in VaultRecords
      /\ new.vault_type_id = vt /\ ~new.auction_open
      /\ new.collateral_amount = old.collateral_amount
  BY <1>1, <1>2, LiveRepaymentFacts, RepaidVaultFacts DEF SafetyInv
<1>5. done = LiveRepayment(old, amount) /\ done.vault = new
  OBVIOUS
<1> HIDE DEF done, new
<1>6. new.open /\ old.collateral_amount \in Nat /\ old.debt_shares \in Nat /\ new.debt_shares \in Nat
      /\ new.principal \in Nat
      /\ new.auction_debt_snapshot \in Nat /\ new.auction_principal_snapshot \in Nat
  BY <1>1, <1>2, <1>4 DEF VaultRecords
<1>7. new.debt_shares > 0 => new.collateral_amount > 0
  BY <1>1, <1>2, <1>3, <1>4, <1>6 DEF Secured
<1>8. CollateralFollows(vault_types[vt].collateral_contract, old, new)
  <2>1. Held(new) <= Held(old)
    BY <1>1, <1>4, <1>6 DEF Held
  <2> QED
    BY <1>1, <1>2, <1>4, <2>1, CollateralStays
<1>9. Liquidatable(new) => Liquidatable(old)
  <2>1. new.collateral_amount >= old.collateral_amount
    BY <1>4, <1>6
  <2> QED
    BY <1>1, <1>2, <1>3, <1>4, <2>1, SaferVault
<1>10. /\ new.debt_shares <= done.vault.debt_shares /\ new.principal <= done.vault.principal
       /\ new.auction_debt_snapshot <= done.vault.auction_debt_snapshot
       /\ new.auction_principal_snapshot <= done.vault.auction_principal_snapshot
       /\ ~(new.collateral_amount < old.collateral_amount)
  BY <1>4, <1>5, <1>6
<1> QED
  BY <1>1, <1>2, <1>4, <1>5, <1>7, <1>8, <1>9, <1>10, RepaymentIsSafe

\* A record that is closed owes nothing.
LEMMA ClosedOwesNothing ==
  ASSUME NEW vault \in VaultRecords
  PROVE  LET new == close_vault_record(vault)
         IN  /\ new.debt_shares = 0 /\ new.principal = 0
             /\ new.auction_debt_snapshot = 0 /\ new.auction_principal_snapshot = 0
             /\ new.collateral_amount = 0
             /\ ~Liquidatable(new) /\ Held(new) = 0
  BY DEF close_vault_record, clear_auction, VaultRecords, Liquidatable, Held

\* What the contract holds of a token after it has paid another account.
LEMMA PaidFromContract ==
  ASSUME NEW balances \in [Accounts -> Nat], NEW to \in Users, NEW amount \in Nat
  PROVE  Moved(balances, con_vaults, to, amount)[con_vaults] = balances[con_vaults] - amount
<1>1. con_vaults \in Accounts /\ to \in Accounts /\ to # con_vaults
  BY AccountFacts, VaultsAssumption
<1> QED
  BY <1>1 DEF Moved

LEMMA CloseIsSafe ==
  ASSUME SafetyInv, Inv', NEW caller \in Users, NEW v \in VaultIds, close_vault(caller, v)
  PROVE  SafeStep
<1> DEFINE old == vaults[v]
           vt == old.vault_type_id
           c == CollateralOf(v)
           debt == vault_live_debt(old)
           done == LiveRepayment(old, debt)
           new == close_vault_record(done.vault)
<1>1. /\ old.open /\ ~old.auction_open
      /\ vaults' = [vaults EXCEPT ![v] = new]
      /\ books' = [books EXCEPT ![vt] = done.books]
      /\ stable' = PaidOut(LedgerTransfer(stable, caller, con_vaults, debt), vt, done.split)
      /\ collateral' = [collateral EXCEPT ![c] =
                           Moved(@, con_vaults, caller, old.collateral_amount)]
      /\ UNCHANGED <<now, price, vault_types, vault_type_count, vault_count, auction_bids>>
      /\ old.owner = caller
  BY DEF close_vault, OwnLiveVault, LiveVault
<1>2. /\ old \in VaultRecords /\ vt \in TypeIds /\ c \in Collaterals
      /\ c = vault_types[vt].collateral_contract
      /\ old.collateral_amount \in Nat /\ ~old.auction_settled
  BY <1>1, LiveVaultFacts DEF CollateralOf, VaultRecords
<1>3. debt \in Nat
  BY <1>2, SharesAreDebt
<1> HIDE DEF debt
<1>4. /\ done.vault \in VaultRecords /\ done.vault.vault_type_id = vt
      /\ ~done.vault.auction_settled
  BY <1>1, <1>2, <1>3, RepaidVaultFacts DEF SafetyInv
<1>5. done = LiveRepayment(old, debt)
  OBVIOUS
<1> HIDE DEF done
<1>6. /\ done.vault.debt_shares \in Nat /\ done.vault.principal \in Nat
      /\ done.vault.auction_debt_snapshot \in Nat
      /\ done.vault.auction_principal_snapshot \in Nat
  BY <1>4 DEF VaultRecords
<1>7. /\ new \in VaultRecords /\ new.vault_type_id = vt /\ ~new.open /\ ~new.auction_open
      /\ new.debt_shares = 0 /\ new.principal = 0
      /\ new.auction_debt_snapshot = 0 /\ new.auction_principal_snapshot = 0
      /\ ~Liquidatable(new) /\ Held(new) = 0 /\ ~new.auction_settled
  BY <1>4, ClosedRecordFacts, ClosedOwesNothing
<1> HIDE DEF new
<1>8. CollateralFollows(c, old, new)
  <2>1. caller \in Accounts /\ con_vaults \in Accounts /\ caller # con_vaults
    BY AccountFacts, VaultsAssumption
  <2>2. Held(new) <= Held(old) - old.collateral_amount
    BY <1>1, <1>2, <1>7 DEF Held
  <2> QED
    BY <1>1, <1>2, <1>7, <2>1, <2>2, CollateralMoves
<1>9. /\ new.debt_shares <= done.vault.debt_shares /\ new.principal <= done.vault.principal
      /\ new.auction_debt_snapshot <= done.vault.auction_debt_snapshot
      /\ new.auction_principal_snapshot <= done.vault.auction_principal_snapshot
      /\ ~(new.debt_shares > 0)
  BY <1>6, <1>7
<1>10. HandedOut(v, new)
  BY <1>1, <1>7, AllHandedOut
<1> QED
  BY <1>1, <1>2, <1>3, <1>5, <1>7, <1>8, <1>9, <1>10, RepaymentIsSafe

LEMMA LiquidateIsSafe ==
  ASSUME SafetyInv, Inv', NEW caller \in Users, NEW v \in VaultIds, NEW repay_amount \in Nat,
         liquidate(caller, v, repay_amount)
  PROVE  SafeStep
<1> DEFINE old == vaults[v]
           vt == old.vault_type_id
           c == CollateralOf(v)
           repaid == IF repay_amount = 0 THEN required_partial_repayment(old)
                     ELSE repay_amount
           collateral_paid == collateral_out_for_repayment(vt, repaid)
           done == LiveRepayment(old, repaid)
           left == [done.vault EXCEPT !.collateral_amount = @ - collateral_paid]
           remaining == vault_live_debt(left)
           closes == remaining <= DUST
           paid_out == Moved(collateral[c], con_vaults, caller, collateral_paid)
           new == IF closes THEN close_vault_record(left) ELSE left
<1>1. /\ old.open /\ ~old.auction_open /\ ~paused
      /\ required_partial_repayment(old) > 0
      /\ OracleAnswers(vt) /\ Liquidatable(old)
      /\ left.collateral_amount >= 0
      /\ collateral[c][con_vaults] >= collateral_paid
      /\ ~closes => MeetsMinRatio(vt, left.collateral_amount, remaining)
  BY DEF liquidate, Liquidation, Liquidatable, partial_possible, CanPay
<1>2. /\ vaults' = [vaults EXCEPT ![v] = new]
      /\ books' = [books EXCEPT ![vt] = done.books]
      /\ stable' = PaidOut(LedgerTransfer(stable, caller, con_vaults, repaid), vt, done.split)
  BY DEF liquidate, Liquidation
<1>3. /\ collateral' = [collateral EXCEPT ![c] =
                           IF closes
                           THEN Moved(paid_out, con_vaults, old.owner, left.collateral_amount)
                           ELSE paid_out]
      /\ UNCHANGED <<now, price, vault_types, vault_type_count, vault_count, auction_bids>>
  BY DEF liquidate, Liquidation
<1>4. /\ old \in VaultRecords /\ vt \in TypeIds /\ c \in Collaterals /\ c # NoOne
      /\ c = vault_types[vt].collateral_contract
      /\ old.collateral_amount \in Nat /\ old.owner \in Users
  BY <1>1, LiveVaultFacts DEF CollateralOf, VaultRecords
<1>5. repaid \in Nat
  BY <1>1, <1>4, RequiredRepaymentType DEF SafetyInv
<1> HIDE DEF repaid
<1>6. collateral_paid \in Nat
  BY <1>1, <1>4, <1>5, CollateralOutType DEF SafetyInv
<1> HIDE DEF collateral_paid
<1>7. /\ done.vault \in VaultRecords /\ done.vault.vault_type_id = vt
      /\ ~done.vault.auction_open /\ done.vault.collateral_amount = old.collateral_amount
      /\ done.vault.open = old.open
  <2>1. /\ done.vault \in VaultRecords /\ done.vault.vault_type_id = vt
        /\ ~done.vault.auction_open /\ done.vault.collateral_amount = old.collateral_amount
    BY <1>1, <1>5, RepaidVaultFacts DEF SafetyInv
  <2>2. done.vault = [old EXCEPT !.debt_shares = done.vault.debt_shares,
                                 !.principal = done.vault.principal]
    BY <1>4, <1>5, LiveRepaymentFacts DEF SafetyInv
  <2> HIDE DEF done
  <2>3. done.vault.open = old.open
    BY <1>4, <2>2 DEF VaultRecords
  <2> QED
    BY <2>1, <2>3
<1>8. done = LiveRepayment(old, repaid)
  OBVIOUS
<1> HIDE DEF done
<1> DEFINE rest == old.collateral_amount - collateral_paid
<1>9. left = [done.vault EXCEPT !.collateral_amount = rest] /\ left.collateral_amount = rest
  BY <1>7 DEF VaultRecords
<1>10. rest \in Nat /\ old.collateral_amount = rest + collateral_paid
  BY <1>1, <1>4, <1>6, <1>9
<1> HIDE DEF rest
<1>11. /\ left \in VaultRecords /\ left.vault_type_id = vt /\ ~left.auction_open /\ left.open
       /\ left.debt_shares = done.vault.debt_shares /\ left.principal = done.vault.principal
       /\ left.auction_debt_snapshot = done.vault.auction_debt_snapshot
       /\ left.auction_principal_snapshot = done.vault.auction_principal_snapshot
  <2> HIDE DEF left
  <2> QED
    BY <1>1, <1>7, <1>9, <1>10 DEF VaultRecords
<1> HIDE DEF left
<1>12. /\ left.debt_shares \in Nat /\ left.principal \in Nat
       /\ left.auction_debt_snapshot \in Nat /\ left.auction_principal_snapshot \in Nat
  BY <1>11 DEF VaultRecords
<1>13. remaining \in Nat /\ remaining >= left.debt_shares /\ remaining = vault_live_debt(left)
  BY <1>4, <1>11, SharesAreDebt
<1> HIDE DEF remaining
<1>14. /\ collateral[c] \in [Accounts -> Nat] /\ con_vaults \in Accounts
       /\ collateral \in [Collaterals -> [Accounts -> Nat]]
  BY <1>4, AccountFacts DEF SafetyInv, Inv, TypeOK
<1>15. /\ paid_out \in [Accounts -> Nat]
       /\ paid_out[con_vaults] = collateral[c][con_vaults] - collateral_paid
  BY <1>1, <1>6, <1>14, MovedType, PaidFromContract, AccountFacts
<1> HIDE DEF paid_out
<1>16. \A d \in Collaterals \ {c} : collateral'[d] = collateral[d]
  BY <1>3, <1>14
<1>17. collateral[c][con_vaults] \in Nat
  BY <1>14
<1>18. CASE closes
  <2>1. new = close_vault_record(left)
    BY <1>18
  <2> HIDE DEF new
  <2>2. /\ new \in VaultRecords /\ new.vault_type_id = vt /\ ~new.open /\ ~new.auction_open
        /\ new.debt_shares = 0 /\ new.principal = 0
        /\ new.auction_debt_snapshot = 0 /\ new.auction_principal_snapshot = 0
        /\ ~Liquidatable(new) /\ Held(new) = 0
    BY <1>11, <2>1, ClosedRecordFacts, ClosedOwesNothing
  <2>3. CollateralFollows(c, old, new)
    <3>1. collateral'[c] = Moved(paid_out, con_vaults, old.owner, left.collateral_amount)
      BY <1>3, <1>4, <1>14, <1>18
    <3>2. collateral'[c][con_vaults] = paid_out[con_vaults] - rest
      BY <1>4, <1>9, <1>10, <1>15, <3>1, PaidFromContract
    <3>3. Held(old) = rest + collateral_paid
      BY <1>1, <1>10 DEF Held
    <3>4. collateral'[c][con_vaults] - collateral[c][con_vaults] >= Held(new) - Held(old)
      BY <1>6, <1>10, <1>15, <1>17, <2>2, <3>2, <3>3
    <3> QED
      BY <1>16, <3>4 DEF CollateralFollows
  <2>4. /\ new.debt_shares <= done.vault.debt_shares /\ new.principal <= done.vault.principal
        /\ new.auction_debt_snapshot <= done.vault.auction_debt_snapshot
        /\ new.auction_principal_snapshot <= done.vault.auction_principal_snapshot
        /\ ~(new.debt_shares > 0)
    BY <1>11, <1>12, <2>2
  <2> QED
    BY <1>1, <1>2, <1>3, <1>4, <1>5, <1>8, <2>2, <2>3, <2>4, RepaymentIsSafe
<1>19. CASE ~closes
  <2>1. new = left
    BY <1>19
  <2> HIDE DEF new
  <2>2. MeetsMinRatio(vt, rest, remaining) /\ remaining > 0
    BY <1>1, <1>9, <1>13, <1>19, VaultsAssumption
  <2>3. ~Liquidatable(new)
    <3>1. new \in VaultRecords /\ new.vault_type_id = vt /\ new.collateral_amount = rest
          /\ vault_live_debt(new) <= remaining
      BY <1>9, <1>11, <1>13, <2>1
    <3> QED
      BY <1>4, <1>13, <2>2, <3>1, SafeAtMinRatio
  <2>4. rest > 0
    <3>1. /\ vault_types[vt].ratios.min_collateral_ratio_bps \in Nat
          /\ vault_types[vt].ratios.min_collateral_ratio_bps > 0
      BY <1>4, AddedTypeFacts
    <3> QED
      BY <1>4, <1>10, <1>13, <2>2, <3>1, CollateralNeeded DEF SafetyInv, MeetsMinRatio
  <2>5. CollateralFollows(c, old, new)
    <3>1. collateral'[c] = paid_out
      BY <1>3, <1>4, <1>14, <1>19
    <3>2. Held(old) = rest + collateral_paid /\ Held(new) = rest
      BY <1>1, <1>9, <1>10, <1>11, <2>1 DEF Held
    <3>3. collateral'[c][con_vaults] - collateral[c][con_vaults] >= Held(new) - Held(old)
      BY <1>6, <1>10, <1>15, <1>17, <3>1, <3>2
    <3> QED
      BY <1>16, <3>3 DEF CollateralFollows
  <2>6. /\ new.debt_shares <= done.vault.debt_shares /\ new.principal <= done.vault.principal
        /\ new.auction_debt_snapshot <= done.vault.auction_debt_snapshot
        /\ new.auction_principal_snapshot <= done.vault.auction_principal_snapshot
        /\ new.collateral_amount > 0
    BY <1>9, <1>11, <1>12, <2>1, <2>4
  <2>7. new \in VaultRecords /\ new.vault_type_id = vt /\ ~new.auction_open
    BY <1>11, <2>1
  <2> QED
    BY <1>1, <1>2, <1>3, <1>4, <1>5, <1>8, <2>3, <2>5, <2>6, <2>7, RepaymentIsSafe
<1> QED
  BY <1>18, <1>19

-----------------------------------------------------------------------------
(* Auctions. *)

LEMMA OpenAuctionIsSafe ==
  ASSUME SafetyInv, Inv', NEW v \in VaultIds, open_liquidation_auction(v)
  PROVE  SafeStep
<1> DEFINE old == vaults[v]
           vt == old.vault_type_id
           debt == vault_live_debt(old)
           end_time == now + vault_types[vt].auction.auction_duration_seconds
           base == accrued(vt)
           shares_total == base.normalized_debt_total - old.debt_shares
           principal_total == base.principal_outstanding - old.principal
           debt_locked == base.auction_debt_locked + debt
           principal_locked == base.auction_principal_locked + old.principal
           new == [old EXCEPT
                      !.debt_shares = 0, !.principal = 0,
                      !.auction_open = TRUE, !.auction_end_time = end_time,
                      !.auction_highest_bidder = NoOne, !.auction_highest_bid = 0,
                      !.auction_debt_snapshot = debt,
                      !.auction_principal_snapshot = old.principal]
           new_books == [base EXCEPT
                            !.normalized_debt_total = shares_total,
                            !.principal_outstanding = principal_total,
                            !.auction_debt_locked = debt_locked,
                            !.auction_principal_locked = principal_locked]
<1>1. /\ old.open /\ ~old.auction_open /\ ~paused /\ debt > 0
      /\ vaults' = [vaults EXCEPT ![v] = new]
      /\ books' = [books EXCEPT ![vt] = new_books]
      /\ UNCHANGED <<now, price, stable, collateral, vault_types, vault_type_count, vault_count,
                     auction_bids>>
  BY DEF open_liquidation_auction, Liquidatable, tokens
<1>2. /\ old \in VaultRecords /\ vt \in TypeIds /\ books[vt] \in BookRecords
      /\ vault_types[vt].collateral_contract \in Collaterals
      /\ Secured(old) /\ v <= vault_count /\ vt <= vault_type_count
  BY <1>1, LiveVaultFacts
<1>3. /\ old.debt_shares \in Nat /\ old.principal \in Nat /\ old.collateral_amount \in Nat
      /\ old.auction_debt_snapshot \in Nat /\ old.auction_principal_snapshot \in Nat
  BY <1>2 DEF VaultRecords
<1>4. debt \in Nat /\ old.collateral_amount > 0
  <2>1. debt \in Nat
    BY <1>2, SharesAreDebt
  <2>2. old.debt_shares = 0 => debt = 0
    <3>1. current_rate(vt) \in Nat
      BY <1>2, RateAtLeastOne
    <3>2. 0 * current_rate(vt) = 0
      BY <3>1, Z3
    <3>3. Mul(0, current_rate(vt)) = 0
      BY <3>2, Floor, QuotientAtLeast, QuotientBounded, ScaleAssumption DEF Mul
    <3> QED
      BY <3>3 DEF vault_live_debt
  <2>3. old.debt_shares > 0
    BY <1>1, <1>3, <2>2
  <2> QED
    BY <1>1, <1>2, <2>1, <2>3 DEF Secured
<1>5. /\ base.normalized_debt_total = books[vt].normalized_debt_total
      /\ base.principal_outstanding = books[vt].principal_outstanding
      /\ base.auction_debt_locked = books[vt].auction_debt_locked
      /\ base.auction_principal_locked = books[vt].auction_principal_locked
      /\ base.bad_debt = books[vt].bad_debt
      /\ RateKept(vt, base) /\ base \in BookRecords
  BY <1>2, AccruedCounts, AccruedFacts DEF SafetyInv
<1>6. shares_total \in Int /\ principal_total \in Int /\ debt_locked \in Int
      /\ principal_locked \in Int
  <2> HIDE DEF debt, base
  <2> QED
    BY <1>3, <1>4, <1>5 DEF BookRecords
<1>7. /\ shares_total = books[vt].normalized_debt_total - old.debt_shares
      /\ principal_total = books[vt].principal_outstanding - old.principal
      /\ debt_locked = books[vt].auction_debt_locked + debt
      /\ principal_locked = books[vt].auction_principal_locked + old.principal
  BY <1>5
<1> HIDE DEF debt, end_time, base, shares_total, principal_total, debt_locked, principal_locked
<1>8. /\ new_books.normalized_debt_total = shares_total
      /\ new_books.principal_outstanding = principal_total
      /\ new_books.auction_debt_locked = debt_locked
      /\ new_books.auction_principal_locked = principal_locked
      /\ new_books.bad_debt = base.bad_debt
      /\ new_books.rate_accumulator = base.rate_accumulator
      /\ new_books.last_rate_time = base.last_rate_time
  BY <1>5 DEF BookRecords
<1>9. /\ new.vault_type_id = vt /\ new.open /\ new.auction_open
      /\ new.debt_shares = 0 /\ new.principal = 0
      /\ new.collateral_amount = old.collateral_amount
      /\ new.auction_highest_bidder = NoOne /\ new.auction_highest_bid = 0
      /\ new.auction_debt_snapshot = debt /\ new.auction_principal_snapshot = old.principal
      /\ new.auction_settled = old.auction_settled
  BY <1>1, <1>2 DEF VaultRecords
<1> HIDE DEF new, new_books
<1>10. VaultCall(v, vt, new, new_books)
  BY <1>1, <1>2, <1>9 DEF VaultCall
<1>11. new \in VaultRecords /\ vaults'[v] = new
  BY <1>2, <1>10, CallTypes DEF SafetyInv
<1>12. /\ books[vt].normalized_debt_total \in Int /\ books[vt].principal_outstanding \in Int
       /\ books[vt].auction_debt_locked \in Int /\ books[vt].auction_principal_locked \in Int
       /\ books[vt].bad_debt \in Nat
  BY <1>2 DEF BookRecords
<1>13. DebtsCounted(old, new, books[vt], new_books)
  BY <1>3, <1>4, <1>7, <1>8, <1>9, <1>12 DEF DebtsCounted
<1>14. BackingKept(old, new, books[vt], new_books)
  <2>1. RoundingOf(old, new) = 0
    BY <1>9 DEF RoundingOf
  <2>2. stable.total_supply \in Nat /\ stable'.total_supply = stable.total_supply
    BY <1>1 DEF SafetyInv, Inv, TypeOK
  <2> QED
    BY <1>3, <1>5, <1>7, <1>8, <1>12, <2>1, <2>2 DEF BackingKept
<1>15. CollateralFollows(vault_types[vt].collateral_contract, old, new)
  <2>1. Held(new) <= Held(old)
    BY <1>1, <1>3, <1>9 DEF Held
  <2> QED
    BY <1>1, <1>2, <1>11, <2>1, CollateralStays
<1>16. Secured(new) /\ ~Liquidatable(new)
  BY <1>1, <1>9 DEF Secured, Liquidatable
<1>17. EscrowAgrees(v)' /\ OthersEscrowKept(v)
  <2>1. \A a \in Accounts : auction_bids[<<v, a>>] = 0
    BY <1>1, NoEscrow
  <2>2. \A a \in Accounts : auction_bids[<<v, a>>] <= 0
    BY <2>1
  <2> QED
    BY <1>1, <1>4, <1>9, <1>11, <2>2 DEF EscrowAgrees, OthersEscrowKept
<1>18. PauseRespected(v, new)
  BY <1>1 DEF PauseRespected
<1>19. RateKept(vt, new_books)
  BY <1>5, <1>8 DEF RateKept
<1> QED
  BY <1>2, <1>10, <1>13, <1>14, <1>15, <1>16, <1>17, <1>18, <1>19, VaultCallIsSafe

\* A bid that is accepted is no lower than the highest one.
LEMMA NextBidAtLeastHighest ==
  ASSUME Inv, NEW vault \in VaultRecords, vault.vault_type_id \in TypeIds
  PROVE  min_next_bid(vault) \in Int /\ min_next_bid(vault) >= vault.auction_highest_bid
<1> DEFINE highest == vault.auction_highest_bid
           factor == BPS_DENOMINATOR
                       + vault_types[vault.vault_type_id].auction.min_bid_increment_bps
<1>1. highest \in Nat
  BY DEF VaultRecords
<1>2. factor \in Nat /\ factor >= BPS_DENOMINATOR
      /\ BPS_DENOMINATOR \in Nat /\ BPS_DENOMINATOR > 0
  BY VaultsAssumption DEF Inv, TypeOK, TypeSettings, AuctionTerms
<1> HIDE DEF factor, highest
<1>3. highest * factor \in Nat /\ BPS_DENOMINATOR * highest <= highest * factor
  <2>1. highest * BPS_DENOMINATOR <= highest * factor
    BY <1>1, <1>2, ProductMonotonic
  <2>2. highest * BPS_DENOMINATOR = BPS_DENOMINATOR * highest
    BY <1>1, <1>2, Z3
  <2> QED
    BY <1>1, <1>2, <2>1, <2>2, ProductOfNats
<1>4. (highest * factor) \div BPS_DENOMINATOR \in Int
      /\ (highest * factor) \div BPS_DENOMINATOR >= highest
  BY <1>1, <1>2, <1>3, QuotientAtLeast, Floor
<1> QED
  BY <1>4 DEF min_next_bid, highest, factor

LEMMA TransferSupply ==
  ASSUME Inv, NEW from, NEW to, NEW amount
  PROVE  LedgerTransfer(stable, from, to, amount).total_supply = stable.total_supply
<1> DEFINE moved == Moved(stable.balances, from, to, amount)
<1>1. stable \in [balances : [Accounts -> Nat], total_supply : Nat]
  BY DEF Inv, TypeOK
<1>2. LedgerTransfer(stable, from, to, amount) = [stable EXCEPT !.balances = moved]
  BY DEF LedgerTransfer
<1> HIDE DEF moved
<1> QED
  BY <1>1, <1>2

LEMMA BidIsSafe ==
  ASSUME SafetyInv, Inv', NEW caller \in Users, NEW v \in VaultIds, NEW bid_amount \in Nat,
         bid(caller, v, bid_amount)
  PROVE  SafeStep
<1> DEFINE old == vaults[v]
           vt == old.vault_type_id
           terms == vault_types[vt].auction
           added == bid_amount - auction_bids[<<v, caller>>]
           end_time == old.auction_end_time
           extended == /\ terms.extension_window_seconds > 0
                       /\ end_time - now <= terms.extension_window_seconds
           new_end_time == IF extended THEN end_time + terms.bid_extension_seconds ELSE end_time
           new == [old EXCEPT !.auction_highest_bidder = caller,
                              !.auction_highest_bid = bid_amount,
                              !.auction_end_time = new_end_time]
<1>1. /\ old.open /\ old.auction_open
      /\ bid_amount >= min_next_bid(old)
      /\ stable' = LedgerTransfer(stable, caller, con_vaults, added)
      /\ auction_bids' = [auction_bids EXCEPT ![<<v, caller>>] = bid_amount]
      /\ vaults' = [vaults EXCEPT ![v] = new]
      /\ UNCHANGED <<now, price, collateral, vault_types, books, vault_type_count, vault_count>>
  BY DEF bid, types
<1>2. /\ old \in VaultRecords /\ vt \in TypeIds /\ books[vt] \in BookRecords
      /\ vault_types[vt].collateral_contract \in Collaterals
      /\ Secured(old) /\ EscrowAgrees(v) /\ v <= vault_count /\ vt <= vault_type_count
  BY <1>1, LiveVaultFacts
<1>3. /\ old.debt_shares \in Nat /\ old.principal \in Nat /\ old.collateral_amount \in Nat
      /\ old.auction_debt_snapshot \in Nat /\ old.auction_principal_snapshot \in Nat
      /\ old.auction_highest_bid \in Nat
  BY <1>2 DEF VaultRecords
<1> HIDE DEF new_end_time
<1>4. /\ new.vault_type_id = vt /\ new.open /\ new.auction_open
      /\ new.auction_highest_bidder = caller /\ new.auction_highest_bid = bid_amount
      /\ new.debt_shares = old.debt_shares /\ new.principal = old.principal
      /\ new.collateral_amount = old.collateral_amount
      /\ new.auction_debt_snapshot = old.auction_debt_snapshot
      /\ new.auction_principal_snapshot = old.auction_principal_snapshot
      /\ new.auction_settled = old.auction_settled
  BY <1>1, <1>2 DEF VaultRecords
<1> HIDE DEF new
<1>5. books' = [books EXCEPT ![vt] = books[vt]]
  BY <1>1, <1>2 DEF SafetyInv, Inv, TypeOK
<1>6. VaultCall(v, vt, new, books[vt])
  BY <1>1, <1>2, <1>4, <1>5 DEF VaultCall
<1>7. new \in VaultRecords /\ vaults'[v] = new
  BY <1>2, <1>6, CallTypes DEF SafetyInv
<1>8. /\ books[vt].normalized_debt_total \in Int /\ books[vt].principal_outstanding \in Int
      /\ books[vt].auction_debt_locked \in Int /\ books[vt].auction_principal_locked \in Int
      /\ books[vt].bad_debt \in Nat
  BY <1>2 DEF BookRecords
<1>9. DebtsCounted(old, new, books[vt], books[vt])
  BY <1>3, <1>4, <1>8 DEF DebtsCounted
<1>10. stable'.total_supply = stable.total_supply /\ stable.total_supply \in Nat
  BY <1>1, TransferSupply DEF SafetyInv, Inv, TypeOK
<1>11. BackingKept(old, new, books[vt], books[vt])
  <2>1. RoundingOf(old, new) = 0
    BY <1>4 DEF RoundingOf
  <2> QED
    BY <1>8, <1>10, <2>1 DEF BackingKept
<1>12. CollateralFollows(vault_types[vt].collateral_contract, old, new)
  <2>1. Held(new) <= Held(old)
    BY <1>1, <1>3, <1>4 DEF Held
  <2> QED
    BY <1>1, <1>2, <1>7, <2>1, CollateralStays
<1>13. Secured(new) /\ ~Liquidatable(new)
  BY <1>1, <1>2, <1>4 DEF Secured, Liquidatable
<1>14. auction_bids \in [VaultIds \X Accounts -> Nat] /\ caller \in Accounts
  BY AccountFacts DEF SafetyInv, Inv, TypeOK
<1>15. EscrowAgrees(v)'
  <2>1. bid_amount >= old.auction_highest_bid
    BY <1>1, <1>2, <1>3, NextBidAtLeastHighest DEF SafetyInv
  <2>2. ASSUME NEW a \in Accounts PROVE auction_bids'[<<v, a>>] <= bid_amount
    <3>1. CASE a = caller
      BY <1>1, <1>14, <3>1
    <3>2. CASE a # caller
      <4>1. auction_bids'[<<v, a>>] = auction_bids[<<v, a>>]
        BY <1>1, <1>14, <3>2
      <4>2. auction_bids[<<v, a>>] <= old.auction_highest_bid /\ auction_bids[<<v, a>>] \in Nat
        BY <1>1, <1>2, <1>14 DEF EscrowAgrees
      <4> QED
        BY <1>3, <2>1, <4>1, <4>2
    <3> QED
      BY <3>1, <3>2
  <2>3. auction_bids'[<<v, caller>>] = bid_amount
    BY <1>1, <1>14
  <2>4. old.debt_shares = 0 /\ old.principal = 0 /\ old.collateral_amount > 0
    BY <1>1, <1>2 DEF EscrowAgrees
  <2> QED
    BY <1>4, <1>7, <2>2, <2>3, <2>4 DEF EscrowAgrees
<1>16. OthersEscrowKept(v)
  BY <1>1, <1>14 DEF OthersEscrowKept
<1>17. PauseRespected(v, new)
  BY <1>1, <1>3, <1>4, <1>10 DEF PauseRespected
<1>18. RateKept(vt, books[vt])
  BY DEF RateKept
<1> QED
  BY <1>2, <1>6, <1>9, <1>11, <1>12, <1>13, <1>15, <1>16, <1>17, <1>18, VaultCallIsSafe

\* A frozen debt that becomes shares again is no more than it was.
LEMMA DebtOfItsShares ==
  ASSUME NEW debt \in Nat, NEW rate \in Nat, rate > 0
  PROVE  Mul(Div(debt, rate), rate) <= debt
<1>1. Mul(0 + Div(debt, rate), rate) <= Mul(0, rate) + debt
  BY MulAfterDiv
<1>2. 0 * rate = 0
  BY Z3
<1>3. Mul(0, rate) = 0
  BY <1>2, Floor, QuotientAtLeast, QuotientBounded, ScaleAssumption DEF Mul
<1>4. Div(debt, rate) \in Nat
  BY DivType
<1> QED
  BY <1>1, <1>3, <1>4

\* What goes back to the live totals when an auction ends without a bid.
LEMMA RestoredCounted ==
  ASSUME Inv, NEW vault \in VaultRecords, vault.vault_type_id \in TypeIds,
         NEW type_books \in BookRecords,
         vault.auction_debt_snapshot > 0, vault.debt_shares = 0, vault.principal = 0
  PROVE  LET new == RestoredVault(vault)
             new_books == RestoredBooks(vault, type_books)
         IN  /\ DebtsCounted(vault, new, type_books, new_books)
             /\ new_books.principal_outstanding + new_books.auction_principal_locked
                  = type_books.principal_outstanding + type_books.auction_principal_locked
             /\ new_books.bad_debt = type_books.bad_debt
             /\ RateKept(vault.vault_type_id, new_books)
             /\ new.collateral_amount = vault.collateral_amount
             /\ new.debt_shares = Div(vault.auction_debt_snapshot,
                                      current_rate(vault.vault_type_id))
<1> DEFINE vt == vault.vault_type_id
           rate == current_rate(vt)
           shares == Div(vault.auction_debt_snapshot, rate)
           cleared == clear_auction(vault)
           new == RestoredVault(vault)
           shares_total == type_books.normalized_debt_total + new.debt_shares
           principal_total == type_books.principal_outstanding + new.principal
           debt_locked == type_books.auction_debt_locked - vault.auction_debt_snapshot
           principal_locked == type_books.auction_principal_locked
                                 - vault.auction_principal_snapshot
           new_books == RestoredBooks(vault, type_books)
<1>1. /\ cleared \in VaultRecords
      /\ cleared.auction_debt_snapshot = 0 /\ cleared.auction_principal_snapshot = 0
      /\ cleared.collateral_amount = vault.collateral_amount
  BY DEF clear_auction, VaultRecords
<1>2. new = [cleared EXCEPT !.debt_shares = shares,
                            !.principal = vault.auction_principal_snapshot]
  <2>1. ~(vault.auction_debt_snapshot <= 0)
    BY VaultFieldTypes
  <2> QED
    BY <2>1 DEF RestoredVault
<1>3. new_books = [type_books EXCEPT
                      !.rate_accumulator = rate, !.last_rate_time = now,
                      !.auction_debt_locked = debt_locked,
                      !.auction_principal_locked = principal_locked,
                      !.normalized_debt_total = shares_total,
                      !.principal_outstanding = principal_total]
  BY DEF RestoredBooks
<1>4. rate \in Nat /\ rate > 0
  BY RateFacts
<1>5. shares \in Nat
  <2> HIDE DEF rate
  <2> QED
    BY <1>4, VaultFieldTypes, DivType
<1> HIDE DEF rate, shares, cleared, new
<1>6. /\ new.debt_shares = shares /\ new.principal = vault.auction_principal_snapshot
      /\ new.auction_debt_snapshot = 0 /\ new.auction_principal_snapshot = 0
      /\ new.collateral_amount = vault.collateral_amount
  BY <1>1, <1>2 DEF VaultRecords
<1> HIDE DEF shares_total, principal_total, debt_locked, principal_locked, new_books
<1>7. /\ new_books.normalized_debt_total = shares_total
      /\ new_books.principal_outstanding = principal_total
      /\ new_books.auction_debt_locked = debt_locked
      /\ new_books.auction_principal_locked = principal_locked
      /\ new_books.bad_debt = type_books.bad_debt
      /\ new_books.rate_accumulator = rate /\ new_books.last_rate_time = now
  BY <1>3 DEF BookRecords
<1>8. /\ type_books.normalized_debt_total \in Int /\ type_books.principal_outstanding \in Int
      /\ type_books.auction_debt_locked \in Int
      /\ type_books.auction_principal_locked \in Int
      /\ vault.auction_debt_snapshot \in Nat /\ vault.auction_principal_snapshot \in Nat
  BY VaultFieldTypes DEF BookRecords
<1>9. DebtsCounted(vault, new, type_books, new_books)
  BY <1>5, <1>6, <1>7, <1>8
     DEF DebtsCounted, shares_total, principal_total, debt_locked, principal_locked
<1>10. new_books.principal_outstanding + new_books.auction_principal_locked
         = type_books.principal_outstanding + type_books.auction_principal_locked
  BY <1>6, <1>7, <1>8 DEF principal_total, principal_locked
<1>11. RateKept(vt, new_books)
  BY <1>7 DEF RateKept, rate
<1> QED
  BY <1>6, <1>7, <1>9, <1>10, <1>11 DEF new, new_books, shares, rate

\* The restored vault is safe when its frozen debt met the ratio for new debt.
LEMMA RestoredIsSafe ==
  ASSUME SafetyInv, NEW vault \in VaultRecords, vault.vault_type_id \in TypeIds,
         vault_types[vault.vault_type_id].collateral_contract \in Collaterals,
         vault.auction_debt_snapshot > 0, vault.debt_shares = 0, vault.principal = 0,
         MeetsMinRatio(vault.vault_type_id, vault.collateral_amount, vault.auction_debt_snapshot)
  PROVE  ~Liquidatable(RestoredVault(vault))
<1> DEFINE vt == vault.vault_type_id
           rate == current_rate(vt)
           debt == vault.auction_debt_snapshot
           new == RestoredVault(vault)
<1>1. \E b \in BookRecords : TRUE
  BY DEF SafetyInv, Inv, TypeOK
<1>2. /\ new \in VaultRecords /\ new.vault_type_id = vt
      /\ new.collateral_amount = vault.collateral_amount
      /\ new.debt_shares = Div(debt, rate)
  BY <1>1, RestoredFacts, RestoredCounted DEF SafetyInv
<1>3. debt \in Nat
  BY VaultFieldTypes
<1>4. Mul(Div(debt, rate), rate) <= debt
  <2>1. rate \in Nat /\ rate > 0
    BY RateAtLeastOne
  <2> HIDE DEF rate, debt
  <2> QED
    BY <1>3, <2>1, DebtOfItsShares
<1>5. vault_live_debt(new) <= debt
  BY <1>2, <1>4 DEF vault_live_debt
<1> HIDE DEF new
<1>6. ~Liquidatable(new)
  BY <1>2, <1>3, <1>5, SafeAtMinRatio
<1> QED
  BY <1>6 DEF new

LEMMA CancelIsSafe ==
  ASSUME SafetyInv, Inv', NEW v \in VaultIds, cancel_auction_if_safe(v)
  PROVE  SafeStep
<1> DEFINE old == vaults[v]
           vt == old.vault_type_id
           new == RestoredVault(old)
           new_books == RestoredBooks(old, books[vt])
<1>1. /\ old.open /\ old.auction_open /\ old.auction_highest_bid <= 0
      /\ MeetsMinRatio(vt, old.collateral_amount, old.auction_debt_snapshot)
      /\ vaults' = [vaults EXCEPT ![v] = new]
      /\ books' = [books EXCEPT ![vt] = new_books]
      /\ UNCHANGED <<now, price, stable, collateral, vault_types, vault_type_count, vault_count,
                     auction_bids>>
  BY DEF cancel_auction_if_safe, tokens
<1>2. /\ old \in VaultRecords /\ vt \in TypeIds /\ books[vt] \in BookRecords
      /\ vault_types[vt].collateral_contract \in Collaterals
      /\ Secured(old) /\ EscrowAgrees(v)
  BY <1>1, LiveVaultFacts
<1>3. /\ old.debt_shares = 0 /\ old.principal = 0 /\ old.collateral_amount > 0
      /\ old.auction_debt_snapshot > 0
  BY <1>1, <1>2 DEF EscrowAgrees, Secured
<1>4. /\ new \in VaultRecords /\ new.vault_type_id = vt /\ ~new.auction_open
      /\ new.open = old.open
  BY <1>2, RestoredFacts DEF SafetyInv
<1>5. /\ DebtsCounted(old, new, books[vt], new_books)
      /\ new_books.principal_outstanding + new_books.auction_principal_locked
           = books[vt].principal_outstanding + books[vt].auction_principal_locked
      /\ new_books.bad_debt = books[vt].bad_debt
      /\ RateKept(vt, new_books)
      /\ new.collateral_amount = old.collateral_amount
  BY <1>2, <1>3, RestoredCounted DEF SafetyInv
<1>6. ~Liquidatable(new)
  BY <1>1, <1>2, <1>3, RestoredIsSafe
<1> HIDE DEF new, new_books
<1>7. old.collateral_amount \in Nat
  BY <1>2 DEF VaultRecords
<1>8. CollateralFollows(vault_types[vt].collateral_contract, old, new)
  <2>1. Held(new) <= Held(old)
    BY <1>1, <1>4, <1>5, <1>7 DEF Held
  <2> QED
    BY <1>1, <1>2, <1>4, <2>1, CollateralStays
<1>9. \A a \in Accounts : auction_bids[<<v, a>>] = 0
  BY <1>1, NoEscrow
<1> DEFINE burnt == 0
<1>10. /\ burnt \in Int /\ burnt >= 0
       /\ stable'.total_supply = stable.total_supply - burnt
       /\ new_books.principal_outstanding + new_books.auction_principal_locked
            = books[vt].principal_outstanding + books[vt].auction_principal_locked - burnt
  BY <1>1, <1>2, <1>5 DEF SafetyInv, Inv, TypeOK, BookRecords
<1> HIDE DEF burnt
<1>11. new.collateral_amount > 0 /\ ~(new.collateral_amount < old.collateral_amount)
  BY <1>3, <1>5, <1>7
<1> QED
  BY <1>1, <1>2, <1>4, <1>5, <1>6, <1>8, <1>9, <1>10, <1>11, UnauctionedCallIsSafe

\* What the owner of an auctioned vault pays is counted as any other payment.
LEMMA CurePaymentCounted ==
  ASSUME SafetyInv, NEW v \in VaultIds, vaults[v].open, vaults[v].auction_open, NEW amount \in Nat
  PROVE  LET vt == vaults[v].vault_type_id
             done == IF amount > 0 THEN AuctionRepayment(vaults[v], amount)
                     ELSE [vault |-> vaults[v], books |-> books[vt], split |-> NoPayment]
         IN  /\ PaymentCounted(vaults[v], vt, done)
             /\ done.vault.debt_shares = 0 /\ done.vault.principal = 0
             /\ done.vault.collateral_amount = vaults[v].collateral_amount
             /\ done.vault.open
             /\ done.vault \in VaultRecords /\ done.vault.vault_type_id = vt
             /\ done.books \in BookRecords /\ done.split.principal \in Nat
<1> DEFINE old == vaults[v]
           vt == old.vault_type_id
           payment == AuctionRepayment(old, amount)
           nothing == [vault |-> old, books |-> books[vt], split |-> NoPayment]
           done == IF amount > 0 THEN payment ELSE nothing
           Right(d) == /\ PaymentCounted(old, vt, d)
                       /\ d.vault.debt_shares = 0 /\ d.vault.principal = 0
                       /\ d.vault.collateral_amount = old.collateral_amount
                       /\ d.vault.open
<1>1. /\ old \in VaultRecords /\ vt \in TypeIds /\ books[vt] \in BookRecords
      /\ old.debt_shares = 0 /\ old.principal = 0
  BY LiveVaultFacts DEF EscrowAgrees
<1>2. Right(payment)
  <2>1. PaymentCounted(old, vt, payment)
    BY <1>1, AuctionRepaymentCounted DEF SafetyInv
  <2>2. payment.vault = [old EXCEPT
              !.auction_debt_snapshot = payment.vault.auction_debt_snapshot,
              !.auction_principal_snapshot = payment.vault.auction_principal_snapshot]
    BY <1>1, AuctionRepaymentFacts DEF SafetyInv
  <2> HIDE DEF payment
  <2>3. /\ payment.vault.debt_shares = 0 /\ payment.vault.principal = 0
        /\ payment.vault.collateral_amount = old.collateral_amount
        /\ payment.vault.open
    BY <1>1, <2>2 DEF VaultRecords
  <2> QED
    BY <2>1, <2>3
<1>3. Right(nothing)
  <2>1. /\ nothing.vault = old /\ nothing.books = books[vt] /\ nothing.split.principal = 0
    BY DEF NoPayment
  <2>2. /\ books[vt].normalized_debt_total \in Int /\ books[vt].principal_outstanding \in Int
        /\ books[vt].auction_debt_locked \in Int /\ books[vt].auction_principal_locked \in Int
    BY <1>1 DEF BookRecords
  <2>3. /\ old.debt_shares \in Nat /\ old.principal \in Nat
        /\ old.auction_debt_snapshot \in Nat /\ old.auction_principal_snapshot \in Nat
    BY <1>1, VaultFieldTypes
  <2> HIDE DEF nothing
  <2>4. DebtsCounted(old, old, books[vt], books[vt])
    BY <2>2, <2>3 DEF DebtsCounted
  <2>5. RateKept(vt, books[vt])
    BY DEF RateKept
  <2>6. PaymentCounted(old, vt, nothing)
    BY <2>1, <2>2, <2>3, <2>4, <2>5 DEF PaymentCounted
  <2> QED
    BY <1>1, <2>1, <2>6
<1>4. /\ done.vault \in VaultRecords /\ done.vault.vault_type_id = vt
      /\ done.books \in BookRecords /\ done.split.principal \in Nat
  BY CurePaymentFacts DEF SafetyInv
<1> HIDE DEF payment, nothing, Right
<1>5. Right(done)
  BY <1>2, <1>3
<1> QED
  BY ONLY <1>4, <1>5 DEF Right, done, payment, nothing

\* What is counted of two steps in a row is counted of both together.
LEMMA CountedTwice ==
  ASSUME NEW old \in VaultRecords, NEW mid \in VaultRecords, NEW new \in VaultRecords,
         NEW old_books \in BookRecords, NEW mid_books \in BookRecords,
         NEW new_books \in BookRecords,
         DebtsCounted(old, mid, old_books, mid_books),
         DebtsCounted(mid, new, mid_books, new_books)
  PROVE  DebtsCounted(old, new, old_books, new_books)
<1>1. \A vault \in VaultRecords :
         /\ vault.debt_shares \in Int /\ vault.principal \in Int
         /\ vault.auction_debt_snapshot \in Int /\ vault.auction_principal_snapshot \in Int
  BY DEF VaultRecords
<1>2. \A b \in BookRecords :
         /\ b.normalized_debt_total \in Int /\ b.principal_outstanding \in Int
         /\ b.auction_debt_locked \in Int /\ b.auction_principal_locked \in Int
  BY DEF BookRecords
<1> QED
  BY <1>1, <1>2 DEF DebtsCounted

LEMMA CureIsSafe ==
  ASSUME SafetyInv, Inv', NEW caller \in Users, NEW v \in VaultIds, NEW amount \in Nat,
         cure_auction(caller, v, amount)
  PROVE  SafeStep
<1> DEFINE old == vaults[v]
           vt == old.vault_type_id
           c == CollateralOf(v)
           done == IF amount > 0 THEN AuctionRepayment(old, amount)
                   ELSE [vault |-> old, books |-> books[vt], split |-> NoPayment]
           closed == close_vault_record(done.vault)
           restored == RestoredVault(done.vault)
           restored_books == RestoredBooks(done.vault, done.books)
           burnt == done.split.principal
           debt_left == done.vault.auction_debt_snapshot
<1>1. /\ old.open /\ old.auction_open /\ old.auction_highest_bid <= 0
      /\ stable' = PaidOut(LedgerTransfer(stable, caller, con_vaults, amount), vt, done.split)
      /\ UNCHANGED <<now, price, vault_types, vault_type_count, vault_count, auction_bids>>
      /\ old.owner = caller
  BY DEF cure_auction
<1>2. \/ /\ collateral' = [collateral EXCEPT ![c] =
                              Moved(@, con_vaults, caller, old.collateral_amount)]
         /\ vaults' = [vaults EXCEPT ![v] = closed]
         /\ books' = [books EXCEPT ![vt] = done.books]
      \/ /\ debt_left > 0
         /\ MeetsMinRatio(vt, old.collateral_amount, debt_left)
         /\ vaults' = [vaults EXCEPT ![v] = restored]
         /\ books' = [books EXCEPT ![vt] = restored_books]
         /\ UNCHANGED collateral
  BY DEF cure_auction
<1>3. /\ old \in VaultRecords /\ vt \in TypeIds /\ books[vt] \in BookRecords
      /\ c \in Collaterals /\ c = vault_types[vt].collateral_contract
      /\ old.collateral_amount \in Nat /\ old.collateral_amount > 0 /\ ~old.auction_settled
  BY <1>1, LiveVaultFacts DEF CollateralOf, VaultRecords, EscrowAgrees
<1>4. /\ PaymentCounted(old, vt, done)
      /\ done.vault.debt_shares = 0 /\ done.vault.principal = 0
      /\ done.vault.collateral_amount = old.collateral_amount /\ done.vault.open
      /\ done.vault \in VaultRecords /\ done.vault.vault_type_id = vt
      /\ done.books \in BookRecords /\ burnt \in Nat
      /\ done.vault.auction_settled = old.auction_settled
  BY <1>1, CurePaymentCounted, CurePaymentFacts DEF SafetyInv
<1> HIDE DEF done
<1>5. stable'.total_supply = stable.total_supply - burnt /\ burnt \in Int /\ burnt >= 0
  BY <1>1, <1>4, PaidOutSupply DEF SafetyInv
<1>6. /\ DebtsCounted(old, done.vault, books[vt], done.books)
      /\ done.books.principal_outstanding + done.books.auction_principal_locked
           = books[vt].principal_outstanding + books[vt].auction_principal_locked - burnt
      /\ done.books.bad_debt = books[vt].bad_debt
      /\ RateKept(vt, done.books)
  BY <1>4 DEF PaymentCounted
<1>7. \A a \in Accounts : auction_bids[<<v, a>>] = 0
  BY <1>1, NoEscrow
<1>8. /\ done.vault.debt_shares \in Nat /\ done.vault.principal \in Nat
      /\ done.vault.auction_debt_snapshot \in Nat
      /\ done.vault.auction_principal_snapshot \in Nat
  BY <1>4 DEF VaultRecords
<1> HIDE DEF burnt
<1>9. CASE /\ collateral' = [collateral EXCEPT ![c] =
                                Moved(@, con_vaults, caller, old.collateral_amount)]
           /\ vaults' = [vaults EXCEPT ![v] = closed]
           /\ books' = [books EXCEPT ![vt] = done.books]
  <2>1. /\ closed \in VaultRecords /\ closed.vault_type_id = vt
        /\ ~closed.open /\ ~closed.auction_open
        /\ closed.debt_shares = 0 /\ closed.principal = 0
        /\ closed.auction_debt_snapshot = 0 /\ closed.auction_principal_snapshot = 0
        /\ ~Liquidatable(closed) /\ Held(closed) = 0 /\ ~closed.auction_settled
    BY <1>3, <1>4, ClosedRecordFacts, ClosedOwesNothing
  <2> HIDE DEF closed
  <2>2. CollateralFollows(c, old, closed)
    <3>1. caller \in Accounts /\ con_vaults \in Accounts /\ caller # con_vaults
      BY AccountFacts, VaultsAssumption
    <3>2. Held(closed) <= Held(old) - old.collateral_amount
      BY <1>1, <1>3, <2>1 DEF Held
    <3> QED
      BY <1>3, <1>9, <2>1, <3>1, <3>2, CollateralMoves
  <2>3. DebtsCounted(old, closed, books[vt], done.books)
    <3>1. /\ closed.debt_shares <= done.vault.debt_shares
          /\ closed.principal <= done.vault.principal
          /\ closed.auction_debt_snapshot <= done.vault.auction_debt_snapshot
          /\ closed.auction_principal_snapshot <= done.vault.auction_principal_snapshot
      BY <1>8, <2>1
    <3> QED
      BY <1>3, <1>4, <1>6, <1>8, <2>1, <3>1, LessIsCounted
  <2>4. ~(closed.debt_shares > 0)
    BY <2>1
  <2>5. HandedOut(v, closed)
    BY <1>1, <1>9, <2>1, AllHandedOut
  <2> QED
    BY <1>1, <1>3, <1>5, <1>6, <1>7, <1>9, <2>1, <2>2, <2>3, <2>4, <2>5, UnauctionedCallIsSafe
<1>10. CASE /\ debt_left > 0
            /\ MeetsMinRatio(vt, old.collateral_amount, debt_left)
            /\ vaults' = [vaults EXCEPT ![v] = restored]
            /\ books' = [books EXCEPT ![vt] = restored_books]
            /\ UNCHANGED collateral
  <2>1. /\ restored \in VaultRecords /\ restored.vault_type_id = vt /\ ~restored.auction_open
        /\ restored.open = done.vault.open /\ restored_books \in BookRecords
    BY <1>3, <1>4, RestoredFacts DEF SafetyInv
  <2>2. /\ DebtsCounted(done.vault, restored, done.books, restored_books)
        /\ restored_books.principal_outstanding + restored_books.auction_principal_locked
             = done.books.principal_outstanding + done.books.auction_principal_locked
        /\ restored_books.bad_debt = done.books.bad_debt
        /\ RateKept(vt, restored_books)
        /\ restored.collateral_amount = old.collateral_amount
    BY <1>3, <1>4, <1>10, RestoredCounted DEF SafetyInv
  <2>3. ~Liquidatable(restored)
    BY <1>3, <1>4, <1>10, RestoredIsSafe
  <2> HIDE DEF restored, restored_books
  <2>4. DebtsCounted(old, restored, books[vt], restored_books)
    BY <1>3, <1>4, <1>6, <2>1, <2>2, CountedTwice
  <2>5. CollateralFollows(c, old, restored)
    <3>1. Held(restored) <= Held(old)
      BY <1>1, <1>3, <1>4, <2>1, <2>2 DEF Held
    <3> QED
      BY <1>3, <1>10, <2>1, <3>1, CollateralStays
  <2>6. /\ restored.collateral_amount > 0
        /\ ~(restored.collateral_amount < old.collateral_amount)
    BY <1>3, <2>2
  <2>7. /\ restored_books.principal_outstanding + restored_books.auction_principal_locked
             = books[vt].principal_outstanding + books[vt].auction_principal_locked - burnt
        /\ restored_books.bad_debt = books[vt].bad_debt
    BY <1>6, <2>2
  <2> QED
    BY <1>1, <1>3, <1>5, <1>7, <1>10, <2>1, <2>2, <2>3, <2>4, <2>5, <2>6, <2>7,
       UnauctionedCallIsSafe
<1> QED
  BY <1>2, <1>9, <1>10

-----------------------------------------------------------------------------
(* Settlement. *)

\* The principal a bid does not burn is bad debt, or was never frozen as debt.
LEMMA SplitCovered ==
  ASSUME NEW debt \in Nat, NEW principal \in Nat, NEW amount \in Nat
  PROVE  principal - split_payment(debt, principal, amount).principal
            <= AtLeastZero(debt - amount) + AtLeastZero(principal - debt)
<1> DEFINE fee == AtMost(amount, AtLeastZero(debt - principal))
           burnt == AtMost(amount - fee, principal)
<1>1. split_payment(debt, principal, amount).principal = burnt
  BY DEF split_payment
<1>2. fee \in Nat /\ fee <= amount /\ fee <= AtLeastZero(debt - principal)
  BY DEF AtMost, AtLeastZero
<1>3. burnt = principal \/ burnt = amount - fee
  BY DEF AtMost
<1> HIDE DEF fee, burnt
<1> QED
  BY <1>1, <1>2, <1>3 DEF AtLeastZero

LEMMA SettleIsSafe ==
  ASSUME SafetyInv, Inv', NEW v \in VaultIds, settle_auction(v)
  PROVE  SafeStep
<1> DEFINE old == vaults[v]
           vt == old.vault_type_id
           c == CollateralOf(v)
           debt == old.auction_debt_snapshot
           principal == old.auction_principal_snapshot
           winner == old.auction_highest_bidder
           winning_bid == old.auction_highest_bid
           split == split_payment(debt, principal, winning_bid)
           excess == winning_bid - split.fee - split.principal
           paid == PaidOut(stable, vt, split)
           kept == buffer_amount(vt, split.fee)
           loss == AtLeastZero(debt - winning_bid)
           closed == close_vault_record(old)
           new == [closed EXCEPT !.auction_settled = TRUE]
           new_books == [books[vt] EXCEPT
                            !.auction_debt_locked = @ - debt,
                            !.auction_principal_locked = @ - principal,
                            !.surplus_buffer = @ + kept,
                            !.bad_debt = @ + loss]
<1>1. /\ old.open /\ old.auction_open /\ winner # NoOne
      /\ auction_bids' = [auction_bids EXCEPT ![<<v, winner>>] = 0]
      /\ vaults' = [vaults EXCEPT ![v] = new]
      /\ books' = [books EXCEPT ![vt] = new_books]
      /\ stable' = LedgerTransfer(paid, con_vaults, old.owner, excess)
  BY DEF settle_auction
<1>2. /\ collateral' = [collateral EXCEPT ![c] =
                           Moved(@, con_vaults, winner, old.collateral_amount)]
      /\ UNCHANGED <<now, price, vault_types, vault_type_count, vault_count>>
  BY DEF settle_auction
<1>3. /\ old \in VaultRecords /\ vt \in TypeIds /\ books[vt] \in BookRecords
      /\ c \in Collaterals /\ c = vault_types[vt].collateral_contract
      /\ EscrowAgrees(v) /\ v <= vault_count /\ vt <= vault_type_count /\ ~old.auction_settled
  BY <1>1, LiveVaultFacts DEF CollateralOf
<1>4. /\ debt \in Nat /\ principal \in Nat /\ winning_bid \in Nat
      /\ winner \in Users /\ old.collateral_amount \in Nat
      /\ old.debt_shares \in Nat /\ old.principal \in Nat
      /\ old.debt_shares = 0 /\ old.principal = 0
  BY <1>1, <1>3 DEF VaultRecords, EscrowAgrees
<1> HIDE DEF loss, kept
<1>5. /\ new_books.normalized_debt_total = books[vt].normalized_debt_total
      /\ new_books.principal_outstanding = books[vt].principal_outstanding
      /\ new_books.auction_debt_locked = books[vt].auction_debt_locked - debt
      /\ new_books.auction_principal_locked = books[vt].auction_principal_locked - principal
      /\ new_books.bad_debt = books[vt].bad_debt + loss
      /\ new_books.rate_accumulator = books[vt].rate_accumulator
      /\ new_books.last_rate_time = books[vt].last_rate_time
  <2> DEFINE base == books[vt]
  <2> HIDE DEF debt, principal, base
  <2>1. base \in BookRecords
    BY <1>3 DEF base
  <2>2. new_books = [base EXCEPT !.auction_debt_locked = @ - debt,
                                 !.auction_principal_locked = @ - principal,
                                 !.surplus_buffer = @ + kept,
                                 !.bad_debt = @ + loss]
    BY DEF base
  <2> HIDE DEF new_books
  <2>3. /\ new_books.normalized_debt_total = base.normalized_debt_total
        /\ new_books.principal_outstanding = base.principal_outstanding
        /\ new_books.auction_debt_locked = base.auction_debt_locked - debt
        /\ new_books.auction_principal_locked = base.auction_principal_locked - principal
        /\ new_books.bad_debt = base.bad_debt + loss
        /\ new_books.rate_accumulator = base.rate_accumulator
        /\ new_books.last_rate_time = base.last_rate_time
    BY <2>1, <2>2 DEF BookRecords
  <2> QED
    BY <2>3 DEF base
<1> HIDE DEF new_books
<1>6. /\ new.vault_type_id = vt /\ ~new.open /\ ~new.auction_open /\ new.auction_settled
      /\ new.debt_shares = 0 /\ new.principal = 0
      /\ new.auction_debt_snapshot = 0 /\ new.auction_principal_snapshot = 0
      /\ ~Liquidatable(new) /\ Held(new) = 0
  <2>1. /\ closed \in VaultRecords /\ closed.vault_type_id = vt
        /\ ~closed.open /\ ~closed.auction_open
        /\ closed.debt_shares = 0 /\ closed.principal = 0
        /\ closed.auction_debt_snapshot = 0 /\ closed.auction_principal_snapshot = 0
    BY <1>3, ClosedRecordFacts, ClosedOwesNothing
  <2> HIDE DEF closed
  <2> QED
    BY <2>1 DEF VaultRecords, Liquidatable, Held
<1> HIDE DEF new
<1>7. VaultCall(v, vt, new, new_books)
  BY <1>1, <1>2, <1>3, <1>6 DEF VaultCall
<1>8. new \in VaultRecords /\ vaults'[v] = new /\ new_books \in BookRecords
  BY <1>3, <1>7, CallTypes DEF SafetyInv
<1>9. /\ books[vt].normalized_debt_total \in Int /\ books[vt].principal_outstanding \in Int
      /\ books[vt].auction_debt_locked \in Int /\ books[vt].auction_principal_locked \in Int
      /\ books[vt].bad_debt \in Nat
  BY <1>3 DEF BookRecords
<1>10. DebtsCounted(old, new, books[vt], new_books)
  BY <1>4, <1>5, <1>6, <1>9 DEF DebtsCounted
<1>11. stable'.total_supply = stable.total_supply - split.principal
  <2>1. paid.total_supply = stable.total_supply - split.principal
    BY PaidOutSupply DEF SafetyInv
  <2>2. paid = [balances |-> paid.balances, total_supply |-> paid.total_supply]
    BY DEF paid, PaidOut, LedgerBurn
  <2> HIDE DEF paid
  <2>3. stable'.total_supply = paid.total_supply
    BY <1>1, <2>2 DEF LedgerTransfer
  <2> QED
    BY <2>1, <2>3
<1>12. BackingKept(old, new, books[vt], new_books)
  <2>1. RoundingOf(old, new) = AtLeastZero(principal - debt)
    BY <1>3, <1>6 DEF RoundingOf
  <2>2. /\ split.principal \in Nat
        /\ principal - split.principal <= loss + AtLeastZero(principal - debt)
    BY <1>4, SplitFacts, SplitCovered DEF loss
  <2>3. loss \in Nat /\ AtLeastZero(principal - debt) \in Nat
    BY <1>4 DEF loss, AtLeastZero
  <2>4. stable.total_supply \in Nat
    BY DEF SafetyInv, Inv, TypeOK
  <2> HIDE DEF split, debt, principal
  <2>5. principal \in Nat
    BY <1>4 DEF principal
  <2> QED
    BY <1>5, <1>9, <1>11, <2>1, <2>2, <2>3, <2>4, <2>5 DEF BackingKept
<1>13. CollateralFollows(c, old, new)
  <2>1. winner \in Accounts /\ con_vaults \in Accounts /\ winner # con_vaults
    BY <1>4, AccountFacts, VaultsAssumption
  <2>2. Held(new) <= Held(old) - old.collateral_amount
    BY <1>1, <1>4, <1>6 DEF Held
  <2> QED
    BY <1>2, <1>3, <1>4, <1>8, <2>1, <2>2, CollateralMoves
<1>14. Secured(new) /\ RateKept(vt, new_books)
  BY <1>5, <1>6 DEF Secured, RateKept
<1>15. EscrowAgrees(v)'
  BY <1>6, <1>8 DEF EscrowAgrees
<1>16. OthersEscrowKept(v)
  BY <1>1 DEF OthersEscrowKept, SafetyInv, Inv, TypeOK
<1>17. PauseRespected(v, new)
  <2>1. split.principal \in Nat /\ stable.total_supply \in Nat
    BY <1>4, SplitFacts DEF SafetyInv, Inv, TypeOK
  <2> HIDE DEF split
  <2>2. stable'.total_supply <= stable.total_supply
    BY <1>11, <2>1
  <2>3. HandedOut(v, new)
    BY <1>1, <1>2, <1>4, <1>6, AllHandedOut
  <2> QED
    BY <1>6, <2>2, <2>3 DEF PauseRespected
<1> QED
  BY <1>3, <1>6, <1>7, <1>10, <1>12, <1>13, <1>14, <1>15, <1>16, <1>17, VaultCallIsSafe

-----------------------------------------------------------------------------
(* Steps that leave every vault and all collateral as they are. *)

\* A type whose totals stay, or one that starts without any vault of its own.
TotalsKept(t) ==
    \/ /\ books'[t].normalized_debt_total = books[t].normalized_debt_total
       /\ books'[t].principal_outstanding = books[t].principal_outstanding
       /\ books'[t].auction_debt_locked = books[t].auction_debt_locked
       /\ books'[t].auction_principal_locked = books[t].auction_principal_locked
    \/ /\ t > vault_type_count
       /\ books'[t].normalized_debt_total = 0 /\ books'[t].principal_outstanding = 0
       /\ books'[t].auction_debt_locked = 0 /\ books'[t].auction_principal_locked = 0

LEMMA TotalsStay ==
  ASSUME SafetyInv, vaults' = vaults, \A t \in TypeIds : TotalsKept(t)
  PROVE  TotalsCoverVaults'
<1>1. TotalsCoverVaults' <=> AllCovered'
  BY TotalsAsMaps, PTL
<1> SUFFICES ASSUME NEW t \in TypeIds PROVE CoveredIn(books', vaults, t)
  BY <1>1 DEF AllCovered
<1>2. CoveredIn(books, vaults, t)
  BY TotalsAsMaps DEF SafetyInv, AllCovered
<1>3. CASE /\ books'[t].normalized_debt_total = books[t].normalized_debt_total
           /\ books'[t].principal_outstanding = books[t].principal_outstanding
           /\ books'[t].auction_debt_locked = books[t].auction_debt_locked
           /\ books'[t].auction_principal_locked = books[t].auction_principal_locked
  BY <1>2, <1>3 DEF CoveredIn, DebtTotals, PrincipalTotals, FrozenDebtTotals,
                    FrozenPrincipalTotals
<1>4. CASE /\ t > vault_type_count
           /\ books'[t].normalized_debt_total = 0 /\ books'[t].principal_outstanding = 0
           /\ books'[t].auction_debt_locked = 0 /\ books'[t].auction_principal_locked = 0
  <2>1. \A v \in VaultIds : TypesIn(vaults)[v] # t
    <3>1. ASSUME NEW v \in VaultIds PROVE vaults[v].vault_type_id # t
      <4>1. vaults[v].vault_type_id <= vault_type_count
        BY DEF SafetyInv, Recorded, VaultRecorded
      <4>2. vault_type_count \in Int /\ t \in Int
        BY DEF SafetyInv, Inv, TypeOK, TypeIds
      <4> QED
        BY <1>4, <4>1, <4>2
    <3> QED
      BY <3>1 DEF TypesIn
  <2>2. \A amount : Selected(TypesIn(vaults), amount, t) = [v \in VaultIds |-> 0]
    BY <2>1 DEF Selected
  <2>3. \A amount : Total(Selected(TypesIn(vaults), amount, t)) = 0
    BY <2>2, TotalZero
  <2>4. /\ DebtTotals(books')[t] = 0 /\ PrincipalTotals(books')[t] = 0
        /\ FrozenDebtTotals(books')[t] = 0 /\ FrozenPrincipalTotals(books')[t] = 0
    BY <1>4 DEF DebtTotals, PrincipalTotals, FrozenDebtTotals, FrozenPrincipalTotals
  <2> QED
    BY <2>3, <2>4 DEF CoveredIn
<1> QED
  BY <1>3, <1>4 DEF TotalsKept

LEMMA QuietStepIsSafe ==
  ASSUME SafetyInv, Inv', UNCHANGED <<vaults, vault_count, collateral>>,
         vault_type_count' >= vault_type_count,
         \A t \in TypeIds : t <= vault_type_count =>
            vault_types'[t].collateral_contract = vault_types[t].collateral_contract,
         \A t \in TypeIds : TypeRecorded(t)',
         \A t \in TypeIds : TotalsKept(t),
         EscrowMatchesAuction', Uncovered' <= Uncovered, MarketStep,
         stable'.total_supply <= stable.total_supply
  PROVE  SafeStep
<1>1. TotalsCoverVaults'
  BY TotalsStay
<1>2. vault_type_count \in Nat /\ vault_type_count' \in Nat
  BY DEF SafetyInv, Inv, TypeOK
<1>3. ASSUME NEW v \in VaultIds PROVE VaultRecorded(v)'
  <2>1. VaultRecorded(v) /\ vaults[v].vault_type_id \in Int
    BY VaultsAssumption DEF SafetyInv, Recorded, Inv, TypeOK, VaultRecords, TypeIds
  <2>2. vaults[v].vault_type_id <= vault_type_count'
    BY <1>2, <2>1 DEF VaultRecorded
  <2> QED
    BY <2>1, <2>2 DEF VaultRecorded
<1>4. Recorded'
  BY <1>3 DEF Recorded
<1>5. CollateralCustody'
  <2>1. ASSUME NEW c \in Collaterals PROVE RecordedCollateral(c)' = RecordedCollateral(c)
    <3>1. ASSUME NEW v \in VaultIds, vaults[v].open PROVE CollateralOf(v)' = CollateralOf(v)
      BY <3>1, LiveVaultFacts DEF CollateralOf
    <3> QED
      BY <3>1 DEF RecordedCollateral
  <2> QED
    BY <2>1 DEF CollateralCustody, SafetyInv
<1>6. SettlementRounding = 0
  <2>1. \A v \in VaultIds : ~(vaults'[v].auction_settled /\ ~vaults[v].auction_settled)
    OBVIOUS
  <2>2. [v \in VaultIds |->
            IF vaults'[v].auction_settled /\ ~vaults[v].auction_settled
            THEN AtLeastZero(vaults[v].auction_principal_snapshot
                               - vaults[v].auction_debt_snapshot)
            ELSE 0]
          = [v \in VaultIds |-> 0]
    BY <2>1
  <2> QED
    BY <2>2, TotalZero DEF SettlementRounding
<1>7. Uncovered \in Int /\ Uncovered' \in Int
  BY <1>1, UncoveredType, UncoveredTypeNext DEF SafetyInv, UncoveredCounts
<1>8. BackingStep
  BY <1>6, <1>7 DEF BackingStep
<1>9. PauseStep
  <2>1. \A v \in VaultIds : ~(vaults'[v].collateral_amount < vaults[v].collateral_amount)
    <3>1. \A v \in VaultIds : vaults[v].collateral_amount \in Nat
      BY DEF SafetyInv, Inv, TypeOK, VaultRecords
    <3> QED
      BY <3>1
  <2> QED
    BY <2>1 DEF PauseStep
<1> QED
  BY <1>1, <1>4, <1>5, <1>8, <1>9 DEF SafeStep

\* Escrow that stays, or that is refunded after a settlement.
LEMMA EscrowStays ==
  ASSUME SafetyInv, vaults' = vaults,
         \A w \in VaultIds : \/ vaults[w].auction_settled
                             \/ \A a \in Accounts : auction_bids'[<<w, a>>] = auction_bids[<<w, a>>]
  PROVE  EscrowMatchesAuction'
<1>1. ASSUME NEW w \in VaultIds PROVE EscrowAgrees(w)'
  <2>1. EscrowAgrees(w) /\ VaultOK(w)
    BY EscrowByVault DEF SafetyInv, Inv
  <2>2. vaults[w].auction_highest_bidder # NoOne => vaults[w].auction_highest_bidder \in Accounts
    BY AccountFacts DEF SafetyInv, Inv, TypeOK, VaultRecords
  <2>3. CASE vaults[w].auction_settled
    BY <2>1, <2>3 DEF EscrowAgrees, VaultOK
  <2>4. CASE \A a \in Accounts : auction_bids'[<<w, a>>] = auction_bids[<<w, a>>]
    BY <2>1, <2>2, <2>4 DEF EscrowAgrees
  <2> QED
    BY <2>3, <2>4
<1> QED
  BY <1>1 DEF EscrowMatchesAuction, EscrowAgrees

\* Books that stay, or whose rate stays, leave every live debt what it was.
LEMMA MarketStays ==
  ASSUME SafetyInv, Inv', vaults' = vaults, now' = now, price' = price,
         vault_types' = vault_types,
         \A t \in TypeIds : /\ books'[t].rate_accumulator = books[t].rate_accumulator
                            /\ books'[t].last_rate_time = books[t].last_rate_time
  PROVE  \A v \in VaultIds : Liquidatable(vaults[v])' => Liquidatable(vaults[v])
<1>1. \A t \in TypeIds : current_rate(t)' = current_rate(t)
  BY DEF current_rate, elapsed_seconds
<1> SUFFICES ASSUME NEW w \in VaultIds, Liquidatable(vaults[w])' PROVE Liquidatable(vaults[w])
  OBVIOUS
<1>2. vaults'[w] = vaults[w] /\ vaults[w] \in VaultRecords
  BY DEF SafetyInv, Inv, TypeOK
<1>3. vaults[w].open
  BY <1>2 DEF Liquidatable
<1>4. vaults[w].vault_type_id \in TypeIds
  BY <1>3 DEF SafetyInv, Inv, VaultOK
<1> QED
  BY <1>1, <1>2, <1>4, LiquidatableNext

\* Steps that change no books either: settings, wiring, transfers, time, prices.
LEMMA QuietBooksAreSafe ==
  ASSUME SafetyInv, Inv',
         UNCHANGED <<vaults, vault_count, collateral, books, vault_type_count>>,
         \A t \in TypeIds :
            /\ vault_types'[t].collateral_contract = vault_types[t].collateral_contract
            /\ \/ vault_types'[t].ratios = vault_types[t].ratios
               \/ ValidRatios(vault_types'[t].ratios),
         EscrowMatchesAuction',
         stable'.total_supply = stable.total_supply
  PROVE  SafeStep
<1>1. \A t \in TypeIds : TypeRecorded(t)'
  <2>1. \A t \in TypeIds : TypeRecorded(t)
    BY DEF SafetyInv, Recorded
  <2>2. ASSUME NEW t \in TypeIds PROVE TypeRecorded(t)'
    <3>1. /\ vault_types[t].collateral_contract # NoOne =>
                t <= vault_type_count /\ ValidRatios(vault_types[t].ratios)
          /\ t > vault_type_count =>
                /\ books[t].principal_outstanding = 0
                /\ books[t].auction_principal_locked = 0
                /\ books[t].bad_debt = 0
          /\ books[t].rate_accumulator >= SCALE
      BY <2>1 DEF TypeRecorded
    <3> DEFINE new_ratios == vault_types'[t].ratios
    <3>2. vault_types[t].collateral_contract # NoOne => ValidRatios(new_ratios)
      BY <3>1
    <3>3. vault_types'[t].collateral_contract # NoOne =>
             t <= vault_type_count' /\ ValidRatios(vault_types'[t].ratios)
      BY <3>1, <3>2
    <3> QED
      BY <3>1, <3>3 DEF TypeRecorded, ValidRatios
  <2> QED
    BY <2>2
<1>2. \A t \in TypeIds : TotalsKept(t)
  BY DEF TotalsKept
<1>3. MarketStep
  BY MarketStays DEF MarketStep
<1>4. TotalsCoverVaults'
  BY <1>2, TotalsStay
<1>5. Uncovered' <= Uncovered
  <2>1. Uncovered' = Uncovered
    BY UncoveredAsMaps
  <2>2. Uncovered \in Int
    BY UncoveredType DEF SafetyInv, UncoveredCounts
  <2> QED
    BY <2>1, <2>2
<1>6. /\ vault_type_count' >= vault_type_count
      /\ stable'.total_supply <= stable.total_supply
  BY DEF SafetyInv, Inv, TypeOK
<1> QED
  BY <1>1, <1>2, <1>3, <1>5, <1>6, QuietStepIsSafe

LEMMA ClaimIsSafe ==
  ASSUME SafetyInv, Inv', NEW caller \in Users, NEW v \in VaultIds, claim_refund(caller, v)
  PROVE  SafeStep
<1>1. /\ vaults[v].auction_settled
      /\ auction_bids' = [auction_bids EXCEPT ![<<v, caller>>] = 0]
      /\ stable' = LedgerTransfer(stable, con_vaults, caller, auction_bids[<<v, caller>>])
      /\ UNCHANGED <<now, price, collateral, vault_types, books, vault_type_count,
                     vaults, vault_count>>
  BY DEF claim_refund, types
<1>2. stable'.total_supply = stable.total_supply
  BY <1>1, TransferSupply DEF SafetyInv
<1>3. \A w \in VaultIds : \/ vaults[w].auction_settled
                          \/ \A a \in Accounts : auction_bids'[<<w, a>>] = auction_bids[<<w, a>>]
  BY <1>1 DEF SafetyInv, Inv, TypeOK
<1>4. EscrowMatchesAuction'
  BY <1>1, <1>3, EscrowStays
<1> QED
  BY <1>1, <1>2, <1>4, QuietBooksAreSafe

LEMMA TransferIsSafe ==
  ASSUME SafetyInv, Inv', NEW caller \in Users, NEW amount \in Nat, NEW to \in Accounts,
         HolderTransfers(caller, amount, to)
  PROVE  SafeStep
<1>1. /\ stable' = LedgerTransfer(stable, caller, to, amount)
      /\ UNCHANGED <<now, price, collateral, vault_types, books, vault_type_count,
                     vaults, vault_count, auction_bids>>
  BY DEF HolderTransfers, types, positions
<1>2. stable'.total_supply = stable.total_supply
  BY <1>1, TransferSupply DEF SafetyInv
<1>3. EscrowMatchesAuction'
  BY <1>1, EscrowStays
<1> QED
  BY <1>1, <1>2, <1>3, QuietBooksAreSafe

\* Time, prices, who governs and where fees go.
LEMMA WorldIsSafe ==
  ASSUME SafetyInv, Inv', UNCHANGED <<tokens, types, positions>>
  PROVE  SafeStep
<1>1. UNCHANGED <<stable, collateral, vault_types, books, vault_type_count,
                  vaults, vault_count, auction_bids>>
  BY DEF tokens, types, positions
<1>2. EscrowMatchesAuction'
  BY <1>1, EscrowStays
<1> QED
  BY <1>1, <1>2, QuietBooksAreSafe

-----------------------------------------------------------------------------
(* Losses and surplus. *)

\* A call that burns what it takes off the bad debt.
LEMMA LossCallIsSafe ==
  ASSUME SafetyInv, Inv', NEW vt \in TypeIds, NEW new \in BookRecords, NEW burnt \in Nat,
         books' = [books EXCEPT ![vt] = new],
         new.rate_accumulator = books[vt].rate_accumulator,
         new.last_rate_time = books[vt].last_rate_time,
         new.normalized_debt_total = books[vt].normalized_debt_total,
         new.principal_outstanding = books[vt].principal_outstanding,
         new.auction_debt_locked = books[vt].auction_debt_locked,
         new.auction_principal_locked = books[vt].auction_principal_locked,
         new.bad_debt = books[vt].bad_debt - burnt,
         stable'.total_supply = stable.total_supply - burnt,
         UNCHANGED <<now, price, collateral, vault_types, vault_type_count, positions>>
  PROVE  SafeStep
<1>1. books \in [TypeIds -> BookRecords] /\ books[vt].bad_debt \in Nat /\ new.bad_debt \in Nat
      /\ books[vt].principal_outstanding \in Int /\ books[vt].auction_principal_locked \in Int
      /\ stable.total_supply \in Nat
  BY DEF SafetyInv, Inv, TypeOK, BookRecords
<1>2. \A t \in TypeIds :
         /\ books'[t].rate_accumulator = books[t].rate_accumulator
         /\ books'[t].last_rate_time = books[t].last_rate_time
         /\ books'[t].normalized_debt_total = books[t].normalized_debt_total
         /\ books'[t].principal_outstanding = books[t].principal_outstanding
         /\ books'[t].auction_debt_locked = books[t].auction_debt_locked
         /\ books'[t].auction_principal_locked = books[t].auction_principal_locked
  BY <1>1
<1>3. UNCHANGED <<vaults, vault_count, auction_bids>>
  BY DEF positions
<1>4. \A t \in TypeIds : TotalsKept(t)
  BY <1>2 DEF TotalsKept
<1>5. \A t \in TypeIds : TypeRecorded(t)'
  <2>1. ASSUME NEW t \in TypeIds PROVE TypeRecorded(t)'
    <3>1. TypeRecorded(t)
      BY DEF SafetyInv, Recorded
    <3>2. t > vault_type_count => books'[t].bad_debt = 0
      <4>1. CASE t = vt
        <5>1. books'[t].bad_debt = new.bad_debt
          BY <1>1, <4>1
        <5>2. books[vt].bad_debt = 0 => new.bad_debt = 0
          BY <1>1
        <5> QED
          BY <3>1, <4>1, <5>1, <5>2 DEF TypeRecorded
      <4>2. CASE t # vt
        BY <1>1, <3>1, <4>2 DEF TypeRecorded
      <4> QED
        BY <4>1, <4>2
    <3> QED
      BY <1>2, <3>1, <3>2 DEF TypeRecorded
  <2> QED
    BY <2>1
<1>6. EscrowMatchesAuction'
  BY <1>3, EscrowStays
<1>7. MarketStep
  BY <1>2, <1>3, MarketStays DEF MarketStep
<1>8. TotalsCoverVaults'
  BY <1>3, <1>4, TotalsStay
<1>9. Uncovered' <= Uncovered
  <2> DEFINE none == 0
  <2>1. /\ none \in Nat
        /\ stable'.total_supply - stable.total_supply
             <= (new.principal_outstanding - books[vt].principal_outstanding)
                  + (new.auction_principal_locked - books[vt].auction_principal_locked)
                  + (new.bad_debt - books[vt].bad_debt) + none
    BY <1>1
  <2> HIDE DEF none
  <2>2. Uncovered' <= Uncovered + none
    BY <1>8, <2>1, BackingUpdate
  <2>3. Uncovered \in Int
    BY UncoveredType DEF SafetyInv, UncoveredCounts
  <2> QED
    BY <2>2, <2>3 DEF none
<1>10. /\ vault_type_count' >= vault_type_count
       /\ stable'.total_supply <= stable.total_supply
  BY <1>1 DEF SafetyInv, Inv, TypeOK
<1> QED
  BY <1>3, <1>4, <1>5, <1>6, <1>7, <1>9, <1>10, QuietStepIsSafe

LEMMA CoverIsSafe ==
  ASSUME SafetyInv, Inv', NEW vt \in TypeIds, NEW amount \in Nat, cover_bad_debt(vt, amount)
  PROVE  SafeStep
<1> DEFINE coverable == AtMost(books[vt].surplus_buffer, books[vt].bad_debt)
           covered == IF amount = 0 THEN coverable ELSE amount
           surplus == books[vt].surplus_buffer - covered
           bad == books[vt].bad_debt - covered
           new == [books[vt] EXCEPT !.surplus_buffer = surplus, !.bad_debt = bad]
<1>1. /\ covered <= coverable
      /\ books' = [books EXCEPT ![vt] = new]
      /\ stable' = LedgerBurn(stable, con_vaults, covered)
      /\ UNCHANGED <<now, price, collateral, vault_types, vault_type_count, positions>>
  BY DEF cover_bad_debt
<1>2. books[vt] \in BookRecords
      /\ books[vt].surplus_buffer \in Nat /\ books[vt].bad_debt \in Nat
  BY DEF SafetyInv, Inv, TypeOK, BookRecords
<1>3. /\ coverable \in Nat
      /\ coverable <= books[vt].surplus_buffer /\ coverable <= books[vt].bad_debt
  BY <1>2 DEF AtMost
<1> HIDE DEF coverable
<1>4. covered \in Nat
  BY <1>3
<1>5. surplus \in Nat /\ bad \in Nat
  <2> HIDE DEF covered
  <2> QED
    BY <1>1, <1>2, <1>3, <1>4
<1>6. bad = books[vt].bad_debt - covered
  OBVIOUS
<1> HIDE DEF covered, surplus, bad
<1>7. /\ new \in BookRecords
      /\ new.rate_accumulator = books[vt].rate_accumulator
      /\ new.last_rate_time = books[vt].last_rate_time
      /\ new.normalized_debt_total = books[vt].normalized_debt_total
      /\ new.principal_outstanding = books[vt].principal_outstanding
      /\ new.auction_debt_locked = books[vt].auction_debt_locked
      /\ new.auction_principal_locked = books[vt].auction_principal_locked
      /\ new.bad_debt = bad
  BY <1>2, <1>5 DEF BookRecords
<1> HIDE DEF new
<1>8. stable'.total_supply = stable.total_supply - covered
  BY <1>1 DEF LedgerBurn
<1> QED
  BY <1>1, <1>4, <1>6, <1>7, <1>8, LossCallIsSafe

LEMMA RecapitalizeIsSafe ==
  ASSUME SafetyInv, Inv', NEW caller \in Users, NEW vt \in TypeIds, NEW amount \in Nat,
         recapitalize(caller, vt, amount)
  PROVE  SafeStep
<1> DEFINE reduced == AtMost(amount, books[vt].bad_debt)
           surplus == books[vt].surplus_buffer + (amount - reduced)
           bad == books[vt].bad_debt - reduced
           new == [books[vt] EXCEPT !.bad_debt = bad, !.surplus_buffer = surplus]
<1>1. /\ books' = [books EXCEPT ![vt] = new]
      /\ stable' = LedgerBurn(LedgerTransfer(stable, caller, con_vaults, amount),
                              con_vaults, reduced)
      /\ UNCHANGED <<now, price, collateral, vault_types, vault_type_count, positions>>
  BY DEF recapitalize
<1>2. books[vt] \in BookRecords
      /\ books[vt].surplus_buffer \in Nat /\ books[vt].bad_debt \in Nat
  BY DEF SafetyInv, Inv, TypeOK, BookRecords
<1>3. reduced \in Nat /\ reduced <= amount /\ reduced <= books[vt].bad_debt
  BY <1>2 DEF AtMost
<1> HIDE DEF reduced
<1>4. surplus \in Nat /\ bad \in Nat /\ bad = books[vt].bad_debt - reduced
  BY <1>2, <1>3
<1> HIDE DEF surplus, bad
<1>5. /\ new \in BookRecords
      /\ new.rate_accumulator = books[vt].rate_accumulator
      /\ new.last_rate_time = books[vt].last_rate_time
      /\ new.normalized_debt_total = books[vt].normalized_debt_total
      /\ new.principal_outstanding = books[vt].principal_outstanding
      /\ new.auction_debt_locked = books[vt].auction_debt_locked
      /\ new.auction_principal_locked = books[vt].auction_principal_locked
      /\ new.bad_debt = bad
  BY <1>2, <1>4 DEF BookRecords
<1> HIDE DEF new
<1>6. stable'.total_supply = stable.total_supply - reduced
  BY <1>1, TransferSupply DEF LedgerBurn, SafetyInv
<1> QED
  BY <1>1, <1>3, <1>4, <1>5, <1>6, LossCallIsSafe

LEMMA SweepIsSafe ==
  ASSUME SafetyInv, Inv', NEW caller \in Users, NEW vt \in TypeIds, NEW amount \in Nat,
         sweep_surplus(caller, vt, amount)
  PROVE  SafeStep
<1> DEFINE swept == IF amount = 0 THEN books[vt].surplus_buffer ELSE amount
           surplus == books[vt].surplus_buffer - swept
           new == [books[vt] EXCEPT !.surplus_buffer = surplus]
           burnt == 0
<1>1. /\ swept <= books[vt].surplus_buffer
      /\ books' = [books EXCEPT ![vt].surplus_buffer = @ - swept]
      /\ stable' = LedgerTransfer(stable, con_vaults, fee_destination, swept)
      /\ UNCHANGED <<now, price, collateral, vault_types, vault_type_count, positions>>
  BY DEF sweep_surplus
<1>2. /\ books[vt] \in BookRecords /\ books \in [TypeIds -> BookRecords]
      /\ books[vt].surplus_buffer \in Nat /\ books[vt].bad_debt \in Nat
  BY DEF SafetyInv, Inv, TypeOK, BookRecords
<1>3. swept \in Nat
  BY <1>2
<1> HIDE DEF swept
<1>4. surplus \in Nat
  BY <1>1, <1>2, <1>3
<1>5. books' = [books EXCEPT ![vt] = new]
  BY <1>1, <1>2
<1> HIDE DEF surplus
<1>6. /\ new \in BookRecords
      /\ new.rate_accumulator = books[vt].rate_accumulator
      /\ new.last_rate_time = books[vt].last_rate_time
      /\ new.normalized_debt_total = books[vt].normalized_debt_total
      /\ new.principal_outstanding = books[vt].principal_outstanding
      /\ new.auction_debt_locked = books[vt].auction_debt_locked
      /\ new.auction_principal_locked = books[vt].auction_principal_locked
      /\ new.bad_debt = books[vt].bad_debt
  BY <1>2, <1>4 DEF BookRecords
<1> HIDE DEF new
<1>7. stable'.total_supply = stable.total_supply /\ stable.total_supply \in Nat
  BY <1>1, TransferSupply DEF SafetyInv, Inv, TypeOK
<1>8. /\ burnt \in Nat /\ new.bad_debt = books[vt].bad_debt - burnt
      /\ stable'.total_supply = stable.total_supply - burnt
  BY <1>2, <1>6, <1>7
<1> HIDE DEF burnt
<1> QED
  BY <1>1, <1>5, <1>6, <1>8, LossCallIsSafe

-----------------------------------------------------------------------------
(* Governance. *)

\* A new type has no vaults yet, and owes nothing that its books would forget.
LEMMA AddTypeIsSafe ==
  ASSUME SafetyInv, Inv', NEW caller \in Users, NEW arguments \in NewTypes,
         add_vault_type(caller, arguments)
  PROVE  SafeStep
<1> DEFINE settings == [collateral_contract |-> arguments.collateral_contract, active |-> TRUE,
                        ratios |-> arguments.ratios, limits |-> arguments.limits,
                        auction |-> arguments.auction,
                        stability_fee_bps |-> arguments.stability_fee_bps,
                        surplus_buffer_bps |-> arguments.surplus_buffer_bps]
           fresh == NewBooks(now)
<1>1. PICK vt : vt = vault_type_count + 1
  OBVIOUS
<1>2. /\ vault_type_count < MaxTypes
      /\ ValidRatios(arguments.ratios)
      /\ vault_type_count' = vt
      /\ vault_types' = [vault_types EXCEPT ![vt] = settings]
      /\ books' = [books EXCEPT ![vt] = fresh]
      /\ UNCHANGED <<now, price, tokens, positions>>
  BY <1>1 DEF add_vault_type
<1>3. UNCHANGED <<stable, collateral, vaults, vault_count, auction_bids>>
  BY <1>2 DEF tokens, positions
<1>4. /\ vault_type_count \in Nat /\ vt \in Nat /\ vt \in TypeIds /\ vt > vault_type_count
  BY <1>1, <1>2, VaultsAssumption DEF SafetyInv, Inv, TypeOK, TypeIds
<1>5. arguments.collateral_contract \in Collaterals
  BY VaultsAssumption DEF TypeArguments
<1>6. settings.collateral_contract = arguments.collateral_contract
      /\ settings.ratios = arguments.ratios
  OBVIOUS
<1>7. /\ fresh.normalized_debt_total = 0 /\ fresh.principal_outstanding = 0
      /\ fresh.auction_debt_locked = 0 /\ fresh.auction_principal_locked = 0
      /\ fresh.bad_debt = 0 /\ fresh.rate_accumulator = SCALE
  BY DEF NewBooks
<1> HIDE DEF settings, fresh
<1>8. /\ vault_types \in [TypeIds -> TypeSettings] /\ books \in [TypeIds -> BookRecords]
      /\ books' \in [TypeIds -> BookRecords]
  BY DEF SafetyInv, Inv, TypeOK
<1>9. fresh \in BookRecords /\ books'[vt] = fresh /\ vault_types'[vt] = settings
  BY <1>2, <1>4, <1>8
<1>10. TypeRecorded(vt)
  BY <1>4 DEF SafetyInv, Recorded
<1>11. \A t \in TypeIds : TotalsKept(t)
  <2>1. TotalsKept(vt)
    BY <1>4, <1>7, <1>9 DEF TotalsKept
  <2>2. ASSUME NEW t \in TypeIds, t # vt PROVE TotalsKept(t)
    <3>1. books'[t] = books[t]
      BY <1>2, <1>8, <2>2
    <3> QED
      BY <3>1 DEF TotalsKept
  <2> QED
    BY <2>1, <2>2
<1>12. \A t \in TypeIds : TypeRecorded(t)'
  <2>1. TypeRecorded(vt)'
    <3>1. ~(vt > vault_type_count') /\ vt <= vault_type_count'
      BY <1>2, <1>4
    <3>2. ValidRatios(settings.ratios)
      BY <1>2, <1>6
    <3>3. ValidRatios(vault_types'[vt].ratios)
      BY <1>9, <3>2
    <3>4. books'[vt].rate_accumulator >= SCALE
      BY <1>7, <1>9, ScaleAssumption
    <3> QED
      BY <3>1, <3>3, <3>4 DEF TypeRecorded, ValidRatios
  <2>2. ASSUME NEW t \in TypeIds, t # vt PROVE TypeRecorded(t)'
    <3>1. books'[t] = books[t] /\ vault_types'[t] = vault_types[t]
      BY <1>2, <1>8, <2>2
    <3>2. TypeRecorded(t) /\ t \in Int
      BY DEF SafetyInv, Recorded, TypeIds
    <3>3. /\ t <= vault_type_count => t <= vault_type_count'
          /\ t > vault_type_count' => t > vault_type_count
      BY <1>1, <1>2, <1>4, <3>2
    <3> QED
      BY <3>1, <3>2, <3>3 DEF TypeRecorded, ValidRatios
  <2> QED
    BY <2>1, <2>2
<1>13. \A t \in TypeIds : t <= vault_type_count =>
          vault_types'[t].collateral_contract = vault_types[t].collateral_contract
  <2>1. ASSUME NEW t \in TypeIds, t <= vault_type_count PROVE vault_types'[t] = vault_types[t]
    <3>1. t # vt
      BY <1>4, <2>1
    <3> QED
      BY <1>2, <1>8, <3>1
  <2> QED
    BY <2>1
<1>14. MarketStep
  <2>1. vault_types[vt].collateral_contract = NoOne
    BY <1>4, <1>10 DEF TypeRecorded
  <2>2. vault_types'[vt].collateral_contract # NoOne
    BY <1>5, <1>6, <1>9, VaultsAssumption
  <2>3. vault_types' # vault_types
    BY <2>1, <2>2
  <2> QED
    BY <2>3 DEF MarketStep
<1>15. TotalsCoverVaults'
  BY <1>3, <1>11, TotalsStay
<1>16. Uncovered' <= Uncovered
  <2> DEFINE none == 0
  <2>1. stable.total_supply \in Nat
    BY DEF SafetyInv, Inv, TypeOK
  <2>2. /\ books[vt].principal_outstanding = 0 /\ books[vt].auction_principal_locked = 0
        /\ books[vt].bad_debt = 0
    BY <1>4, <1>10 DEF TypeRecorded
  <2>3. /\ none \in Nat
        /\ stable'.total_supply - stable.total_supply
             <= (fresh.principal_outstanding - books[vt].principal_outstanding)
                  + (fresh.auction_principal_locked - books[vt].auction_principal_locked)
                  + (fresh.bad_debt - books[vt].bad_debt) + none
    BY <1>3, <1>7, <2>1, <2>2
  <2> HIDE DEF none
  <2>4. Uncovered' <= Uncovered + none
    BY <1>2, <1>4, <1>9, <1>15, <2>3, BackingUpdate
  <2>5. Uncovered \in Int
    BY UncoveredType DEF SafetyInv, UncoveredCounts
  <2> QED
    BY <2>4, <2>5 DEF none
<1>17. EscrowMatchesAuction'
  BY <1>3, EscrowStays
<1>18. /\ vault_type_count' >= vault_type_count
       /\ stable'.total_supply <= stable.total_supply
  BY <1>1, <1>2, <1>3, <1>4 DEF SafetyInv, Inv, TypeOK
<1> QED
  BY <1>3, <1>11, <1>12, <1>13, <1>14, <1>16, <1>17, <1>18, QuietStepIsSafe

\* New settings of a type whose collateral stays, with ratios that stay or are checked.
LEMMA ChangeTypeIsSafe ==
  ASSUME SafetyInv, Inv', NEW caller, NEW vt \in TypeIds, NEW settings,
         settings.collateral_contract = vault_types[vt].collateral_contract,
         settings.ratios = vault_types[vt].ratios \/ ValidRatios(settings.ratios),
         ChangeType(caller, vt, settings)
  PROVE  SafeStep
<1>1. /\ vault_types' = [vault_types EXCEPT ![vt] = settings]
      /\ UNCHANGED <<stable, collateral, books, vault_type_count,
                     vaults, vault_count, auction_bids>>
  BY DEF ChangeType, tokens, positions
<1>2. vault_types \in [TypeIds -> TypeSettings]
  BY DEF SafetyInv, Inv, TypeOK
<1>3. \A t \in TypeIds :
         /\ vault_types'[t].collateral_contract = vault_types[t].collateral_contract
         /\ \/ vault_types'[t].ratios = vault_types[t].ratios
            \/ ValidRatios(vault_types'[t].ratios)
  <2>1. ASSUME NEW t \in TypeIds
        PROVE  /\ vault_types'[t].collateral_contract = vault_types[t].collateral_contract
               /\ \/ vault_types'[t].ratios = vault_types[t].ratios
                  \/ ValidRatios(vault_types'[t].ratios)
    <3>1. CASE t = vt
      <4>1. vault_types'[t] = settings
        BY <1>1, <1>2, <3>1
      <4> QED
        BY <3>1, <4>1
    <3>2. CASE t # vt
      <4>1. vault_types'[t] = vault_types[t]
        BY <1>1, <1>2, <3>2
      <4> QED
        BY <4>1
    <3> QED
      BY <3>1, <3>2
  <2> QED
    BY <2>1
<1>4. EscrowMatchesAuction'
  BY <1>1, EscrowStays
<1> QED
  BY <1>1, <1>3, <1>4, QuietBooksAreSafe

LEMMA TypeCallIsSafe ==
  ASSUME SafetyInv, Inv', NEW caller \in Users, NEW vt \in TypeIds, TypeCall(caller, vt)
  PROVE  SafeStep
<1> DEFINE now_set == vault_types[vt]
<1>1. now_set \in TypeSettings
  BY DEF SafetyInv, Inv, TypeOK
<1>2. PICK settings :
         /\ ChangeType(caller, vt, settings)
         /\ settings.collateral_contract = now_set.collateral_contract
         /\ settings.ratios = now_set.ratios \/ ValidRatios(settings.ratios)
  <2> DEFINE Right(s) == /\ ChangeType(caller, vt, s)
                         /\ s.collateral_contract = now_set.collateral_contract
                         /\ s.ratios = now_set.ratios \/ ValidRatios(s.ratios)
  <2>1. ASSUME NEW active PROVE
          /\ [now_set EXCEPT !.active = active].collateral_contract = now_set.collateral_contract
          /\ [now_set EXCEPT !.active = active].ratios = now_set.ratios
    BY <1>1 DEF TypeSettings
  <2>2. ASSUME NEW fee PROVE
          /\ [now_set EXCEPT !.stability_fee_bps = fee].collateral_contract
                = now_set.collateral_contract
          /\ [now_set EXCEPT !.stability_fee_bps = fee].ratios = now_set.ratios
    BY <1>1 DEF TypeSettings
  <2>3. ASSUME NEW limits PROVE
          /\ [now_set EXCEPT !.limits = limits].collateral_contract = now_set.collateral_contract
          /\ [now_set EXCEPT !.limits = limits].ratios = now_set.ratios
    BY <1>1 DEF TypeSettings
  <2>4. ASSUME NEW ratios PROVE
          /\ [now_set EXCEPT !.ratios = ratios].collateral_contract = now_set.collateral_contract
          /\ [now_set EXCEPT !.ratios = ratios].ratios = ratios
    BY <1>1 DEF TypeSettings
  <2>5. ASSUME NEW terms PROVE
          /\ [now_set EXCEPT !.auction = terms].collateral_contract = now_set.collateral_contract
          /\ [now_set EXCEPT !.auction = terms].ratios = now_set.ratios
    BY <1>1 DEF TypeSettings
  <2>6. ASSUME NEW bps PROVE
          /\ [now_set EXCEPT !.surplus_buffer_bps = bps].collateral_contract
                = now_set.collateral_contract
          /\ [now_set EXCEPT !.surplus_buffer_bps = bps].ratios = now_set.ratios
    BY <1>1 DEF TypeSettings
  <2>7. CASE \E active \in ActiveChoices : set_vault_type_active(caller, vt, active)
    <3>1. PICK active \in ActiveChoices :
             ChangeType(caller, vt, [now_set EXCEPT !.active = active])
      BY <2>7 DEF set_vault_type_active
    <3>2. Right([now_set EXCEPT !.active = active])
      BY <2>1, <3>1
    <3> HIDE DEF Right, now_set
    <3>3. \E s : Right(s)
      BY <3>2
    <3> QED
      BY <3>3 DEF Right
  <2>8. CASE \E fee \in FeeChoices : set_vault_type_fee(caller, vt, fee)
    <3>1. PICK fee \in FeeChoices :
             ChangeType(caller, vt, [now_set EXCEPT !.stability_fee_bps = fee])
      BY <2>8 DEF set_vault_type_fee
    <3>2. Right([now_set EXCEPT !.stability_fee_bps = fee])
      BY <2>2, <3>1
    <3> HIDE DEF Right, now_set
    <3>3. \E s : Right(s)
      BY <3>2
    <3> QED
      BY <3>3 DEF Right
  <2>9. CASE \E limits \in LimitChoices : set_vault_type_limits(caller, vt, limits)
    <3>1. PICK limits \in LimitChoices :
             ChangeType(caller, vt, [now_set EXCEPT !.limits = limits])
      BY <2>9 DEF set_vault_type_limits
    <3>2. Right([now_set EXCEPT !.limits = limits])
      BY <2>3, <3>1
    <3> HIDE DEF Right, now_set
    <3>3. \E s : Right(s)
      BY <3>2
    <3> QED
      BY <3>3 DEF Right
  <2>10. CASE \E ratios \in RatioChoices : set_vault_type_ratios(caller, vt, ratios)
    <3>1. PICK ratios \in RatioChoices :
             /\ ValidRatios(ratios)
             /\ ChangeType(caller, vt, [now_set EXCEPT !.ratios = ratios])
      BY <2>10 DEF set_vault_type_ratios
    <3>2. Right([now_set EXCEPT !.ratios = ratios])
      BY <2>4, <3>1
    <3> HIDE DEF Right, now_set
    <3>3. \E s : Right(s)
      BY <3>2
    <3> QED
      BY <3>3 DEF Right
  <2>11. CASE \E terms \in AuctionChoices : set_vault_type_auction_config(caller, vt, terms)
    <3>1. PICK terms \in AuctionChoices :
             ChangeType(caller, vt, [now_set EXCEPT !.auction = terms])
      BY <2>11 DEF set_vault_type_auction_config
    <3>2. Right([now_set EXCEPT !.auction = terms])
      BY <2>5, <3>1
    <3> HIDE DEF Right, now_set
    <3>3. \E s : Right(s)
      BY <3>2
    <3> QED
      BY <3>3 DEF Right
  <2>12. CASE \E bps \in SurplusChoices : set_vault_type_surplus_buffer_bps(caller, vt, bps)
    <3>1. PICK bps \in SurplusChoices :
             ChangeType(caller, vt, [now_set EXCEPT !.surplus_buffer_bps = bps])
      BY <2>12 DEF set_vault_type_surplus_buffer_bps
    <3>2. Right([now_set EXCEPT !.surplus_buffer_bps = bps])
      BY <2>6, <3>1
    <3> HIDE DEF Right, now_set
    <3>3. \E s : Right(s)
      BY <3>2
    <3> QED
      BY <3>3 DEF Right
  <2> QED
    BY <2>7, <2>8, <2>9, <2>10, <2>11, <2>12 DEF TypeCall
<1> QED
  BY <1>2, ChangeTypeIsSafe

LEMMA GovernorCallIsSafe ==
  ASSUME SafetyInv, Inv', NEW caller \in Users, GovernorCall(caller)
  PROVE  SafeStep
<1>1. CASE \E arguments \in NewTypes : add_vault_type(caller, arguments)
  BY <1>1, AddTypeIsSafe
<1>2. CASE \/ \E value \in PauseChoices : set_paused(caller, value)
           \/ \E target \in ReceiverChoices : set_savings_contract(caller, target)
           \/ \E address \in ReceiverChoices : set_treasury_address(caller, address)
           \/ \E user \in NomineeChoices : start_governance_transfer(caller, user)
           \/ accept_governance(caller)
  <2>1. UNCHANGED <<tokens, types, positions>>
    BY <1>2 DEF set_paused, set_savings_contract, set_treasury_address,
                start_governance_transfer, accept_governance
  <2> QED
    BY <2>1, WorldIsSafe
<1> QED
  BY <1>1, <1>2 DEF GovernorCall

-----------------------------------------------------------------------------
(* Every step. *)

LEMMA OwnerCallIsSafe ==
  ASSUME SafetyInv, Inv', NEW caller \in Users, NEW v \in VaultIds, OwnerCall(caller, v)
  PROVE  SafeStep
<1>1. CASE \E amount \in CollateralAmounts : deposit_collateral(caller, v, amount)
  BY <1>1, DepositIsSafe, VaultsAssumption
<1>2. CASE \E amount \in CollateralAmounts : withdraw_collateral(caller, v, amount)
  BY <1>2, WithdrawIsSafe, VaultsAssumption
<1>3. CASE \E amount \in DebtAmounts : borrow(caller, v, amount)
  BY <1>3, BorrowIsSafe, VaultsAssumption
<1>4. CASE close_vault(caller, v)
  BY <1>4, CloseIsSafe
<1>5. CASE \E amount \in PaymentAmounts \cup {0, vaults[v].auction_debt_snapshot} :
              cure_auction(caller, v, amount)
  <2>1. PICK amount \in PaymentAmounts \cup {0, vaults[v].auction_debt_snapshot} :
           cure_auction(caller, v, amount)
    BY <1>5
  <2>2. vaults[v].auction_debt_snapshot \in Nat
    BY VaultFieldTypes DEF SafetyInv, Inv, TypeOK
  <2>3. amount \in Nat
    BY <2>2, VaultsAssumption
  <2> QED
    BY <2>1, <2>3, CureIsSafe
<1> QED
  BY <1>1, <1>2, <1>3, <1>4, <1>5 DEF OwnerCall

LEMMA AnyonesCallIsSafe ==
  ASSUME SafetyInv, Inv', NEW caller \in Users, NEW v \in VaultIds, AnyonesCall(caller, v)
  PROVE  SafeStep
<1>1. CASE \E amount \in PaymentAmounts : repay(caller, v, amount)
  BY <1>1, RepayIsSafe, VaultsAssumption
<1>2. CASE \E amount \in PaymentAmounts \ {0} : liquidate(caller, v, amount)
  BY <1>2, LiquidateIsSafe, VaultsAssumption
<1>3. CASE liquidate_fast(caller, v)
  <2>1. liquidate(caller, v, 0)
    BY <1>3 DEF liquidate_fast
  <2> QED
    BY <2>1, LiquidateIsSafe
<1>4. CASE \E amount \in BidAmounts : bid(caller, v, amount)
  BY <1>4, BidIsSafe, VaultsAssumption
<1>5. CASE claim_refund(caller, v)
  BY <1>5, ClaimIsSafe
<1> QED
  BY <1>1, <1>2, <1>3, <1>4, <1>5 DEF AnyonesCall

LEMMA CallIsSafe ==
  ASSUME SafetyInv, Inv', NEW caller \in Users, Call(caller)
  PROVE  SafeStep
<1>1. CASE \E vt \in TypeIds, amount \in CollateralAmounts, debt \in DebtAmounts :
              create_vault(caller, vt, amount, debt)
  BY <1>1, CreateVaultIsSafe, VaultsAssumption
<1>2. CASE \E v \in VaultIds : OwnerCall(caller, v) \/ AnyonesCall(caller, v)
  BY <1>2, OwnerCallIsSafe, AnyonesCallIsSafe
<1>3. CASE \E vt \in TypeIds : LossCall(caller, vt)
  <2>1. PICK vt \in TypeIds : LossCall(caller, vt)
    BY <1>3
  <2>2. CASE \E amount \in LossAmounts : recapitalize(caller, vt, amount)
    BY <2>2, RecapitalizeIsSafe, VaultsAssumption
  <2>3. CASE \E amount \in LossAmounts \cup {0} : sweep_surplus(caller, vt, amount)
    BY <2>3, SweepIsSafe, VaultsAssumption
  <2> QED
    BY <2>1, <2>2, <2>3 DEF LossCall
<1>4. CASE \E vt \in TypeIds : TypeCall(caller, vt)
  BY <1>4, TypeCallIsSafe
<1>5. CASE GovernorCall(caller)
  BY <1>5, GovernorCallIsSafe
<1>6. CASE \E amount \in TransferAmounts, to \in Accounts : HolderTransfers(caller, amount, to)
  BY <1>6, TransferIsSafe, VaultsAssumption
<1> QED
  BY <1>1, <1>2, <1>3, <1>4, <1>5, <1>6 DEF Call

LEMMA NextIsSafe ==
  ASSUME SafetyInv, Inv', [Next]_vars PROVE SafeStep
<1>1. CASE \E caller \in Users : Call(caller)
  BY <1>1, CallIsSafe
<1>2. CASE \E v \in VaultIds : KeeperCall(v)
  BY <1>2, OpenAuctionIsSafe, CancelIsSafe, SettleIsSafe DEF KeeperCall
<1>3. CASE \E vt \in TypeIds, amount \in LossAmounts \cup {0} : cover_bad_debt(vt, amount)
  BY <1>3, CoverIsSafe, VaultsAssumption
<1>4. CASE \/ \E c \in Collaterals, quote \in Prices : OracleMoves(c, quote)
           \/ Tick
           \/ UNCHANGED vars
  <2>1. UNCHANGED <<tokens, types, positions>>
    BY <1>4 DEF OracleMoves, Tick, vars
  <2> QED
    BY <2>1, WorldIsSafe
<1> QED
  BY <1>1, <1>2, <1>3, <1>4 DEF Next

LEMMA InitEstablishesSafety ==
  ASSUME Init PROVE SafetyInv
<1> USE DEF Init
<1>1. Inv
  BY InitEstablishesInv
<1>2. Recorded
  <2>1. \A vt \in TypeIds : TypeRecorded(vt)
    BY ScaleAssumption DEF TypeRecorded, NoType, NewBooks
  <2>2. \A v \in VaultIds : VaultRecorded(v)
    BY DEF VaultRecorded, NoVault, Secured
  <2> QED
    BY <2>1, <2>2 DEF Recorded
<1>3. CollateralCustody
  <2>1. ASSUME NEW c \in Collaterals PROVE collateral[c][con_vaults] >= Total(RecordedCollateral(c))
    <3>1. RecordedCollateral(c) = [v \in VaultIds |-> 0]
      BY DEF RecordedCollateral, NoVault
    <3>2. Total(RecordedCollateral(c)) = 0
      BY <3>1, TotalZero
    <3>3. collateral[c][con_vaults] \in Nat
      BY <1>1, AccountFacts DEF Inv, TypeOK
    <3> QED
      BY <3>2, <3>3
  <2> QED
    BY <2>1 DEF CollateralCustody
<1>4. TotalsCoverVaults
  <2>1. ASSUME NEW vt \in TypeIds PROVE CoveredIn(books, vaults, vt)
    <3>1. \A v \in VaultIds :
             /\ SharesIn(vaults)[v] = 0 /\ PrincipalsIn(vaults)[v] = 0
             /\ FrozenDebtsIn(vaults)[v] = 0 /\ FrozenPrincipalsIn(vaults)[v] = 0
      BY DEF SharesIn, PrincipalsIn, FrozenDebtsIn, FrozenPrincipalsIn, NoVault
    <3>2. /\ Selected(TypesIn(vaults), SharesIn(vaults), vt) = [v \in VaultIds |-> 0]
          /\ Selected(TypesIn(vaults), PrincipalsIn(vaults), vt) = [v \in VaultIds |-> 0]
          /\ Selected(TypesIn(vaults), FrozenDebtsIn(vaults), vt) = [v \in VaultIds |-> 0]
          /\ Selected(TypesIn(vaults), FrozenPrincipalsIn(vaults), vt) = [v \in VaultIds |-> 0]
      BY <3>1 DEF Selected
    <3>3. /\ DebtTotals(books)[vt] = 0 /\ PrincipalTotals(books)[vt] = 0
          /\ FrozenDebtTotals(books)[vt] = 0 /\ FrozenPrincipalTotals(books)[vt] = 0
      BY DEF DebtTotals, PrincipalTotals, FrozenDebtTotals, FrozenPrincipalTotals, NewBooks
    <3> QED
      BY <3>2, <3>3, TotalZero DEF CoveredIn
  <2> QED
    BY <2>1, TotalsAsMaps DEF AllCovered
<1>5. EscrowMatchesAuction
  BY DEF EscrowMatchesAuction, NoVault
<1> QED
  BY <1>1, <1>2, <1>3, <1>4, <1>5 DEF SafetyInv

-----------------------------------------------------------------------------
(* The theorems. *)

\* The stronger invariant holds in every reachable state of the contract.
THEOREM VaultsSafetyInvariant == Spec => []SafetyInv
<1>1. Init => SafetyInv
  BY InitEstablishesSafety
<1>2. SafetyInv /\ Inv' /\ [Next]_vars => SafetyInv'
  BY NextIsSafe DEF SafetyInv, SafeStep
<1> QED
  BY <1>1, <1>2, VaultsInvariant, PTL DEF Spec

\* The contract always holds, of each collateral token, what all its open vaults
\* record, so every withdrawal, liquidation, settlement and closing can be paid.
THEOREM CollateralIsInCustody == Spec => []CollateralCustody
<1>1. SafetyInv => CollateralCustody
  BY DEF SafetyInv
<1> QED
  BY <1>1, VaultsSafetyInvariant, PTL

\* The totals of a type never fall below what its vaults owe: the debt ceiling
\* counts every debt, and no payment drives a total below zero.
THEOREM TotalsAlwaysCoverVaults == Spec => []TotalsCoverVaults
<1>1. SafetyInv => TotalsCoverVaults
  BY DEF SafetyInv
<1> QED
  BY <1>1, VaultsSafetyInvariant, PTL

\* While an auction runs, its highest bid is in escrow, nobody has more in escrow,
\* and the collateral is there; escrow without an auction is a refund.
THEOREM EscrowAlwaysMatches == Spec => []EscrowMatchesAuction
<1>1. SafetyInv => EscrowMatchesAuction
  BY DEF SafetyInv
<1> QED
  BY <1>1, VaultsSafetyInvariant, PTL

\* No call lets stable circulate that no vault owes and no bad debt records,
\* beyond the rounding of a settlement.
THEOREM BackingIsNeverEroded == Spec => BackingNeverErodes
<1>1. SafetyInv /\ Inv' /\ [Next]_vars => [Uncovered' <= Uncovered + SettlementRounding]_vars
  BY NextIsSafe DEF SafeStep, BackingStep
<1> QED
  BY <1>1, VaultsInvariant, VaultsSafetyInvariant, PTL DEF Spec, BackingNeverErodes

\* Only time, prices and settings make a vault liquidatable: no call of anybody
\* does, whatever it rounds, restores or leaves behind.
THEOREM OnlyTheMarketEndangers == Spec => OnlyMarketEndangers
<1>1. SafetyInv /\ Inv' /\ [Next]_vars =>
        [now' = now /\ price' = price /\ vault_types' = vault_types =>
            \A v \in VaultIds : Liquidatable(vaults[v])' => Liquidatable(vaults[v])]_vars
  BY NextIsSafe DEF SafeStep, MarketStep
<1> QED
  BY <1>1, VaultsInvariant, VaultsSafetyInvariant, PTL DEF Spec, OnlyMarketEndangers

\* While the protocol is paused no stable is minted, no vault enters an auction,
\* and a vault gives up collateral only as it closes: all of it, to the winner when
\* its auction is settled and to its owner otherwise.
THEOREM PauseAlwaysStopsNewRisk == Spec => PauseStopsNewRisk
<1>1. SafetyInv /\ Inv' /\ [Next]_vars =>
        [paused =>
          /\ stable'.total_supply <= stable.total_supply
          /\ \A v \in VaultIds :
                /\ vaults'[v].auction_open => vaults[v].auction_open
                /\ vaults'[v].collateral_amount < vaults[v].collateral_amount =>
                      LET c == CollateralOf(v)
                          receiver == IF vaults'[v].auction_settled
                                      THEN vaults[v].auction_highest_bidder
                                      ELSE vaults[v].owner
                      IN  /\ ~vaults'[v].open
                          /\ collateral'[c][receiver]
                                = collateral[c][receiver] + vaults[v].collateral_amount]_vars
  BY NextIsSafe DEF SafeStep, PauseStep, HandedOut
<1> QED
  BY <1>1, VaultsInvariant, VaultsSafetyInvariant, PTL DEF Spec, PauseStopsNewRisk

-----------------------------------------------------------------------------
(* The auctions of the vaults are those of module Auction.                    *)

\* A vault is led on from its first bid on, and while it is in auction only.
AuctionRecorded(vault) ==
    /\ ~vault.auction_open =>
          /\ vault.auction_highest_bidder = NoOne
          /\ vault.auction_end_time = 0
    /\ vault.auction_highest_bidder = NoOne <=> vault.auction_highest_bid = 0

AuctionInv ==
    /\ SafetyInv
    /\ \A v \in VaultIds : AuctionRecorded(vaults[v])

\* What has to be shown of a step.
AuctionStep ==
    /\ \A v \in VaultIds : AuctionRecorded(vaults'[v])
    /\ [AH!Next]_<<now, Lots>>

StakesOn(v) == [a \in Accounts |-> auction_bids[<<v, a>>]]

Lot(phase, seller, leader, best, ends, stakes) ==
    [phase |-> phase, seller |-> seller, leader |-> leader, best |-> best, ends |-> ends,
     stakes |-> stakes]

LotFor(vault, stakes) ==
    Lot(PhaseOf(vault), vault.owner, vault.auction_highest_bidder, vault.auction_highest_bid,
        vault.auction_end_time, stakes)

SameAuction(old, new) ==
    /\ new.owner = old.owner /\ new.open = old.open
    /\ new.auction_open = old.auction_open /\ new.auction_settled = old.auction_settled
    /\ new.auction_highest_bidder = old.auction_highest_bidder
    /\ new.auction_highest_bid = old.auction_highest_bid
    /\ new.auction_end_time = old.auction_end_time

LEMMA LotsAsRecords ==
  /\ Lots = [v \in VaultIds |-> LotFor(vaults[v], StakesOn(v))]
  /\ Lots' = [v \in VaultIds |-> LotFor(vaults'[v], StakesOn(v)')]
BY DEF Lots, LotFor, Lot, StakesOn, PhaseOf

\* What the actions of Auction make of a lot.
TakenIn(lot, seller) == [lot EXCEPT !.phase = "held", !.seller = seller]
MovedTo(lot, phase, ends) == [lot EXCEPT !.phase = phase, !.ends = ends]
RaisedBy(lot, bidder, amount, ends) ==
    [lot EXCEPT !.leader = bidder, !.best = amount, !.ends = ends, !.stakes[bidder] = amount]
AwardedTo(lot, winner) ==
    [lot EXCEPT !.phase = "sold", !.leader = NoOne, !.best = 0, !.ends = 0, !.stakes[winner] = 0]
RefundedTo(lot, bidder) == [lot EXCEPT !.stakes[bidder] = 0]

LEMMA LotUpdates ==
  ASSUME NEW p, NEW s, NEW l, NEW b, NEW e, NEW t, NEW lot, lot = Lot(p, s, l, b, e, t)
  PROVE  /\ \A s2 : TakenIn(lot, s2) = Lot("held", s2, l, b, e, t)
         /\ \A p2, e2 : MovedTo(lot, p2, e2) = Lot(p2, s, l, b, e2, t)
         /\ \A a, q, e2 : RaisedBy(lot, a, q, e2) = Lot(p, s, a, q, e2, [t EXCEPT ![a] = q])
         /\ \A a : AwardedTo(lot, a) = Lot("sold", s, NoOne, 0, 0, [t EXCEPT ![a] = 0])
         /\ \A a : RefundedTo(lot, a) = Lot(p, s, l, b, e, [t EXCEPT ![a] = 0])
<1> DEFINE fields == {"phase", "seller", "leader", "best", "ends", "stakes"}
<1>1. lot = [f \in fields |-> lot[f]] /\ DOMAIN lot = fields /\ lot.stakes = t
  BY DEF Lot
<1>2. ASSUME NEW s2 PROVE TakenIn(lot, s2) = Lot("held", s2, l, b, e, t)
  <2>1. TakenIn(lot, s2)
          = [f \in fields |-> IF f = "seller" THEN s2 ELSE IF f = "phase" THEN "held" ELSE lot[f]]
    BY <1>1 DEF TakenIn
  <2>2. Lot("held", s2, l, b, e, t)
          = [f \in fields |-> IF f = "seller" THEN s2 ELSE IF f = "phase" THEN "held" ELSE lot[f]]
    BY DEF Lot
  <2> QED
    BY <2>1, <2>2
<1>3. ASSUME NEW p2, NEW e2 PROVE MovedTo(lot, p2, e2) = Lot(p2, s, l, b, e2, t)
  <2>1. MovedTo(lot, p2, e2)
          = [f \in fields |-> IF f = "ends" THEN e2 ELSE IF f = "phase" THEN p2 ELSE lot[f]]
    BY <1>1 DEF MovedTo
  <2>2. Lot(p2, s, l, b, e2, t)
          = [f \in fields |-> IF f = "ends" THEN e2 ELSE IF f = "phase" THEN p2 ELSE lot[f]]
    BY DEF Lot
  <2> QED
    BY <2>1, <2>2
<1>4. ASSUME NEW a, NEW q, NEW e2
      PROVE  RaisedBy(lot, a, q, e2) = Lot(p, s, a, q, e2, [t EXCEPT ![a] = q])
  <2>1. RaisedBy(lot, a, q, e2)
          = [f \in fields |-> IF f = "stakes" THEN [t EXCEPT ![a] = q] ELSE IF f = "ends" THEN e2
                              ELSE IF f = "best" THEN q ELSE IF f = "leader" THEN a ELSE lot[f]]
    BY <1>1 DEF RaisedBy
  <2>2. Lot(p, s, a, q, e2, [t EXCEPT ![a] = q])
          = [f \in fields |-> IF f = "stakes" THEN [t EXCEPT ![a] = q] ELSE IF f = "ends" THEN e2
                              ELSE IF f = "best" THEN q ELSE IF f = "leader" THEN a ELSE lot[f]]
    BY DEF Lot
  <2> QED
    BY <2>1, <2>2
<1>5. ASSUME NEW a
      PROVE  AwardedTo(lot, a) = Lot("sold", s, NoOne, 0, 0, [t EXCEPT ![a] = 0])
  <2>1. AwardedTo(lot, a)
          = [f \in fields |-> IF f = "stakes" THEN [t EXCEPT ![a] = 0] ELSE IF f = "ends" THEN 0
                              ELSE IF f = "best" THEN 0 ELSE IF f = "leader" THEN NoOne
                              ELSE IF f = "phase" THEN "sold" ELSE lot[f]]
    BY <1>1 DEF AwardedTo
  <2>2. Lot("sold", s, NoOne, 0, 0, [t EXCEPT ![a] = 0])
          = [f \in fields |-> IF f = "stakes" THEN [t EXCEPT ![a] = 0] ELSE IF f = "ends" THEN 0
                              ELSE IF f = "best" THEN 0 ELSE IF f = "leader" THEN NoOne
                              ELSE IF f = "phase" THEN "sold" ELSE lot[f]]
    BY DEF Lot
  <2> QED
    BY <2>1, <2>2
<1>6. ASSUME NEW a PROVE RefundedTo(lot, a) = Lot(p, s, l, b, e, [t EXCEPT ![a] = 0])
  <2>1. RefundedTo(lot, a)
          = [f \in fields |-> IF f = "stakes" THEN [t EXCEPT ![a] = 0] ELSE lot[f]]
    BY <1>1 DEF RefundedTo
  <2>2. Lot(p, s, l, b, e, [t EXCEPT ![a] = 0])
          = [f \in fields |-> IF f = "stakes" THEN [t EXCEPT ![a] = 0] ELSE lot[f]]
    BY DEF Lot
  <2> QED
    BY <2>1, <2>2
<1> QED
  BY <1>2, <1>3, <1>4, <1>5, <1>6

\* Calls that no auction notices.
LEMMA QuietAuctions ==
  ASSUME AuctionInv, auction_bids' = auction_bids, now' = now \/ now' = now + 1,
         \A v \in VaultIds : SameAuction(vaults[v], vaults'[v])
  PROVE  AuctionStep
<1>1. ASSUME NEW v \in VaultIds PROVE LotFor(vaults'[v], StakesOn(v)') = LotFor(vaults[v], StakesOn(v))
  BY DEF SameAuction, LotFor, PhaseOf, StakesOn
<1>2. Lots' = Lots
  BY <1>1, LotsAsRecords
<1>3. \A v \in VaultIds : AuctionRecorded(vaults'[v])
  BY DEF AuctionInv, AuctionRecorded, SameAuction
<1> QED
  BY <1>2, <1>3 DEF AuctionStep, AH!Next

\* Calls on one vault.
LEMMA OneAuction ==
  ASSUME AuctionInv, Inv', NEW v \in VaultIds, NEW new, AuctionRecorded(new),
         now' = now, vaults' = [vaults EXCEPT ![v] = new],
         \A w \in VaultIds \ {v}, a \in Accounts : auction_bids'[<<w, a>>] = auction_bids[<<w, a>>]
  PROVE  /\ \A w \in VaultIds : AuctionRecorded(vaults'[w])
         /\ Lots[v] = LotFor(vaults[v], StakesOn(v))
         /\ Lots'[v] = LotFor(new, StakesOn(v)')
         /\ AH!Becomes(v, LotFor(new, StakesOn(v)'))
<1>1. vaults \in [VaultIds -> VaultRecords]
  BY DEF AuctionInv, SafetyInv, Inv, TypeOK
<1>2. vaults'[v] = new /\ \A w \in VaultIds \ {v} : vaults'[w] = vaults[w]
  BY <1>1
<1>3. \A w \in VaultIds : AuctionRecorded(vaults'[w])
  BY <1>2 DEF AuctionInv
<1>4. ASSUME NEW w \in VaultIds \ {v} PROVE StakesOn(w)' = StakesOn(w)
  BY <1>4 DEF StakesOn
<1>5. Lots' = [Lots EXCEPT ![v] = LotFor(new, StakesOn(v)')]
  BY <1>2, <1>4, LotsAsRecords
<1> QED
  BY <1>2, <1>3, <1>5, LotsAsRecords DEF AH!Becomes

\* A call that changes the accounting of a vault and nothing of its auction.
LEMMA AccountingStep ==
  ASSUME AuctionInv, NEW v \in VaultIds, NEW new, SameAuction(vaults[v], new),
         now' = now, auction_bids' = auction_bids, vaults' = [vaults EXCEPT ![v] = new]
  PROVE  AuctionStep
<1>1. vaults \in [VaultIds -> VaultRecords]
  BY DEF AuctionInv, SafetyInv, Inv, TypeOK
<1>2. \A w \in VaultIds : SameAuction(vaults[w], vaults'[w])
  BY <1>1 DEF SameAuction
<1> QED
  BY <1>2, QuietAuctions

\* What any call on an open vault, or on one in auction, can rely on.
LEMMA LotFacts ==
  ASSUME AuctionInv, NEW v \in VaultIds
  PROVE  /\ vaults[v] \in VaultRecords /\ AuctionRecorded(vaults[v])
         /\ vaults[v].open => vaults[v].owner # NoOne /\ ~vaults[v].auction_settled
         /\ now \in Nat
BY AccountFacts DEF AuctionInv, SafetyInv, Inv, TypeOK, VaultOK

\* A vault goes back to its owner: it is closed, or restored.
LEMMA TakenBack ==
  ASSUME AuctionInv, Inv', NEW v \in VaultIds, NEW new, vaults[v].open,
         vaults[v].auction_highest_bid <= 0,
         new.owner = vaults[v].owner, new.open \in BOOLEAN,
         new.auction_open = FALSE, new.auction_settled = vaults[v].auction_settled,
         new.auction_highest_bidder = NoOne, new.auction_highest_bid = 0,
         new.auction_end_time = 0,
         now' = now, auction_bids' = auction_bids, vaults' = [vaults EXCEPT ![v] = new]
  PROVE  AuctionStep
<1> DEFINE old == vaults[v]
           phase == IF new.open THEN "held" ELSE "returned"
<1>1. /\ old \in VaultRecords /\ AuctionRecorded(old)
      /\ old.owner # NoOne /\ ~old.auction_settled
  BY LotFacts
<1>2. old.auction_highest_bid = 0 /\ old.auction_highest_bidder = NoOne
  BY <1>1 DEF AuctionRecorded, VaultRecords
<1>3. AuctionRecorded(new)
  BY DEF AuctionRecorded
<1>4. /\ \A w \in VaultIds : AuctionRecorded(vaults'[w])
      /\ Lots[v] = LotFor(old, StakesOn(v))
      /\ AH!Becomes(v, LotFor(new, StakesOn(v)'))
  BY <1>3, OneAuction
<1>5. PhaseOf(old) \in {"held", "on_sale"} /\ PhaseOf(new) = phase
  BY <1>1 DEF PhaseOf
<1>6. StakesOn(v)' = StakesOn(v)
  BY DEF StakesOn
<1>7. LotFor(new, StakesOn(v)') = MovedTo(Lots[v], phase, 0)
  <2>1. /\ new.owner = old.owner /\ new.auction_highest_bidder = old.auction_highest_bidder
        /\ new.auction_highest_bid = old.auction_highest_bid /\ new.auction_end_time = 0
    BY <1>2
  <2> HIDE DEF phase, old
  <2> QED
    BY <1>4, <1>5, <1>6, <2>1, LotUpdates DEF LotFor
<1>8. Lots[v].phase \in {"held", "on_sale"} /\ Lots[v].leader = NoOne
  BY <1>2, <1>4, <1>5 DEF LotFor, Lot
<1>9. phase \in {"held", "returned"}
  OBVIOUS
<1>10. AH!TakeBack(v)
  BY <1>4, <1>7, <1>8, <1>9 DEF AH!TakeBack, MovedTo
<1> QED
  BY <1>4, <1>10 DEF AuctionStep, AH!Next

LEMMA CreateIsTakeIn ==
  ASSUME AuctionInv, Inv', NEW caller \in Users, NEW vt \in TypeIds, NEW collateral_amount,
         NEW debt_amount, create_vault(caller, vt, collateral_amount, debt_amount)
  PROVE  AuctionStep
<1>1. vault_count < MaxVaults
  BY DEF create_vault
<1>2. PICK id \in VaultIds : id = vault_count + 1
  BY <1>1, VaultsAssumption DEF VaultIds, AuctionInv, SafetyInv, Inv, TypeOK
<1> DEFINE new == [NoVault EXCEPT !.owner = caller, !.vault_type_id = vt, !.open = TRUE,
                                  !.collateral_amount = collateral_amount,
                                  !.debt_shares = Div(debt_amount, current_rate(vt)),
                                  !.principal = debt_amount]
<1>3. vaults[id] = NoVault
  BY <1>2 DEF AuctionInv, SafetyInv, Recorded, VaultRecorded, Inv, TypeOK
<1>4. /\ now' = now /\ auction_bids' = auction_bids
      /\ vaults' = [vaults EXCEPT ![id] = new]
  BY <1>2 DEF create_vault
<1>5. /\ new.owner = caller /\ new.open /\ ~new.auction_open /\ ~new.auction_settled
      /\ new.auction_highest_bidder = NoOne /\ new.auction_highest_bid = 0
      /\ new.auction_end_time = 0
  BY DEF NoVault
<1> HIDE DEF new
<1>6. AuctionRecorded(new)
  BY <1>5 DEF AuctionRecorded
<1>7. /\ \A w \in VaultIds : AuctionRecorded(vaults'[w])
      /\ Lots[id] = LotFor(vaults[id], StakesOn(id))
      /\ AH!Becomes(id, LotFor(new, StakesOn(id)'))
  BY <1>4, <1>6, OneAuction
<1>8. StakesOn(id)' = StakesOn(id)
  BY <1>4 DEF StakesOn
<1>9. Lots[id] = Lot("none", NoOne, NoOne, 0, 0, StakesOn(id))
  BY <1>3, <1>7 DEF LotFor, PhaseOf, NoVault
<1>10. LotFor(new, StakesOn(id)') = Lot("held", caller, NoOne, 0, 0, StakesOn(id))
  BY <1>5, <1>8 DEF LotFor, PhaseOf
<1>11. TakenIn(Lots[id], caller) = Lot("held", caller, NoOne, 0, 0, StakesOn(id))
  BY <1>9, LotUpdates
<1>12. Lots[id].phase = "none"
  BY <1>9 DEF Lot
<1>13. AH!TakeIn(id, caller)
  BY <1>7, <1>10, <1>11, <1>12 DEF AH!TakeIn, TakenIn
<1> QED
  BY <1>7, <1>13, AccountFacts DEF AuctionStep, AH!Next

LEMMA OpenIsPutUp ==
  ASSUME AuctionInv, Inv', NEW v \in VaultIds, open_liquidation_auction(v)
  PROVE  AuctionStep
<1> DEFINE old == vaults[v]
           end_time == now + vault_types[old.vault_type_id].auction.auction_duration_seconds
           new == [old EXCEPT !.debt_shares = 0, !.principal = 0,
                              !.auction_open = TRUE, !.auction_end_time = end_time,
                              !.auction_highest_bidder = NoOne, !.auction_highest_bid = 0,
                              !.auction_debt_snapshot = vault_live_debt(old),
                              !.auction_principal_snapshot = old.principal]
<1>1. /\ old.open /\ ~old.auction_open /\ now' = now /\ auction_bids' = auction_bids
      /\ vaults' = [vaults EXCEPT ![v] = new]
  BY DEF open_liquidation_auction, Liquidatable
<1>2. /\ old \in VaultRecords /\ AuctionRecorded(old) /\ ~old.auction_settled
      /\ old.vault_type_id \in TypeIds /\ now \in Nat
  BY <1>1, LotFacts, LiveVaultFacts DEF AuctionInv
<1>3. end_time \in Nat /\ end_time >= now
  <2>1. vault_types[old.vault_type_id] \in TypeSettings
    BY <1>2 DEF AuctionInv, SafetyInv, Inv, TypeOK
  <2>2. vault_types[old.vault_type_id].auction.auction_duration_seconds \in Nat
    BY <2>1 DEF TypeSettings, AuctionTerms
  <2> QED
    BY <1>2, <2>2
<1> HIDE DEF end_time
<1>4. /\ new.owner = old.owner /\ new.auction_open /\ ~new.auction_settled
      /\ new.auction_highest_bidder = NoOne /\ new.auction_highest_bid = 0
      /\ new.auction_end_time = end_time
  BY <1>2 DEF VaultRecords
<1> HIDE DEF new
<1>5. AuctionRecorded(new)
  BY <1>4 DEF AuctionRecorded
<1>6. /\ \A w \in VaultIds : AuctionRecorded(vaults'[w])
      /\ Lots[v] = LotFor(old, StakesOn(v)) /\ Lots'[v] = LotFor(new, StakesOn(v)')
      /\ AH!Becomes(v, LotFor(new, StakesOn(v)'))
  BY <1>1, <1>5, OneAuction
<1>7. StakesOn(v)' = StakesOn(v)
  BY <1>1 DEF StakesOn
<1>8. Lots[v] = Lot("held", old.owner, NoOne, 0, 0, StakesOn(v))
  BY <1>1, <1>2, <1>6 DEF LotFor, PhaseOf, AuctionRecorded
<1>9. LotFor(new, StakesOn(v)') = Lot("on_sale", old.owner, NoOne, 0, end_time, StakesOn(v))
  BY <1>4, <1>7 DEF LotFor, PhaseOf
<1>10. MovedTo(Lots[v], "on_sale", end_time)
         = Lot("on_sale", old.owner, NoOne, 0, end_time, StakesOn(v))
  BY <1>8, LotUpdates
<1>11. Lots[v].phase = "held" /\ Lots'[v].ends = end_time
  BY <1>6, <1>8, <1>9 DEF Lot
<1>12. AH!PutUp(v)
  BY <1>3, <1>6, <1>9, <1>10, <1>11 DEF AH!PutUp, MovedTo
<1> QED
  BY <1>6, <1>12 DEF AuctionStep, AH!Next

LEMMA BidIsRaise ==
  ASSUME AuctionInv, Inv', NEW caller \in Users, NEW v \in VaultIds, NEW bid_amount \in Nat,
         bid(caller, v, bid_amount)
  PROVE  AuctionStep
<1> DEFINE old == vaults[v]
           terms == vault_types[old.vault_type_id].auction
           staked == auction_bids[<<v, caller>>]
           end_time == old.auction_end_time
           extended == /\ terms.extension_window_seconds > 0
                       /\ end_time - now <= terms.extension_window_seconds
           new_end_time == IF extended THEN end_time + terms.bid_extension_seconds ELSE end_time
           new == [old EXCEPT !.auction_highest_bidder = caller,
                              !.auction_highest_bid = bid_amount,
                              !.auction_end_time = new_end_time]
<1>1. /\ old.open /\ old.auction_open /\ now < end_time /\ bid_amount > 0
      /\ bid_amount >= min_next_bid(old) /\ bid_amount - staked > 0
      /\ now' = now
      /\ auction_bids' = [auction_bids EXCEPT ![<<v, caller>>] = bid_amount]
      /\ vaults' = [vaults EXCEPT ![v] = new]
  BY DEF bid, CanPay
<1>2. /\ old \in VaultRecords /\ AuctionRecorded(old) /\ ~old.auction_settled
      /\ old.vault_type_id \in TypeIds /\ caller \in Accounts /\ caller # NoOne
      /\ auction_bids \in [VaultIds \X Accounts -> Nat]
  BY <1>1, LotFacts, LiveVaultFacts, AccountFacts DEF AuctionInv, SafetyInv, Inv, TypeOK
<1>3. new_end_time \in Nat /\ new_end_time >= end_time
  <2>1. vault_types[old.vault_type_id] \in TypeSettings
    BY <1>2 DEF AuctionInv, SafetyInv, Inv, TypeOK
  <2>2. terms.bid_extension_seconds \in Nat /\ end_time \in Nat
    BY <1>2, <2>1 DEF TypeSettings, AuctionTerms, VaultRecords
  <2> QED
    BY <2>2
<1>4. staked \in Nat /\ bid_amount > staked
  BY <1>1, <1>2
<1>5. bid_amount >= old.auction_highest_bid
  <2>1. old.auction_highest_bid \in Nat
    BY <1>2 DEF VaultRecords
  <2> QED
    BY <1>1, <1>2, <2>1, NextBidAtLeastHighest DEF AuctionInv, SafetyInv
<1> HIDE DEF new_end_time
<1>6. /\ new.owner = old.owner /\ new.auction_open /\ ~new.auction_settled
      /\ new.auction_highest_bidder = caller /\ new.auction_highest_bid = bid_amount
      /\ new.auction_end_time = new_end_time
  BY <1>1, <1>2 DEF VaultRecords
<1> HIDE DEF new
<1>7. AuctionRecorded(new)
  BY <1>1, <1>2, <1>6 DEF AuctionRecorded
<1>8. \A w \in VaultIds \ {v}, a \in Accounts : auction_bids'[<<w, a>>] = auction_bids[<<w, a>>]
  BY <1>1, <1>2
<1>9. /\ \A w \in VaultIds : AuctionRecorded(vaults'[w])
      /\ Lots[v] = LotFor(old, StakesOn(v)) /\ Lots'[v] = LotFor(new, StakesOn(v)')
      /\ AH!Becomes(v, LotFor(new, StakesOn(v)'))
  BY <1>1, <1>7, <1>8, OneAuction
<1>10. StakesOn(v)' = [StakesOn(v) EXCEPT ![caller] = bid_amount] /\ StakesOn(v)[caller] = staked
  BY <1>1, <1>2 DEF StakesOn
<1> DEFINE stakes == StakesOn(v)
           lot == Lots[v]
<1>11. lot = Lot("on_sale", old.owner, old.auction_highest_bidder, old.auction_highest_bid,
                 end_time, stakes)
  BY <1>1, <1>2, <1>9 DEF LotFor, PhaseOf
<1>12. LotFor(new, StakesOn(v)') = Lot("on_sale", old.owner, caller, bid_amount, new_end_time,
                                       [stakes EXCEPT ![caller] = bid_amount])
  BY <1>6, <1>10 DEF LotFor, PhaseOf
<1>13. RaisedBy(lot, caller, bid_amount, new_end_time)
         = Lot("on_sale", old.owner, caller, bid_amount, new_end_time,
               [stakes EXCEPT ![caller] = bid_amount])
  BY <1>11, LotUpdates
<1>14. /\ lot.phase = "on_sale" /\ lot.best = old.auction_highest_bid /\ lot.ends = end_time
       /\ lot.stakes[caller] = staked
       /\ Lots'[v].best = bid_amount /\ Lots'[v].ends = new_end_time
  BY <1>9, <1>10, <1>11, <1>12 DEF Lot
<1>15. AH!Raise(v, caller)
  <2>1. AH!Becomes(v, [lot EXCEPT !.leader = caller, !.best = Lots'[v].best,
                                  !.ends = Lots'[v].ends, !.stakes[caller] = Lots'[v].best])
    BY <1>9, <1>12, <1>13, <1>14 DEF RaisedBy
  <2> HIDE DEF staked, end_time, old
  <2> QED
    BY <1>1, <1>3, <1>4, <1>5, <1>14, <2>1 DEF AH!Raise
<1> QED
  BY <1>2, <1>9, <1>15 DEF AuctionStep, AH!Next

LEMMA SettleIsAward ==
  ASSUME AuctionInv, Inv', NEW v \in VaultIds, settle_auction(v)
  PROVE  AuctionStep
<1> DEFINE old == vaults[v]
           winner == old.auction_highest_bidder
           new == [close_vault_record(old) EXCEPT !.auction_settled = TRUE]
<1>1. /\ old.open /\ old.auction_open /\ now >= old.auction_end_time /\ winner # NoOne
      /\ now' = now
      /\ auction_bids' = [auction_bids EXCEPT ![<<v, winner>>] = 0]
      /\ vaults' = [vaults EXCEPT ![v] = new]
  BY DEF settle_auction
<1>2. /\ old \in VaultRecords /\ ~old.auction_settled
      /\ auction_bids \in [VaultIds \X Accounts -> Nat]
  BY <1>1, LotFacts DEF AuctionInv, SafetyInv, Inv, TypeOK
<1>3. winner \in Accounts
  BY <1>1, <1>2, AccountFacts DEF VaultRecords
<1>4. /\ new.owner = old.owner /\ ~new.auction_open /\ new.auction_settled
      /\ new.auction_highest_bidder = NoOne /\ new.auction_highest_bid = 0
      /\ new.auction_end_time = 0
  BY <1>2 DEF VaultRecords, close_vault_record, clear_auction
<1> HIDE DEF new
<1>5. AuctionRecorded(new)
  BY <1>4 DEF AuctionRecorded
<1>6. \A w \in VaultIds \ {v}, a \in Accounts : auction_bids'[<<w, a>>] = auction_bids[<<w, a>>]
  BY <1>1, <1>2
<1>7. /\ \A w \in VaultIds : AuctionRecorded(vaults'[w])
      /\ Lots[v] = LotFor(old, StakesOn(v))
      /\ AH!Becomes(v, LotFor(new, StakesOn(v)'))
  BY <1>1, <1>5, <1>6, OneAuction
<1>8. StakesOn(v)' = [StakesOn(v) EXCEPT ![winner] = 0]
  BY <1>1, <1>2, <1>3 DEF StakesOn
<1> DEFINE stakes == StakesOn(v)
           lot == Lots[v]
<1>9. lot = Lot("on_sale", old.owner, winner, old.auction_highest_bid, old.auction_end_time, stakes)
  BY <1>1, <1>2, <1>7 DEF LotFor, PhaseOf
<1>10. LotFor(new, StakesOn(v)')
         = Lot("sold", old.owner, NoOne, 0, 0, [stakes EXCEPT ![winner] = 0])
  BY <1>4, <1>8 DEF LotFor, PhaseOf
<1>11. AwardedTo(lot, winner)
         = Lot("sold", old.owner, NoOne, 0, 0, [stakes EXCEPT ![winner] = 0])
  BY <1>9, LotUpdates
<1>12. lot.phase = "on_sale" /\ lot.leader = winner /\ lot.ends = old.auction_end_time
  BY <1>9 DEF Lot
<1>13. AH!Award(v)
  BY <1>1, <1>7, <1>10, <1>11, <1>12 DEF AH!Award, AwardedTo
<1> QED
  BY <1>7, <1>13 DEF AuctionStep, AH!Next

LEMMA ClaimIsRefund ==
  ASSUME AuctionInv, Inv', NEW caller \in Users, NEW v \in VaultIds, claim_refund(caller, v)
  PROVE  AuctionStep
<1> DEFINE old == vaults[v]
<1>1. /\ old.auction_settled /\ now' = now /\ vaults' = vaults
      /\ auction_bids' = [auction_bids EXCEPT ![<<v, caller>>] = 0]
  BY DEF claim_refund
<1>2. /\ old \in VaultRecords /\ AuctionRecorded(old) /\ caller \in Accounts
      /\ auction_bids \in [VaultIds \X Accounts -> Nat]
      /\ vaults \in [VaultIds -> VaultRecords]
  BY LotFacts, AccountFacts DEF AuctionInv, SafetyInv, Inv, TypeOK
<1>3. vaults' = [vaults EXCEPT ![v] = old]
  BY <1>1, <1>2
<1>4. \A w \in VaultIds \ {v}, a \in Accounts : auction_bids'[<<w, a>>] = auction_bids[<<w, a>>]
  BY <1>1, <1>2
<1> HIDE DEF old
<1>5. /\ \A w \in VaultIds : AuctionRecorded(vaults'[w])
      /\ Lots[v] = LotFor(vaults[v], StakesOn(v))
      /\ AH!Becomes(v, LotFor(old, StakesOn(v)'))
  BY <1>1, <1>2, <1>3, <1>4, OneAuction
<1>6. StakesOn(v)' = [StakesOn(v) EXCEPT ![caller] = 0]
  BY <1>1, <1>2 DEF StakesOn
<1> DEFINE stakes == StakesOn(v)
           lot == Lots[v]
<1>7. /\ lot = Lot("sold", old.owner, old.auction_highest_bidder, old.auction_highest_bid,
                   old.auction_end_time, stakes)
      /\ LotFor(old, StakesOn(v)')
           = Lot("sold", old.owner, old.auction_highest_bidder, old.auction_highest_bid,
                 old.auction_end_time, [stakes EXCEPT ![caller] = 0])
  BY <1>1, <1>5, <1>6 DEF LotFor, PhaseOf, old
<1>8. RefundedTo(lot, caller)
         = Lot("sold", old.owner, old.auction_highest_bidder, old.auction_highest_bid,
               old.auction_end_time, [stakes EXCEPT ![caller] = 0])
  BY <1>7, LotUpdates
<1>9. lot.phase = "sold"
  BY <1>7 DEF Lot
<1>10. AH!Refund(v, caller)
  BY <1>5, <1>7, <1>8, <1>9 DEF AH!Refund, RefundedTo
<1> QED
  BY <1>2, <1>5, <1>10 DEF AuctionStep, AH!Next

\* A repayment leaves who owns a vault, and its auction, as they were.
LEMMA RepaidVault ==
  ASSUME NEW vault \in VaultRecords, NEW amount
  PROVE  /\ LET paid == LiveRepayment(vault, amount).vault
            IN  SameAuction(vault, paid) /\ DOMAIN paid = DOMAIN vault
         /\ LET paid == AuctionRepayment(vault, amount).vault
            IN  SameAuction(vault, paid) /\ DOMAIN paid = DOMAIN vault
BY DEF LiveRepayment, AuctionRepayment, SameAuction, VaultRecords

LEMMA ClosedVault ==
  ASSUME NEW old \in VaultRecords, NEW vault, SameAuction(old, vault), DOMAIN vault = DOMAIN old
  PROVE  LET closed == close_vault_record(vault)
             restored == RestoredVault(vault)
         IN  /\ closed.owner = old.owner /\ closed.open \in BOOLEAN
             /\ closed.auction_open = FALSE /\ closed.auction_settled = old.auction_settled
             /\ closed.auction_highest_bidder = NoOne /\ closed.auction_highest_bid = 0
             /\ closed.auction_end_time = 0
             /\ restored.owner = old.owner /\ restored.open \in BOOLEAN
             /\ restored.auction_open = FALSE /\ restored.auction_settled = old.auction_settled
             /\ restored.auction_highest_bidder = NoOne /\ restored.auction_highest_bid = 0
             /\ restored.auction_end_time = 0
BY DEF close_vault_record, RestoredVault, clear_auction, SameAuction, VaultRecords

\* A call that closes a vault, or takes it out of its auction.
LEMMA ClosedIsTakenBack ==
  ASSUME AuctionInv, Inv', NEW v \in VaultIds, vaults[v].open, NEW vault,
         SameAuction(vaults[v], vault), DOMAIN vault = DOMAIN vaults[v],
         vaults[v].auction_highest_bid <= 0 \/ ~vaults[v].auction_open,
         now' = now, auction_bids' = auction_bids,
         \/ vaults' = [vaults EXCEPT ![v] = close_vault_record(vault)]
         \/ vaults' = [vaults EXCEPT ![v] = RestoredVault(vault)]
  PROVE  AuctionStep
<1>1. vaults[v] \in VaultRecords /\ AuctionRecorded(vaults[v])
  BY LotFacts
<1>2. vaults[v].auction_highest_bid <= 0
  BY <1>1 DEF AuctionRecorded
<1> QED
  BY <1>1, <1>2, ClosedVault, TakenBack

LEMMA OwnerCallAuctions ==
  ASSUME AuctionInv, Inv', NEW caller \in Users, NEW v \in VaultIds, OwnerCall(caller, v)
  PROVE  AuctionStep
<1>1. vaults[v] \in VaultRecords
  BY LotFacts
<1>2. CASE \E amount \in CollateralAmounts : deposit_collateral(caller, v, amount)
                                             \/ withdraw_collateral(caller, v, amount)
  <2>1. PICK new_collateral :
          /\ now' = now /\ auction_bids' = auction_bids
          /\ vaults' = [vaults EXCEPT ![v] = [vaults[v] EXCEPT !.collateral_amount = new_collateral]]
    BY <1>2 DEF deposit_collateral, withdraw_collateral
  <2>2. SameAuction(vaults[v], [vaults[v] EXCEPT !.collateral_amount = new_collateral])
    BY <1>1 DEF SameAuction, VaultRecords
  <2> QED
    BY <2>1, <2>2, AccountingStep
<1>3. CASE \E amount \in DebtAmounts : borrow(caller, v, amount)
  <2>1. PICK shares, principal :
          /\ now' = now /\ auction_bids' = auction_bids
          /\ vaults' = [vaults EXCEPT ![v] = [vaults[v] EXCEPT !.debt_shares = shares,
                                                               !.principal = principal]]
    BY <1>3 DEF borrow
  <2>2. SameAuction(vaults[v], [vaults[v] EXCEPT !.debt_shares = shares, !.principal = principal])
    BY <1>1 DEF SameAuction, VaultRecords
  <2> QED
    BY <2>1, <2>2, AccountingStep
<1>4. CASE close_vault(caller, v)
  <2> DEFINE done == LiveRepayment(vaults[v], vault_live_debt(vaults[v]))
  <2>1. /\ vaults[v].open /\ ~vaults[v].auction_open /\ now' = now /\ auction_bids' = auction_bids
        /\ vaults' = [vaults EXCEPT ![v] = close_vault_record(done.vault)]
    BY <1>4 DEF close_vault, OwnLiveVault, LiveVault
  <2>2. SameAuction(vaults[v], done.vault) /\ DOMAIN done.vault = DOMAIN vaults[v]
    BY <1>1, RepaidVault
  <2> HIDE DEF done
  <2> QED
    BY <2>1, <2>2, ClosedIsTakenBack
<1>5. CASE \E amount \in PaymentAmounts \cup {0, vaults[v].auction_debt_snapshot} :
              cure_auction(caller, v, amount)
  <2>1. PICK amount \in PaymentAmounts \cup {0, vaults[v].auction_debt_snapshot} :
           cure_auction(caller, v, amount)
    BY <1>5
  <2> DEFINE vt == vaults[v].vault_type_id
             done == IF amount > 0 THEN AuctionRepayment(vaults[v], amount)
                     ELSE [vault |-> vaults[v], books |-> books[vt], split |-> NoPayment]
  <2>2. /\ vaults[v].open /\ vaults[v].auction_highest_bid <= 0
        /\ now' = now /\ auction_bids' = auction_bids
        /\ \/ vaults' = [vaults EXCEPT ![v] = close_vault_record(done.vault)]
           \/ vaults' = [vaults EXCEPT ![v] = RestoredVault(done.vault)]
    BY <2>1 DEF cure_auction
  <2>3. SameAuction(vaults[v], done.vault) /\ DOMAIN done.vault = DOMAIN vaults[v]
    <3>1. CASE amount > 0
      BY <1>1, <3>1, RepaidVault
    <3>2. CASE ~(amount > 0)
      BY <3>2 DEF SameAuction
    <3> QED
      BY <3>1, <3>2
  <2> HIDE DEF done
  <2> QED
    BY <2>2, <2>3, ClosedIsTakenBack
<1> QED
  BY <1>2, <1>3, <1>4, <1>5 DEF OwnerCall

LEMMA LiquidateAuctions ==
  ASSUME AuctionInv, Inv', NEW caller \in Users, NEW v \in VaultIds, NEW repay_amount,
         liquidate(caller, v, repay_amount)
  PROVE  AuctionStep
<1> DEFINE repaid == IF repay_amount = 0 THEN required_partial_repayment(vaults[v])
                     ELSE repay_amount
           done == LiveRepayment(vaults[v], repaid)
           collateral_paid == collateral_out_for_repayment(vaults[v].vault_type_id, repaid)
           left == [done.vault EXCEPT !.collateral_amount = @ - collateral_paid]
           closes == vault_live_debt(left) <= DUST
<1>1. /\ vaults[v].open /\ ~vaults[v].auction_open /\ now' = now /\ auction_bids' = auction_bids
      /\ vaults' = [vaults EXCEPT ![v] = IF closes THEN close_vault_record(left) ELSE left]
  BY DEF liquidate, Liquidation, Liquidatable
<1>2. vaults[v] \in VaultRecords
  BY LotFacts
<1>3. SameAuction(vaults[v], done.vault) /\ DOMAIN done.vault = DOMAIN vaults[v]
  BY <1>2, RepaidVault
<1> HIDE DEF done
<1>4. SameAuction(vaults[v], left) /\ DOMAIN left = DOMAIN vaults[v]
  BY <1>2, <1>3 DEF SameAuction, VaultRecords
<1> HIDE DEF left, closes
<1>5. CASE closes
  BY <1>1, <1>4, <1>5, ClosedIsTakenBack
<1>6. CASE ~closes
  BY <1>1, <1>4, <1>6, AccountingStep
<1> QED
  BY <1>5, <1>6

LEMMA AnyonesCallAuctions ==
  ASSUME AuctionInv, Inv', NEW caller \in Users, NEW v \in VaultIds, AnyonesCall(caller, v)
  PROVE  AuctionStep
<1>1. CASE \E amount \in PaymentAmounts : repay(caller, v, amount)
  <2>1. PICK amount \in PaymentAmounts : repay(caller, v, amount)
    BY <1>1
  <2>2. /\ now' = now /\ auction_bids' = auction_bids
        /\ vaults' = [vaults EXCEPT ![v] = LiveRepayment(vaults[v], amount).vault]
    BY <2>1 DEF repay
  <2> QED
    BY <2>2, LotFacts, RepaidVault, AccountingStep
<1>2. CASE \E amount \in BidAmounts : bid(caller, v, amount)
  BY <1>2, BidIsRaise, VaultsAssumption
<1> QED
  BY <1>1, <1>2, LiquidateAuctions, ClaimIsRefund DEF AnyonesCall, liquidate_fast

LEMMA KeeperCallAuctions ==
  ASSUME AuctionInv, Inv', NEW v \in VaultIds, KeeperCall(v)
  PROVE  AuctionStep
<1>1. CASE cancel_auction_if_safe(v)
  <2>1. /\ vaults[v].open /\ vaults[v].auction_highest_bid <= 0
        /\ now' = now /\ auction_bids' = auction_bids
        /\ vaults' = [vaults EXCEPT ![v] = RestoredVault(vaults[v])]
    BY <1>1 DEF cancel_auction_if_safe
  <2>2. SameAuction(vaults[v], vaults[v])
    BY DEF SameAuction
  <2> QED
    BY <2>1, <2>2, ClosedIsTakenBack
<1> QED
  BY <1>1, OpenIsPutUp, SettleIsAward DEF KeeperCall

\* Every other step leaves vaults and escrow alone.
LEMMA ElsewhereAuctions ==
  ASSUME AuctionInv, UNCHANGED <<vaults, auction_bids>>, now' = now \/ now' = now + 1
  PROVE  AuctionStep
<1>1. \A v \in VaultIds : SameAuction(vaults[v], vaults'[v])
  BY DEF SameAuction
<1> QED
  BY <1>1, QuietAuctions

LEMMA NextImplementsAuction ==
  ASSUME AuctionInv, Inv', [Next]_vars PROVE AuctionStep
<1>1. ASSUME NEW caller \in Users, Call(caller) PROVE AuctionStep
  <2>1. CASE \E vt \in TypeIds, amount \in CollateralAmounts, debt \in DebtAmounts :
                create_vault(caller, vt, amount, debt)
    BY <2>1, CreateIsTakeIn
  <2>2. CASE \E v \in VaultIds : OwnerCall(caller, v) \/ AnyonesCall(caller, v)
    BY <2>2, OwnerCallAuctions, AnyonesCallAuctions
  <2>3. CASE \E vt \in TypeIds : LossCall(caller, vt) \/ TypeCall(caller, vt)
    <3>1. UNCHANGED <<vaults, auction_bids, now>>
      BY <2>3 DEF LossCall, recapitalize, sweep_surplus, TypeCall, set_vault_type_active,
            set_vault_type_fee, set_vault_type_limits, set_vault_type_ratios,
            set_vault_type_auction_config, set_vault_type_surplus_buffer_bps, ChangeType, positions
    <3> QED
      BY <3>1, ElsewhereAuctions
  <2>4. CASE GovernorCall(caller)
    <3>1. UNCHANGED <<vaults, auction_bids, now>>
      BY <2>4 DEF GovernorCall, add_vault_type, set_paused, set_savings_contract,
            set_treasury_address, start_governance_transfer, accept_governance, positions
    <3> QED
      BY <3>1, ElsewhereAuctions
  <2>5. CASE \E amount \in TransferAmounts, to \in Accounts : HolderTransfers(caller, amount, to)
    BY <2>5, ElsewhereAuctions DEF HolderTransfers, positions
  <2> QED
    BY <1>1, <2>1, <2>2, <2>3, <2>4, <2>5 DEF Call
<1>2. CASE \E vt \in TypeIds, amount \in LossAmounts \cup {0} : cover_bad_debt(vt, amount)
  BY <1>2, ElsewhereAuctions DEF cover_bad_debt, positions
<1>3. CASE \/ \E c \in Collaterals, quote \in Prices : OracleMoves(c, quote)
           \/ Tick
           \/ UNCHANGED vars
  BY <1>3, ElsewhereAuctions DEF OracleMoves, Tick, vars, positions
<1> QED
  BY <1>1, <1>2, <1>3, KeeperCallAuctions DEF Next

LEMMA InitImplementsAuction == Init => AuctionInv /\ AH!Init
<1> SUFFICES ASSUME Init PROVE AuctionInv /\ AH!Init
  OBVIOUS
<1>1. \A v \in VaultIds : vaults[v] = NoVault
  BY DEF Init
<1>2. \A v \in VaultIds : AuctionRecorded(vaults[v])
  BY <1>1 DEF AuctionRecorded, NoVault
<1>3. ASSUME NEW v \in VaultIds PROVE Lots[v] = AH!NoLot
  <2>1. StakesOn(v) = [a \in Accounts |-> 0]
    BY DEF StakesOn, Init
  <2> QED
    BY <1>1, <2>1, LotsAsRecords DEF LotFor, Lot, PhaseOf, NoVault, AH!NoLot
<1>4. Lots = [v \in VaultIds |-> AH!NoLot]
  BY <1>3, LotsAsRecords
<1> QED
  BY <1>2, <1>4, InitEstablishesSafety DEF AuctionInv, AH!Init, Init

THEOREM VaultsAuctionInvariant == Spec => []AuctionInv
<1>1. AuctionInv /\ Inv' /\ [Next]_vars => AuctionInv'
  <2>1. AuctionInv /\ Inv' /\ [Next]_vars => SafetyInv'
    BY NextIsSafe DEF AuctionInv, SafetyInv, SafeStep
  <2> QED
    BY <2>1, NextImplementsAuction DEF AuctionInv, AuctionStep
<1> QED
  BY <1>1, InitImplementsAuction, VaultsInvariant, PTL DEF Spec

\* The liquidation auctions implement the auctions of module Auction: what a
\* bidder has staked is spent for the vault's collateral or waits for it, bids
\* only rise, and a vault that somebody leads on cannot be taken out of its sale.
THEOREM VaultsImplementAuction == Spec => ImplementsAuction
<1>1. AuctionInv /\ Inv' /\ [Next]_vars => [AH!Next]_<<now, Lots>>
  BY NextImplementsAuction DEF AuctionStep
<1> QED
  BY <1>1, InitImplementsAuction, VaultsInvariant, VaultsAuctionInvariant, PTL
     DEF Spec, ImplementsAuction, AH!Spec

-----------------------------------------------------------------------------
(* The contracts together. *)


\* The supply of shares is their sum, and a share is worth at least par.
PoolInv ==
    /\ share_balances \in [Accounts -> Nat]
    /\ share_supply = Total(share_balances)
    /\ stable.balances[con_savings] >= share_supply

\* The vaults keep their invariant next to the PSM and the pool, and the reserve
\* token is never overdrawn, so that what the PSM pays out can be counted.
ProtocolInv ==
    /\ SafetyInv
    /\ reserve \in [Accounts -> Nat]
    /\ PoolInv

\* What has to be shown of a step.
UnbackedStep == Unbacked' <= Unbacked + SettlementRounding

SaversStep ==
    PriceKept(stable.balances[con_savings], share_supply,
              stable'.balances[con_savings], share_supply')

ProtocolStep == ProtocolInv' /\ UnbackedStep /\ SaversStep

LEMMA ProtocolAccounts ==
  /\ con_psm \in Accounts /\ con_savings \in Accounts /\ con_psm # con_savings
  /\ con_psm \notin Users /\ con_psm # con_vaults
  /\ con_savings \notin Users /\ con_savings # con_vaults
  BY ProtocolAssumption, AccountFacts

LEMMA InitEstablishesProtocolInv == ProtocolInit => ProtocolInv
<1> SUFFICES ASSUME ProtocolInit PROVE ProtocolInv
  OBVIOUS
<1>1. SafetyInv
  BY InitEstablishesSafety DEF ProtocolInit
<1>2. share_balances = [a \in Accounts |-> 0] /\ share_supply = 0 /\ reserve = InitialReserve
  BY DEF ProtocolInit
<1>3. stable.balances[con_savings] \in Nat
  BY <1>1, ProtocolAccounts DEF SafetyInv, Inv, TypeOK
<1> QED
  BY <1>1, <1>2, <1>3, TotalZero, ProtocolAssumption DEF ProtocolInv, PoolInv

-----------------------------------------------------------------------------
(* Stable that moves outside the vaults. *)

\* A call of another contract: the vaults see only that the ledger changed, and
\* that it took nothing of what they hold.
LEMMA LedgerMoves ==
  ASSUME SafetyInv, UNCHANGED unshared, stable' \in Ledgers,
         stable'.balances[con_vaults] >= stable.balances[con_vaults]
  PROVE  /\ SafetyInv'
         /\ Uncovered' = Uncovered + stable'.total_supply - stable.total_supply
         /\ Uncovered \in Int
         /\ SettlementRounding = 0
<1>1. UNCHANGED <<now, price, collateral, types, positions, wiring>>
  BY DEF unshared
<1>2. /\ books' = books /\ auction_bids' = auction_bids /\ vaults' = vaults
      /\ UNCHANGED <<now, price, vault_types, vault_type_count, vault_count, wiring>>
  BY <1>1 DEF types, positions
<1>3. Inv
  BY DEF SafetyInv
<1>4. stable'.balances[con_vaults] >= Total(SurplusIn(books')) + Total(auction_bids')
  <2>1. stable'.balances[con_vaults] \in Nat
    BY AccountFacts DEF Ledgers, LedgersOver
  <2> QED
    BY <1>2, <1>3, <2>1, CustodyTypes
<1>5. \A v \in VaultIds : VaultOK(v)'
  BY <1>1, <1>2, <1>3, PositionsKept
<1>6. books' \in [TypeIds -> BookRecords] /\ \A t \in TypeIds : TypeIdOK(t)'
  BY <1>1, <1>3, BooksKept
<1>7. /\ collateral' \in [Collaterals -> [Accounts -> Nat]]
      /\ vaults' \in [VaultIds -> VaultRecords]
      /\ auction_bids' \in [VaultIds \X Accounts -> Nat]
  BY <1>1, <1>2, <1>3 DEF Inv, TypeOK
<1>8. Inv'
  BY <1>2, <1>3, <1>4, <1>5, <1>6, <1>7, EscrowCallStep
<1>9. Recorded'
  BY <1>2 DEF SafetyInv, Recorded, TypeRecorded, VaultRecorded
<1>10. CollateralCustody'
  BY <1>1, <1>2 DEF SafetyInv, CollateralCustody, RecordedCollateral, CollateralOf
<1>11. TotalsCoverVaults'
  <2>1. \A t \in TypeIds : TotalsKept(t)
    BY <1>2 DEF TotalsKept
  <2> QED
    BY <1>2, <2>1, TotalsStay
<1>12. EscrowMatchesAuction'
  BY <1>2, EscrowStays
<1>13. Uncovered \in Int
  BY UncoveredType DEF SafetyInv, UncoveredCounts
<1>14. Uncovered' = Uncovered + stable'.total_supply - stable.total_supply
  <2> DEFINE owed == Total(InitialStable) + Total(PrincipalTotals(books))
                       + Total(FrozenPrincipalTotals(books)) + Total(BadDebts(books))
  <2>1. /\ Total(PrincipalTotals(books)) \in Nat /\ Total(FrozenPrincipalTotals(books)) \in Nat
        /\ Total(BadDebts(books)) \in Nat
    BY TotalsAreNatural, TotalType, AccountFacts DEF SafetyInv, NaturalTotals
  <2>2. Total(InitialStable) \in Nat
    BY TotalType, AccountFacts, VaultsAssumption
  <2>3. stable.total_supply \in Nat /\ stable'.total_supply \in Nat
    BY <1>3 DEF Inv, TypeOK, Ledgers, LedgersOver
  <2> QED
    BY <1>2, <2>1, <2>2, <2>3, UncoveredAsMaps
<1>15. SettlementRounding = 0
  <2>1. \A v \in VaultIds : ~(vaults'[v].auction_settled /\ ~vaults[v].auction_settled)
    BY <1>2
  <2>2. [v \in VaultIds |->
            IF vaults'[v].auction_settled /\ ~vaults[v].auction_settled
            THEN AtLeastZero(vaults[v].auction_principal_snapshot
                               - vaults[v].auction_debt_snapshot)
            ELSE 0]
          = [v \in VaultIds |-> 0]
    BY <2>1
  <2> QED
    BY <2>2, TotalZero DEF SettlementRounding
<1> QED
  BY <1>8, <1>9, <1>10, <1>11, <1>12, <1>13, <1>14, <1>15 DEF SafetyInv

\* Stable that only arrives at the pool makes a share worth more.
LEMMA PoolGains ==
  ASSUME ProtocolInv, stable' \in Ledgers, UNCHANGED pool,
         stable'.balances[con_savings] >= stable.balances[con_savings]
  PROVE  PoolInv' /\ SaversStep
<1> DEFINE assets == stable.balances[con_savings]
           new_assets == stable'.balances[con_savings]
<1>1. share_supply' = share_supply /\ share_balances' = share_balances
  BY DEF pool
<1>2. /\ assets \in Nat /\ new_assets \in Nat /\ new_assets >= assets
      /\ share_supply \in Nat /\ assets >= share_supply
  BY ProtocolAccounts, AccountFacts, TotalType
     DEF ProtocolInv, PoolInv, SafetyInv, Inv, Ledgers, LedgersOver
<1> HIDE DEF assets, new_assets
<1>3. new_assets >= share_supply
  BY <1>2
<1>4. new_assets * share_supply >= assets * share_supply
  <2>1. share_supply * assets <= share_supply * new_assets
    BY <1>2, ProductMonotonic
  <2> QED
    BY <1>2, <2>1, Z3
<1>5. PoolInv'
  BY <1>1, <1>3 DEF ProtocolInv, PoolInv, new_assets
<1>6. SaversStep
  BY <1>1, <1>3, <1>4 DEF SaversStep, PriceKept, assets, new_assets
<1> QED
  BY <1>5, <1>6

-----------------------------------------------------------------------------
(* The PSM. *)

LEMMA PsmFeeWithinAmount ==
  ASSUME NEW amount \in Nat
  PROVE  P!fee_on(amount, PsmFee) \in Nat /\ P!fee_on(amount, PsmFee) <= amount
<1> USE VaultsAssumption, ProtocolAssumption
<1>1. amount * PsmFee \in Nat /\ amount * PsmFee <= amount * BPS_DENOMINATOR
  BY ProductOfNats, ProductMonotonic
<1>2. amount * PsmFee <= BPS_DENOMINATOR * amount /\ BPS_DENOMINATOR * 0 <= amount * PsmFee
  BY <1>1, Z3
<1> QED
  BY <1>1, <1>2, QuotientBounded, QuotientAtLeast, Floor DEF P!fee_on

\* The fee goes to the governor, once, out of what the PSM holds.
LEMMA PsmFeePayment ==
  ASSUME SafetyInv, NEW b \in [Accounts -> Nat], NEW fee \in Nat, b[con_psm] >= fee
  PROVE  /\ P!FeePaid(b, fee) \in [Accounts -> Nat]
         /\ P!FeePaid(b, fee)[con_psm] >= b[con_psm] - fee
<1> USE ProtocolAccounts
<1>1. P!fee_destination \in Accounts
  BY AccountFacts DEF SafetyInv, Inv, TypeOK, P!fee_destination
<1>2. CASE fee > 0 /\ P!fee_destination # con_psm
  <2>1. P!FeePaid(b, fee) = Moved(b, con_psm, P!fee_destination, fee)
    BY <1>2 DEF P!FeePaid, P!Moved, Moved
  <2>2. Moved(b, con_psm, P!fee_destination, fee) \in [Accounts -> Nat]
    BY <1>1, MovedType
  <2>3. Moved(b, con_psm, P!fee_destination, fee)[con_psm] = b[con_psm] - fee
    BY <1>1, <1>2 DEF Moved
  <2> QED
    BY <2>1, <2>2, <2>3
<1>3. CASE ~(fee > 0 /\ P!fee_destination # con_psm)
  BY <1>3 DEF P!FeePaid
<1> QED
  BY <1>2, <1>3

\* The reserve received covers the stable minted.
LEMMA ProtocolMintStep ==
  ASSUME ProtocolInv, NEW caller \in Users, NEW amount \in Nat, mint_stable(caller, amount)
  PROVE  ProtocolStep
<1> DEFINE fee == P!fee_on(amount, PsmFee)
           paid_in == Moved(reserve, caller, con_psm, amount)
           out == amount - fee
<1> USE ProtocolAccounts, AccountFacts
<1>1. /\ reserve \in [Accounts -> Nat] /\ stable \in LedgersOver(Accounts)
      /\ caller \in Accounts /\ caller # con_psm /\ reserve[caller] >= amount
      /\ SafetyInv
  BY DEF ProtocolInv, SafetyInv, Inv, Ledgers, mint_stable, P!mint_stable, P!CanPay
<1>2. fee \in Nat /\ out \in Nat
  BY PsmFeeWithinAmount
<1>3. paid_in \in [Accounts -> Nat] /\ paid_in[con_psm] = reserve[con_psm] + amount
  <2>1. paid_in \in [Accounts -> Nat]
    BY <1>1, MovedType
  <2> QED
    BY <1>1, <2>1 DEF Moved
<1>4. /\ reserve' = P!FeePaid(paid_in, fee) /\ stable' = LedgerMint(stable, caller, out)
      /\ UNCHANGED <<unshared, pool>>
  BY DEF mint_stable, P!mint_stable, P!Moved, Moved, P!LedgerMint, LedgerMint
<1>5. reserve[con_psm] \in Nat /\ out + fee = amount
  BY <1>1, <1>2
<1> HIDE DEF fee, paid_in, out
<1>6. paid_in[con_psm] >= fee
  BY <1>2, <1>3, <1>5
<1>7. reserve' \in [Accounts -> Nat] /\ reserve'[con_psm] >= reserve[con_psm] + out
  BY <1>1, <1>2, <1>3, <1>4, <1>5, <1>6, PsmFeePayment
<1>8. /\ stable' \in LedgersOver(Accounts) /\ stable'.total_supply = stable.total_supply + out
      /\ \A a \in Accounts : stable'.balances[a] >= stable.balances[a]
  <2>1. /\ stable' \in LedgersOver(Accounts)
        /\ \A a \in Accounts : stable'.balances[a] >= stable.balances[a]
    BY ONLY AccountFacts, <1>1, <1>2, <1>4, MintKeepsLedger
  <2>2. stable'.total_supply = stable.total_supply + out
    BY ONLY <1>4 DEF LedgerMint
  <2> QED
    BY <2>1, <2>2
<1>9. /\ SafetyInv'
      /\ Uncovered' = Uncovered + stable'.total_supply - stable.total_supply
      /\ Uncovered \in Int /\ SettlementRounding = 0
  BY <1>1, <1>4, <1>8, LedgerMoves DEF Ledgers
<1>10. PoolInv' /\ SaversStep
  BY <1>4, <1>8, PoolGains DEF Ledgers
<1>11. UnbackedStep
  <2>1. stable.total_supply \in Nat /\ reserve'[con_psm] \in Nat
    BY <1>1, <1>7 DEF LedgersOver
  <2> QED
    BY <1>2, <1>5, <1>7, <1>8, <1>9, <2>1 DEF UnbackedStep, Unbacked
<1> QED
  BY <1>7, <1>9, <1>10, <1>11 DEF ProtocolStep, ProtocolInv

\* The reserve paid out, with its fee, is no more than the stable burned.
LEMMA ProtocolRedeemStep ==
  ASSUME ProtocolInv, NEW caller \in Users, NEW amount \in Nat, redeem_stable(caller, amount)
  PROVE  ProtocolStep
<1> DEFINE fee == P!fee_on(amount, PsmFee)
           out == amount - fee
           paid_out == Moved(reserve, con_psm, caller, out)
           pulled == LedgerTransfer(stable, caller, con_psm, amount)
<1> USE ProtocolAccounts, AccountFacts
<1>1. /\ reserve \in [Accounts -> Nat] /\ stable \in LedgersOver(Accounts)
      /\ caller \in Accounts /\ caller # con_psm /\ caller # con_vaults
      /\ stable.balances[caller] >= amount
      /\ SafetyInv
  BY VaultsAssumption
     DEF ProtocolInv, SafetyInv, Inv, Ledgers, redeem_stable, P!redeem_stable, P!CanPay
<1>2. fee \in Nat /\ out \in Nat
  BY PsmFeeWithinAmount
<1>3. reserve[con_psm] >= out + fee
  BY DEF redeem_stable, P!redeem_stable
<1>4. /\ reserve' = P!FeePaid(paid_out, fee)
      /\ stable' = LedgerBurn(pulled, con_psm, amount)
      /\ UNCHANGED <<unshared, pool>>
  BY DEF redeem_stable, P!redeem_stable, P!Moved, Moved, P!LedgerTransfer, LedgerTransfer,
         P!LedgerBurn, LedgerBurn
<1>5. reserve[con_psm] \in Nat /\ out + fee = amount
  BY <1>1, <1>2
<1> HIDE DEF fee, out, paid_out, pulled
<1>6. paid_out \in [Accounts -> Nat] /\ paid_out[con_psm] = reserve[con_psm] - out
  <2>1. reserve[con_psm] >= out
    BY <1>2, <1>3, <1>5
  <2>2. paid_out \in [Accounts -> Nat]
    BY <1>1, <1>2, <2>1, MovedType DEF paid_out
  <2> QED
    BY <1>1, <1>2, <2>2 DEF Moved, paid_out
<1>7. paid_out[con_psm] >= fee
  BY <1>2, <1>3, <1>5, <1>6
<1>8. reserve' \in [Accounts -> Nat] /\ reserve'[con_psm] >= reserve[con_psm] - amount
  BY <1>1, <1>2, <1>4, <1>5, <1>6, <1>7, PsmFeePayment
<1>9. /\ pulled \in LedgersOver(Accounts)
      /\ pulled.total_supply = stable.total_supply
      /\ pulled.balances[con_psm] = stable.balances[con_psm] + amount
      /\ \A a \in Accounts :
            pulled.balances[a] >= stable.balances[a] - (IF a = caller THEN amount ELSE 0)
  BY ONLY <1>1, ProtocolAccounts, AccountFacts, amount \in Nat, TransferKeepsLedger DEF pulled
<1>10. pulled.balances[con_psm] >= amount /\ pulled.balances \in [Accounts -> Nat]
  BY <1>1, <1>9 DEF LedgersOver
<1>11. stable' \in LedgersOver(Accounts) /\ stable'.total_supply = stable.total_supply - amount
  BY <1>4, <1>9, <1>10, BurnKeepsLedger
<1>12. /\ stable'.balances[con_vaults] >= stable.balances[con_vaults]
       /\ stable'.balances[con_savings] >= stable.balances[con_savings]
  <2>1. /\ stable'.balances[con_vaults] = pulled.balances[con_vaults]
        /\ stable'.balances[con_savings] = pulled.balances[con_savings]
    BY <1>4, <1>10 DEF LedgerBurn
  <2>2. stable.balances[con_vaults] \in Nat /\ stable.balances[con_savings] \in Nat
    BY <1>1 DEF LedgersOver
  <2> QED
    BY <1>1, <1>9, <2>1, <2>2
<1>13. /\ SafetyInv'
       /\ Uncovered' = Uncovered + stable'.total_supply - stable.total_supply
       /\ Uncovered \in Int /\ SettlementRounding = 0
  BY <1>1, <1>4, <1>11, <1>12, LedgerMoves DEF Ledgers
<1>14. PoolInv' /\ SaversStep
  BY <1>4, <1>11, <1>12, PoolGains DEF Ledgers
<1>15. UnbackedStep
  <2>1. stable.total_supply \in Nat /\ reserve'[con_psm] \in Nat
    BY <1>1, <1>8 DEF LedgersOver
  <2> QED
    BY <1>5, <1>8, <1>11, <1>13, <2>1 DEF UnbackedStep, Unbacked
<1> QED
  BY <1>8, <1>13, <1>14, <1>15 DEF ProtocolStep, ProtocolInv

-----------------------------------------------------------------------------
(* The savings pool. *)

\* A transfer between accounts other than the vaults, and the whole step.
LEMMA TransferBacked ==
  ASSUME ProtocolInv, UNCHANGED unshared, UNCHANGED reserve,
         NEW from \in Accounts \ {con_vaults}, NEW to \in Accounts, NEW amount \in Nat,
         stable.balances[from] >= amount, stable' = LedgerTransfer(stable, from, to, amount)
  PROVE  SafetyInv' /\ UnbackedStep /\ stable' \in Ledgers
<1> USE ProtocolAccounts, AccountFacts
<1>1. SafetyInv /\ stable \in LedgersOver(Accounts) /\ reserve \in [Accounts -> Nat]
  BY DEF ProtocolInv, SafetyInv, Inv, Ledgers
<1>2. /\ stable' \in LedgersOver(Accounts)
      /\ stable'.total_supply = stable.total_supply
      /\ \A a \in Accounts :
            stable'.balances[a] >= stable.balances[a] - (IF a = from THEN amount ELSE 0)
  BY <1>1, TransferKeepsLedger
<1>3. stable'.balances[con_vaults] >= stable.balances[con_vaults]
  <2>1. stable.balances[con_vaults] \in Nat
    BY <1>1 DEF LedgersOver
  <2>2. stable'.balances[con_vaults] >= stable.balances[con_vaults] - 0
    BY <1>2
  <2> QED
    BY <2>1, <2>2
<1>4. /\ SafetyInv'
      /\ Uncovered' = Uncovered + stable'.total_supply - stable.total_supply
      /\ Uncovered \in Int /\ SettlementRounding = 0
  BY <1>1, <1>2, <1>3, LedgerMoves DEF Ledgers
<1>5. stable.total_supply \in Nat /\ reserve[con_psm] \in Nat
  BY <1>1 DEF LedgersOver
<1>6. UnbackedStep
  BY <1>2, <1>4, <1>5 DEF UnbackedStep, Unbacked
<1> QED
  BY <1>2, <1>4, <1>6 DEF Ledgers

LEMMA PoolTypes ==
  ASSUME ProtocolInv
  PROVE  /\ stable.balances \in [Accounts -> Nat] /\ share_balances \in [Accounts -> Nat]
         /\ stable.balances[con_savings] \in Nat /\ share_supply \in Nat
         /\ share_supply = Total(share_balances)
         /\ stable.balances[con_savings] >= share_supply
  BY ProtocolAccounts, AccountFacts, TotalType
     DEF ProtocolInv, PoolInv, SafetyInv, Inv, Ledgers, LedgersOver

\* The shares minted are worth no more than the stable paid in.
LEMMA ProtocolDepositStep ==
  ASSUME ProtocolInv, NEW caller \in Users, NEW assets \in Nat, deposit(caller, assets)
  PROVE  ProtocolStep
<1> DEFINE minted == SV!preview_deposit(assets)
           A == stable.balances[con_savings]
           held == share_balances[caller] + minted
<1> USE ProtocolAccounts, AccountFacts
<1>1. /\ stable.balances \in [Accounts -> Nat] /\ share_balances \in [Accounts -> Nat]
      /\ A \in Nat /\ share_supply \in Nat /\ share_supply = Total(share_balances)
      /\ A >= share_supply
      /\ caller \in Accounts /\ caller # con_savings /\ caller # con_vaults
  BY PoolTypes, VaultsAssumption
<1>2. minted = IF share_supply <= 0 \/ A <= 0 THEN assets
               ELSE (((assets * share_supply) \div SCALE) * SCALE) \div A
  BY DEF SV!preview_deposit, SV!current_total_assets, SV!Mul, SV!Div
<1>3. /\ minted > 0 /\ assets > 0 /\ stable.balances[caller] >= assets
      /\ stable' = LedgerTransfer(stable, caller, con_savings, assets)
      /\ share_balances' = [share_balances EXCEPT ![caller] = held]
      /\ share_supply' = share_supply + minted
      /\ UNCHANGED <<unshared, reserve>>
  BY <1>1 DEF deposit, CanPay, SV!deposit, SV!SetSupply
<1>4. minted \in Nat /\ PriceKept(A, share_supply, A + assets, share_supply + minted)
  <2>1. SCALE \in Nat /\ SCALE > 0
    BY ScaleAssumption
  <2> HIDE DEF minted, A
  <2> QED
    BY <1>1, <1>2, <1>3, <2>1, DepositArithmetic
<1>5. share_balances[caller] \in Nat /\ held \in Nat
  BY <1>1, <1>4
<1>6. SafetyInv' /\ UnbackedStep /\ stable' \in Ledgers
  BY <1>1, <1>3, TransferBacked
<1>7. stable'.balances[con_savings] = A + assets
  BY ONLY ProtocolAccounts, AccountFacts, assets \in Nat, <1>1, <1>3, TransferKeepsLedger,
          ProtocolInv DEF ProtocolInv, SafetyInv, Inv, Ledgers
<1>8. held - share_balances[caller] = minted
  BY <1>4, <1>5
<1> HIDE DEF minted, A, held
<1>9. Total(share_balances') = share_supply'
  <2>1. Total([share_balances EXCEPT ![caller] = held])
          = Total(share_balances) + held - share_balances[caller]
    BY ONLY AccountFacts, <1>1, <1>5, TotalUpdate
  <2> QED
    BY <1>1, <1>3, <1>4, <1>5, <1>8, <2>1
<1>10. PoolInv' /\ SaversStep
  <2>1. share_balances' \in [Accounts -> Nat]
    BY <1>1, <1>3, <1>5
  <2>2. stable'.balances[con_savings] >= share_supply'
    BY <1>3, <1>4, <1>7 DEF PriceKept
  <2>3. SaversStep
    BY <1>3, <1>4, <1>7 DEF SaversStep, A
  <2> QED
    BY <1>9, <2>1, <2>2, <2>3 DEF PoolInv
<1> QED
  BY <1>3, <1>6, <1>10 DEF ProtocolStep, ProtocolInv

\* The stable paid out is worth no more than the shares burned.
LEMMA ProtocolWithdrawStep ==
  ASSUME ProtocolInv, NEW caller \in Users, NEW burned \in Nat, withdraw(caller, burned)
  PROVE  ProtocolStep
<1> DEFINE paid == SV!preview_redeem(burned)
           A == stable.balances[con_savings]
           held == share_balances[caller] - burned
<1> USE ProtocolAccounts, AccountFacts
<1>1. /\ stable.balances \in [Accounts -> Nat] /\ share_balances \in [Accounts -> Nat]
      /\ A \in Nat /\ share_supply \in Nat /\ share_supply = Total(share_balances)
      /\ A >= share_supply
      /\ caller \in Accounts /\ caller # con_savings /\ caller # con_vaults
  BY PoolTypes, VaultsAssumption
<1>2. paid = (((burned * A) \div SCALE) * SCALE) \div share_supply
  BY DEF SV!preview_redeem, SV!current_total_assets, SV!Mul, SV!Div
<1>3. /\ share_supply > 0 /\ burned > 0 /\ share_balances[caller] >= burned
      /\ paid > 0 /\ A >= paid
      /\ stable' = LedgerTransfer(stable, con_savings, caller, paid)
      /\ share_balances' = [share_balances EXCEPT ![caller] = held]
      /\ share_supply' = share_supply - burned
      /\ UNCHANGED <<unshared, reserve>>
  BY <1>1 DEF withdraw, CanPay, SV!withdraw, SV!SetSupply, SV!CanPay
<1>4. share_balances[caller] \in Nat /\ held \in Nat
  BY <1>1, <1>3
<1>5. burned <= share_supply
  <2>1. share_balances[caller] <= Total(share_balances)
    BY <1>1, TotalAtLeast
  <2> QED
    BY <1>1, <1>3, <1>4, <2>1
<1>6. held - share_balances[caller] = -burned
  BY <1>4
<1>7. paid \in Nat /\ PriceKept(A, share_supply, A - paid, share_supply - burned)
  <2>1. SCALE \in Nat /\ SCALE > 0
    BY ScaleAssumption
  <2> HIDE DEF paid, A
  <2> QED
    BY <1>1, <1>2, <1>3, <1>5, <2>1, WithdrawalArithmetic
<1> HIDE DEF paid, held
<1>8. SafetyInv' /\ UnbackedStep /\ stable' \in Ledgers
  BY <1>1, <1>3, <1>7, TransferBacked
<1>9. stable'.balances[con_savings] = A - paid
  <2>1. stable'.balances = Moved(stable.balances, con_savings, caller, paid)
    <3>1. stable \in [balances : [Accounts -> Nat], total_supply : Nat]
      BY DEF ProtocolInv, SafetyInv, Inv, TypeOK
    <3> QED
      BY <1>3, <3>1 DEF LedgerTransfer
  <2> QED
    BY <1>1, <1>3, <1>7, <2>1 DEF Moved
<1> HIDE DEF A
<1>10. Total(share_balances') = share_supply'
  <2>1. Total([share_balances EXCEPT ![caller] = held])
          = Total(share_balances) + held - share_balances[caller]
    BY ONLY AccountFacts, <1>1, <1>4, TotalUpdate
  <2> QED
    BY <1>1, <1>3, <1>4, <1>6, <2>1
<1>11. PoolInv' /\ SaversStep
  <2>1. share_balances' \in [Accounts -> Nat]
    BY <1>1, <1>3, <1>4
  <2>2. stable'.balances[con_savings] >= share_supply'
    BY <1>3, <1>7, <1>9 DEF PriceKept
  <2>3. SaversStep
    BY <1>3, <1>7, <1>9 DEF SaversStep, A
  <2> QED
    BY <1>10, <2>1, <2>2, <2>3 DEF PoolInv
<1> QED
  BY <1>3, <1>8, <1>11 DEF ProtocolStep, ProtocolInv

-----------------------------------------------------------------------------
(* What the vaults do to stable that is not theirs and not a caller's. *)

Payers == Users \cup {con_vaults}

IntLedgers == [balances : [Accounts -> Int], total_supply : Int]

\* Nothing is taken from an account that is neither a caller's nor the vaults'.
Spares(before, after) ==
    after \in IntLedgers /\ \A a \in Accounts \ Payers : after.balances[a] >= before.balances[a]

LEMMA SparesItself ==
  ASSUME NEW ledger \in IntLedgers
  PROVE  Spares(ledger, ledger)
  BY DEF Spares, IntLedgers

LEMMA SparesBoth ==
  ASSUME NEW ledger \in IntLedgers, NEW middle, Spares(ledger, middle), NEW after, Spares(middle, after)
  PROVE  Spares(ledger, after)
<1>1. ASSUME NEW a \in Accounts \ Payers PROVE after.balances[a] >= ledger.balances[a]
  <2>1. /\ ledger.balances[a] \in Int /\ middle.balances[a] \in Int /\ after.balances[a] \in Int
        /\ middle.balances[a] >= ledger.balances[a] /\ after.balances[a] >= middle.balances[a]
    BY DEF Spares, IntLedgers
  <2> QED
    BY <2>1
<1> QED
  BY <1>1 DEF Spares

LEMMA TransferSpares ==
  ASSUME NEW ledger \in IntLedgers, NEW from \in Payers, NEW to \in Accounts, NEW amount \in Nat
  PROVE  Spares(ledger, LedgerTransfer(ledger, from, to, amount))
<1> DEFINE b == ledger.balances
           m == Moved(b, from, to, amount)
<1>1. b \in [Accounts -> Int] /\ ledger.total_supply \in Int /\ from \in Accounts
  BY AccountFacts DEF IntLedgers, Payers
<1>2. LedgerTransfer(ledger, from, to, amount)
        = [balances |-> m, total_supply |-> ledger.total_supply]
  BY DEF LedgerTransfer, IntLedgers
<1>3. m \in [Accounts -> Int] /\ \A a \in Accounts \ Payers : m[a] >= b[a]
  BY <1>1 DEF Moved
<1> HIDE DEF m
<1> QED
  BY <1>1, <1>2, <1>3 DEF Spares, IntLedgers

LEMMA MintSpares ==
  ASSUME NEW ledger \in IntLedgers, NEW to \in Accounts, NEW amount \in Nat
  PROVE  Spares(ledger, LedgerMint(ledger, to, amount))
<1> DEFINE b == ledger.balances
           m == [b EXCEPT ![to] = @ + amount]
<1>1. b \in [Accounts -> Int] /\ ledger.total_supply + amount \in Int
  BY DEF IntLedgers
<1>2. m \in [Accounts -> Int] /\ \A a \in Accounts : m[a] >= b[a]
  BY <1>1
<1>3. LedgerMint(ledger, to, amount)
        = [balances |-> m, total_supply |-> ledger.total_supply + amount]
  BY DEF LedgerMint
<1> HIDE DEF m
<1> QED
  BY <1>1, <1>2, <1>3 DEF Spares, IntLedgers

LEMMA BurnSpares ==
  ASSUME NEW ledger \in IntLedgers, NEW from \in Payers, NEW amount \in Int
  PROVE  Spares(ledger, LedgerBurn(ledger, from, amount))
<1> DEFINE b == ledger.balances
           m == [b EXCEPT ![from] = @ - amount]
<1>1. b \in [Accounts -> Int] /\ ledger.total_supply - amount \in Int /\ from \in Accounts
  BY AccountFacts DEF IntLedgers, Payers
<1>2. m \in [Accounts -> Int] /\ \A a \in Accounts \ Payers : m[a] >= b[a]
  <2> HIDE DEF b
  <2> QED
    BY <1>1
<1>3. LedgerBurn(ledger, from, amount)
        = [balances |-> m, total_supply |-> ledger.total_supply - amount]
  BY DEF LedgerBurn
<1> HIDE DEF m
<1> QED
  BY <1>1, <1>2, <1>3 DEF Spares, IntLedgers

LEMMA PaidOutSpares ==
  ASSUME Inv, NEW vt \in TypeIds, NEW ledger \in IntLedgers,
         NEW split, split.fee \in Nat, split.principal \in Nat
  PROVE  Spares(ledger, PaidOut(ledger, vt, split))
<1> DEFINE sent == split.fee - buffer_amount(vt, split.fee)
           routed == LedgerTransfer(ledger, con_vaults, fee_destination, sent)
<1>1. sent \in Nat
  BY BufferFacts
<1>2. con_vaults \in Payers /\ fee_destination \in Accounts
  BY FeeDestinationType DEF Payers
<1> HIDE DEF sent
<1>3. Spares(ledger, routed)
  BY <1>1, <1>2, TransferSpares
<1>4. PaidOut(ledger, vt, split) = LedgerBurn(routed, con_vaults, split.principal)
  BY DEF PaidOut, sent
<1> HIDE DEF routed
<1>5. Spares(routed, PaidOut(ledger, vt, split))
  BY <1>2, <1>3, <1>4, BurnSpares DEF Spares
<1> QED
  BY <1>3, <1>5, SparesBoth

\* A payment into a debt, and what leaves the contract for it.
LEMMA PaymentSpares ==
  ASSUME Inv, NEW caller \in Users, NEW vt \in TypeIds, NEW amount \in Nat,
         NEW split, split.fee \in Nat, split.principal \in Nat,
         stable' = PaidOut(LedgerTransfer(stable, caller, con_vaults, amount), vt, split)
  PROVE  Spares(stable, stable')
<1> DEFINE pulled == LedgerTransfer(stable, caller, con_vaults, amount)
<1>1. stable \in IntLedgers /\ caller \in Payers /\ con_vaults \in Accounts
  BY AccountFacts DEF Inv, TypeOK, IntLedgers, Payers
<1>2. Spares(stable, pulled)
  BY <1>1, TransferSpares
<1> HIDE DEF pulled
<1>3. Spares(pulled, PaidOut(pulled, vt, split))
  BY <1>2, PaidOutSpares DEF Spares
<1> QED
  BY <1>1, <1>2, <1>3, SparesBoth DEF pulled

LEMMA RepaymentSpares ==
  ASSUME Inv, NEW caller \in Users, NEW v \in VaultIds, vaults[v].open, NEW amount \in Nat,
         stable' = PaidOut(LedgerTransfer(stable, caller, con_vaults, amount),
                           vaults[v].vault_type_id, LiveRepayment(vaults[v], amount).split)
  PROVE  Spares(stable, stable')
<1> DEFINE split == LiveRepayment(vaults[v], amount).split
<1>1. vaults[v] \in VaultRecords /\ vaults[v].vault_type_id \in TypeIds
  BY OpenVaultFacts
<1>2. split.fee \in Nat /\ split.principal \in Nat
  BY <1>1, LiveRepaymentFacts
<1>3. stable' = PaidOut(LedgerTransfer(stable, caller, con_vaults, amount),
                        vaults[v].vault_type_id, split)
  OBVIOUS
<1> HIDE DEF split
<1> QED
  BY <1>1, <1>2, <1>3, PaymentSpares

LEMMA SettleSpares ==
  ASSUME Inv, NEW v \in VaultIds, settle_auction(v)
  PROVE  Spares(stable, stable')
<1> DEFINE vt == vaults[v].vault_type_id
           debt == vaults[v].auction_debt_snapshot
           principal == vaults[v].auction_principal_snapshot
           winning_bid == vaults[v].auction_highest_bid
           split == split_payment(debt, principal, winning_bid)
           excess == winning_bid - split.fee - split.principal
           paid == PaidOut(stable, vt, split)
<1>1. /\ vaults[v].open
      /\ stable' = LedgerTransfer(paid, con_vaults, vaults[v].owner, excess)
  BY DEF settle_auction
<1>2. /\ vt \in TypeIds /\ vaults[v].owner \in Accounts
      /\ debt \in Nat /\ principal \in Nat /\ winning_bid \in Nat
  BY <1>1, OpenVaultFacts, VaultFieldTypes DEF VaultRecords
<1> HIDE DEF debt, principal, winning_bid
<1>3. /\ split.fee \in Nat /\ split.principal \in Nat
      /\ split.fee + split.principal <= winning_bid
  BY <1>2, SplitFacts
<1> HIDE DEF split
<1>4. excess \in Nat
  BY <1>2, <1>3
<1> HIDE DEF excess
<1>5. stable \in IntLedgers /\ con_vaults \in Payers
  BY DEF Inv, TypeOK, IntLedgers, Payers
<1>6. Spares(stable, paid)
  BY <1>2, <1>3, <1>5, PaidOutSpares
<1> HIDE DEF paid
<1>7. Spares(paid, stable')
  BY <1>1, <1>2, <1>4, <1>5, <1>6, TransferSpares DEF Spares
<1> QED
  BY <1>5, <1>6, <1>7, SparesBoth

LEMMA CallSpares ==
  ASSUME Inv, NEW caller \in Users, Call(caller)
  PROVE  Spares(stable, stable')
<1>1. /\ stable \in IntLedgers /\ caller \in Payers /\ caller \in Accounts
      /\ con_vaults \in Payers /\ con_vaults \in Accounts
  BY AccountFacts DEF Inv, TypeOK, IntLedgers, Payers
<1> USE VaultsAssumption
<1>2. ASSUME UNCHANGED stable PROVE Spares(stable, stable')
  BY <1>1, <1>2, SparesItself
<1>3. CASE \E vt \in TypeIds, amount \in CollateralAmounts, debt \in DebtAmounts :
              create_vault(caller, vt, amount, debt)
  <2> PICK vt \in TypeIds, amount \in CollateralAmounts, debt \in DebtAmounts :
              create_vault(caller, vt, amount, debt)
    BY <1>3
  <2>1. stable' = LedgerMint(stable, caller, debt) /\ debt \in Nat
    BY DEF create_vault
  <2> QED
    BY ONLY <1>1, <2>1, MintSpares
<1>4. ASSUME NEW v \in VaultIds, NEW amount \in Nat, borrow(caller, v, amount)
      PROVE  Spares(stable, stable')
  <2>1. stable' = LedgerMint(stable, caller, amount)
    BY <1>4 DEF borrow
  <2> QED
    BY ONLY <1>1, <1>4, <2>1, MintSpares
<1>5. ASSUME NEW v \in VaultIds, close_vault(caller, v)
      PROVE  Spares(stable, stable')
  <2> DEFINE debt == vault_live_debt(vaults[v])
  <2>1. /\ vaults[v].open
        /\ stable' = PaidOut(LedgerTransfer(stable, caller, con_vaults, debt),
                             vaults[v].vault_type_id, LiveRepayment(vaults[v], debt).split)
    BY <1>5 DEF close_vault, OwnLiveVault, LiveVault
  <2>2. debt \in Nat
    BY <2>1, OpenVaultFacts, LiveDebtType
  <2> HIDE DEF debt
  <2> QED
    BY <2>1, <2>2, RepaymentSpares
<1>6. ASSUME NEW v \in VaultIds, NEW amount \in Nat, cure_auction(caller, v, amount)
      PROVE  Spares(stable, stable')
  <2> DEFINE vt == vaults[v].vault_type_id
             done == IF amount > 0 THEN AuctionRepayment(vaults[v], amount)
                     ELSE [vault |-> vaults[v], books |-> books[vt], split |-> NoPayment]
  <2>1. /\ vaults[v].open
        /\ stable' = PaidOut(LedgerTransfer(stable, caller, con_vaults, amount), vt, done.split)
    BY <1>6 DEF cure_auction
  <2>2. vt \in TypeIds /\ done.split.fee \in Nat /\ done.split.principal \in Nat
    BY <1>6, <2>1, OpenVaultFacts, CurePaymentFacts
  <2> HIDE DEF done
  <2> QED
    BY <1>6, <2>1, <2>2, PaymentSpares
<1>7. ASSUME NEW v \in VaultIds, NEW amount \in Nat, repay(caller, v, amount)
      PROVE  Spares(stable, stable')
  <2>1. /\ vaults[v].open
        /\ stable' = PaidOut(LedgerTransfer(stable, caller, con_vaults, amount),
                             vaults[v].vault_type_id, LiveRepayment(vaults[v], amount).split)
    BY <1>7 DEF repay, LiveVault
  <2> QED
    BY <1>7, <2>1, RepaymentSpares
<1>8. ASSUME NEW v \in VaultIds, NEW amount \in Nat, liquidate(caller, v, amount)
      PROVE  Spares(stable, stable')
  <2> DEFINE repaid == IF amount = 0 THEN required_partial_repayment(vaults[v]) ELSE amount
  <2>1. /\ vaults[v].open /\ required_partial_repayment(vaults[v]) > 0
        /\ stable' = PaidOut(LedgerTransfer(stable, caller, con_vaults, repaid),
                             vaults[v].vault_type_id, LiveRepayment(vaults[v], repaid).split)
    BY <1>8 DEF liquidate, Liquidation, Liquidatable, partial_possible
  <2>2. repaid \in Nat
    <3>1. required_partial_repayment(vaults[v]) \in Int
      BY <2>1, OpenVaultFacts, RequiredRepaymentType DEF CollateralOf
    <3> QED
      BY <1>8, <2>1, <3>1
  <2> HIDE DEF repaid
  <2> QED
    BY <2>1, <2>2, RepaymentSpares
<1>9. ASSUME NEW v \in VaultIds, NEW bid_amount \in Nat, bid(caller, v, bid_amount)
      PROVE  Spares(stable, stable')
  <2> DEFINE added == bid_amount - auction_bids[<<v, caller>>]
  <2>1. added > 0 /\ stable' = LedgerTransfer(stable, caller, con_vaults, added)
    BY <1>9 DEF bid, CanPay
  <2>2. added \in Nat
    BY <1>1, <1>9, <2>1 DEF Inv, TypeOK
  <2> HIDE DEF added
  <2> QED
    BY ONLY <1>1, <2>1, <2>2, TransferSpares
<1>10. ASSUME NEW v \in VaultIds, claim_refund(caller, v)
       PROVE  Spares(stable, stable')
  <2> DEFINE refund == auction_bids[<<v, caller>>]
  <2>1. stable' = LedgerTransfer(stable, con_vaults, caller, refund) /\ refund \in Nat
    BY <1>1, <1>10 DEF claim_refund, Inv, TypeOK
  <2> HIDE DEF refund
  <2> QED
    BY ONLY <1>1, <2>1, TransferSpares
<1>11. ASSUME NEW vt \in TypeIds, NEW amount \in Nat, recapitalize(caller, vt, amount)
       PROVE  Spares(stable, stable')
  <2> DEFINE pulled == LedgerTransfer(stable, caller, con_vaults, amount)
             reduced == AtMost(amount, books[vt].bad_debt)
  <2>1. stable' = LedgerBurn(pulled, con_vaults, reduced)
    BY <1>11 DEF recapitalize
  <2>2. reduced \in Int
    BY <1>11 DEF AtMost, Inv, TypeOK, BookRecords
  <2>3. Spares(stable, pulled)
    BY ONLY <1>1, <1>11, TransferSpares
  <2> HIDE DEF pulled, reduced
  <2>4. Spares(pulled, stable')
    BY <1>1, <2>1, <2>2, <2>3, BurnSpares DEF Spares
  <2> QED
    BY <1>1, <2>3, <2>4, SparesBoth
<1>12. ASSUME NEW vt \in TypeIds, NEW amount \in Nat, sweep_surplus(caller, vt, amount)
       PROVE  Spares(stable, stable')
  <2> DEFINE swept == IF amount = 0 THEN books[vt].surplus_buffer ELSE amount
  <2>1. stable' = LedgerTransfer(stable, con_vaults, fee_destination, swept)
    BY <1>12 DEF sweep_surplus
  <2>2. swept \in Nat /\ fee_destination \in Accounts
    BY <1>12, FeeDestinationType DEF Inv, TypeOK, BookRecords
  <2> HIDE DEF swept
  <2> QED
    BY ONLY <1>1, <2>1, <2>2, TransferSpares
<1>13. ASSUME NEW amount \in Nat, NEW to \in Accounts, HolderTransfers(caller, amount, to)
       PROVE  Spares(stable, stable')
  <2>1. stable' = LedgerTransfer(stable, caller, to, amount)
    BY <1>13 DEF HolderTransfers
  <2> QED
    BY ONLY <1>1, <1>13, <2>1, TransferSpares
<1>14. CASE \E v \in VaultIds : OwnerCall(caller, v)
  <2> PICK v \in VaultIds : OwnerCall(caller, v)
    BY <1>14
  <2>1. CASE \E amount \in CollateralAmounts : deposit_collateral(caller, v, amount)
                                             \/ withdraw_collateral(caller, v, amount)
    BY <1>2, <2>1 DEF deposit_collateral, withdraw_collateral
  <2>2. PaymentAmounts \cup {0, vaults[v].auction_debt_snapshot} \subseteq Nat
    <3>1. vaults[v].auction_debt_snapshot \in Nat
      BY VaultFieldTypes DEF Inv, TypeOK
    <3> QED
      BY <3>1
  <2>3. CASE \E amount \in PaymentAmounts \cup {0, vaults[v].auction_debt_snapshot} :
                cure_auction(caller, v, amount)
    BY <1>6, <2>2, <2>3
  <2>4. CASE \E amount \in DebtAmounts : borrow(caller, v, amount)
    BY <1>4, <2>4
  <2> QED
    BY <1>5, <2>1, <2>3, <2>4 DEF OwnerCall
<1>15. CASE \E v \in VaultIds : AnyonesCall(caller, v)
  <2> PICK v \in VaultIds : AnyonesCall(caller, v)
    BY <1>15
  <2> QED
    BY <1>7, <1>8, <1>9, <1>10 DEF AnyonesCall, liquidate_fast
<1>16. CASE \E vt \in TypeIds : LossCall(caller, vt) \/ TypeCall(caller, vt)
  <2> PICK vt \in TypeIds : LossCall(caller, vt) \/ TypeCall(caller, vt)
    BY <1>16
  <2>1. CASE TypeCall(caller, vt)
    BY <1>2, <2>1 DEF TypeCall, set_vault_type_active, set_vault_type_fee, set_vault_type_limits,
          set_vault_type_ratios, set_vault_type_auction_config, set_vault_type_surplus_buffer_bps,
          ChangeType, tokens
  <2>2. CASE LossCall(caller, vt)
    BY <1>11, <1>12, <2>2 DEF LossCall
  <2> QED
    BY <2>1, <2>2
<1>17. CASE GovernorCall(caller)
  BY <1>2, <1>17 DEF GovernorCall, add_vault_type, set_paused, set_savings_contract,
        set_treasury_address, start_governance_transfer, accept_governance, tokens
<1>18. CASE \E amount \in TransferAmounts, to \in Accounts : HolderTransfers(caller, amount, to)
  BY <1>13, <1>18
<1> QED
  BY <1>3, <1>14, <1>15, <1>16, <1>17, <1>18 DEF Call

\* No step of the vaults takes stable from the pool.
LEMMA NextSpares == Inv /\ [Next]_vars => Spares(stable, stable')
<1> SUFFICES ASSUME Inv, [Next]_vars PROVE Spares(stable, stable')
  OBVIOUS
<1>1. stable \in IntLedgers /\ con_vaults \in Payers
  BY DEF Inv, TypeOK, IntLedgers, Payers
<1>2. ASSUME UNCHANGED stable PROVE Spares(stable, stable')
  BY <1>1, <1>2, SparesItself
<1>3. CASE \E caller \in Users : Call(caller)
  BY <1>3, CallSpares
<1>4. CASE \E v \in VaultIds : KeeperCall(v)
  <2> PICK v \in VaultIds : KeeperCall(v)
    BY <1>4
  <2>1. CASE open_liquidation_auction(v) \/ cancel_auction_if_safe(v)
    BY <1>2, <2>1 DEF open_liquidation_auction, cancel_auction_if_safe, tokens
  <2> QED
    BY <2>1, SettleSpares DEF KeeperCall
<1>5. CASE \E vt \in TypeIds, amount \in LossAmounts \cup {0} : cover_bad_debt(vt, amount)
  <2> PICK vt \in TypeIds, amount \in LossAmounts \cup {0} : cover_bad_debt(vt, amount)
    BY <1>5
  <2> DEFINE coverable == AtMost(books[vt].surplus_buffer, books[vt].bad_debt)
             covered == IF amount = 0 THEN coverable ELSE amount
  <2>1. stable' = LedgerBurn(stable, con_vaults, covered)
    BY DEF cover_bad_debt
  <2>2. covered \in Int
    BY VaultsAssumption DEF AtMost, Inv, TypeOK, BookRecords
  <2> HIDE DEF covered
  <2> QED
    BY ONLY <1>1, <2>1, <2>2, BurnSpares
<1>6. CASE \/ \E c \in Collaterals, quote \in Prices : OracleMoves(c, quote)
           \/ Tick
           \/ UNCHANGED vars
  BY <1>2, <1>6 DEF OracleMoves, Tick, vars, tokens
<1> QED
  BY <1>3, <1>4, <1>5, <1>6 DEF Next

-----------------------------------------------------------------------------
(* The theorems. *)

LEMMA SettlementRoundingType ==
  ASSUME Inv PROVE SettlementRounding \in Nat
<1> DEFINE dropped == [v \in VaultIds |->
              IF vaults'[v].auction_settled /\ ~vaults[v].auction_settled
              THEN AtLeastZero(vaults[v].auction_principal_snapshot
                                 - vaults[v].auction_debt_snapshot)
              ELSE 0]
<1>1. ASSUME NEW v \in VaultIds
      PROVE  AtLeastZero(vaults[v].auction_principal_snapshot
                           - vaults[v].auction_debt_snapshot) \in Nat
  BY DEF Inv, TypeOK, VaultRecords, AtLeastZero
<1>2. dropped \in [VaultIds -> Nat]
  BY <1>1
<1>3. SettlementRounding = Total(dropped)
  BY DEF SettlementRounding
<1> HIDE DEF dropped
<1> QED
  BY <1>2, <1>3, VaultIdsFinite, TotalType

LEMMA ProtocolNextStep == ProtocolInv /\ [ProtocolNext]_protocol_vars => ProtocolStep
<1> SUFFICES ASSUME ProtocolInv, [ProtocolNext]_protocol_vars PROVE ProtocolStep
  OBVIOUS
<1>1. CASE [Next]_vars /\ UNCHANGED <<reserve, pool>>
  <2>1. Inv /\ SafetyInv
    BY DEF ProtocolInv, SafetyInv
  <2>2. Inv'
    BY <1>1, <2>1, NextPreservesInv
  <2>3. SafeStep
    BY <1>1, <2>1, <2>2, NextIsSafe
  <2>4. SafetyInv'
    BY <2>2, <2>3 DEF SafeStep, SafetyInv
  <2>5. stable' \in Ledgers
    BY <2>2 DEF Inv
  <2>6. stable'.balances[con_savings] >= stable.balances[con_savings]
    BY <1>1, <2>1, NextSpares, ProtocolAccounts DEF Spares, Payers
  <2>7. PoolInv' /\ SaversStep
    BY <1>1, <2>5, <2>6, PoolGains
  <2>8. UnbackedStep
    <3>1. Uncovered \in Int /\ Uncovered' \in Int
      BY <2>1, <2>2, <2>4, UncoveredType, UncoveredTypeNext DEF SafetyInv, UncoveredCounts
    <3>2. reserve' = reserve /\ reserve[con_psm] \in Nat
      BY <1>1, ProtocolAccounts DEF ProtocolInv
    <3>3. Uncovered' <= Uncovered + SettlementRounding
      BY <2>3 DEF SafeStep, BackingStep
    <3>4. SettlementRounding \in Nat
      BY <2>1, SettlementRoundingType
    <3> QED
      BY <3>1, <3>2, <3>3, <3>4 DEF UnbackedStep, Unbacked
  <2> QED
    BY <1>1, <2>4, <2>7, <2>8 DEF ProtocolStep, ProtocolInv
<1>2. ASSUME NEW caller \in Users,
             \/ \E amount \in PsmAmounts : mint_stable(caller, amount)
             \/ \E amount \in RedeemAmounts : redeem_stable(caller, amount)
             \/ \E assets \in SavingsAmounts : deposit(caller, assets)
             \/ \E burned \in ShareAmounts : withdraw(caller, burned)
      PROVE  ProtocolStep
  <2>1. /\ PsmAmounts \subseteq Nat /\ RedeemAmounts \subseteq Nat
        /\ SavingsAmounts \subseteq Nat /\ ShareAmounts \subseteq Nat
    BY ProtocolAssumption
  <2> QED
    BY <1>2, <2>1, ProtocolMintStep, ProtocolRedeemStep, ProtocolDepositStep, ProtocolWithdrawStep
<1>3. CASE UNCHANGED protocol_vars
  BY <1>1, <1>3 DEF protocol_vars
<1> QED
  BY <1>1, <1>2, <1>3 DEF ProtocolNext

\* The invariant of the vaults, and with it every safety property proved of them
\* alone, also holds next to the PSM and the savings pool.
THEOREM ProtocolInvariant == ProtocolSpec => []ProtocolInv
<1>1. ProtocolInv /\ [ProtocolNext]_protocol_vars => ProtocolInv'
  BY ProtocolNextStep DEF ProtocolStep
<1> QED
  BY <1>1, InitEstablishesProtocolInv, PTL DEF ProtocolSpec

\* The vaults hold the stable they owe in surplus and in escrow, whatever is
\* minted, redeemed, deposited and withdrawn next to them.
THEOREM StableStaysInCustody == ProtocolSpec => []StableCustody
<1>1. ProtocolInv => StableCustody
  BY DEF ProtocolInv, SafetyInv, Inv
<1> QED
  BY <1>1, ProtocolInvariant, PTL

\* No mixture of vaults, mints, redemptions and savings lets stable appear that
\* no vault owes, no bad debt records and no reserve backs.
THEOREM SystemStaysBacked == ProtocolSpec => SystemBackingNeverErodes
<1>1. ProtocolInv /\ [ProtocolNext]_protocol_vars =>
        [Unbacked' <= Unbacked + SettlementRounding]_protocol_vars
  BY ProtocolNextStep DEF ProtocolStep, UnbackedStep
<1> QED
  BY <1>1, ProtocolInvariant, PTL DEF ProtocolSpec, SystemBackingNeverErodes

\* Nothing anybody does in the protocol makes a share of the pool worth less.
THEOREM SaversAreNeverDiluted == ProtocolSpec => SaversNeverLose
<1>1. ProtocolInv /\ [ProtocolNext]_protocol_vars =>
        [share_supply > 0 /\ share_supply' > 0 =>
            stable'.balances[con_savings] * share_supply
               >= stable.balances[con_savings] * share_supply']_protocol_vars
  BY ProtocolNextStep DEF ProtocolStep, SaversStep, PriceKept
<1> QED
  BY <1>1, ProtocolInvariant, PTL DEF ProtocolSpec, SaversNeverLose

\* The auctions stay auctions whatever the PSM and the savings pool do to the
\* ledger that holds the stakes.
THEOREM ProtocolImplementsAuction == ProtocolSpec => ImplementsAuction
<1>1. ProtocolInit => AuctionInv /\ AH!Init
  BY InitImplementsAuction DEF ProtocolInit
<1>2. ProtocolInv /\ ProtocolInv' /\ AuctionInv /\ [ProtocolNext]_protocol_vars => AuctionStep
  <2> SUFFICES ASSUME ProtocolInv, ProtocolInv', AuctionInv, [ProtocolNext]_protocol_vars
               PROVE  AuctionStep
    OBVIOUS
  <2>1. Inv'
    BY DEF ProtocolInv, SafetyInv
  <2>2. CASE [Next]_vars
    BY <2>1, <2>2, NextImplementsAuction
  <2>3. CASE UNCHANGED unshared
    BY <2>3, ElsewhereAuctions DEF unshared, positions
  <2>4. [Next]_vars \/ UNCHANGED unshared
    BY DEF ProtocolNext, protocol_vars, mint_stable, redeem_stable, deposit, withdraw
  <2> QED
    BY <2>2, <2>3, <2>4
<1>3. ProtocolInv /\ ProtocolInv' /\ AuctionInv /\ [ProtocolNext]_protocol_vars => AuctionInv'
  BY <1>2 DEF AuctionStep, AuctionInv, ProtocolInv
<1>4. ProtocolInv /\ ProtocolInv' /\ AuctionInv /\ [ProtocolNext]_protocol_vars
        => [AH!Next]_<<now, Lots>>
  BY <1>2 DEF AuctionStep
<1> QED
  BY <1>1, <1>3, <1>4, ProtocolInvariant, PTL DEF ProtocolSpec, ImplementsAuction, AH!Spec

\* What is proved of the vaults alone holds in the whole system: collateral is in
\* custody, the totals cover the vaults, and escrow is what the auctions say.
THEOREM VaultsStaySafeTogether ==
  ProtocolSpec => [](CollateralCustody /\ TotalsCoverVaults /\ EscrowMatchesAuction)
<1>1. ProtocolInv => CollateralCustody /\ TotalsCoverVaults /\ EscrowMatchesAuction
  BY DEF ProtocolInv, SafetyInv
<1> QED
  BY <1>1, ProtocolInvariant, PTL

\* No mint, redemption, deposit or withdrawal next to the vaults makes one of them
\* liquidatable either.
THEOREM OnlyTheMarketEndangersTogether == ProtocolSpec => OnlyMarketEndangers
<1>1. ProtocolInv /\ ProtocolInv' /\ [ProtocolNext]_protocol_vars =>
        [now' = now /\ price' = price /\ vault_types' = vault_types =>
            \A v \in VaultIds : Liquidatable(vaults[v])' => Liquidatable(vaults[v])]_vars
  <2> SUFFICES ASSUME ProtocolInv, ProtocolInv', [ProtocolNext]_protocol_vars PROVE MarketStep
    BY DEF MarketStep
  <2>1. CASE [Next]_vars
    BY <2>1, NextIsSafe DEF SafeStep, ProtocolInv, SafetyInv
  <2>2. CASE UNCHANGED unshared
    <3>1. /\ vaults' = vaults /\ now' = now /\ price' = price /\ vault_types' = vault_types
          /\ books' = books
      BY <2>2 DEF unshared, positions, types
    <3>2. SafetyInv /\ Inv'
      BY DEF ProtocolInv, SafetyInv
    <3> QED
      BY <3>1, <3>2, MarketStays DEF MarketStep
  <2>3. [Next]_vars \/ UNCHANGED unshared
    BY DEF ProtocolNext, protocol_vars, mint_stable, redeem_stable, deposit, withdraw
  <2> QED
    BY <2>1, <2>2, <2>3
<1> QED
  BY <1>1, ProtocolInvariant, PTL DEF ProtocolSpec, OnlyMarketEndangers
=============================================================================
