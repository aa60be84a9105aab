----------------------------- MODULE PsmProofs ------------------------------
(***************************************************************************)
(* Psm, for any users, amounts, fees and starting balances: the stable it   *)
(* has issued is backed by reserve.                                          *)
(***************************************************************************)
EXTENDS Psm, SumsProofs

\* FullyBacked is inductive with the types and the conservation of the stable
\* ledger: no payment overdraws the account it comes from.
Inv == TypeOK /\ stable \in LedgersOver(Accounts) /\ FullyBacked

\* What a step does to the backing: stable issued here and reserve held move
\* together, or reserve is left over; and reserve leaves only for stable.
StepBacked ==
    /\ stable'.total_supply - minted_elsewhere' - reserve'[con_psm]
          <= stable.total_supply - minted_elsewhere - reserve[con_psm]
    /\ reserve'[con_psm] < reserve[con_psm] =>
          reserve[con_psm] - reserve'[con_psm] <= stable.total_supply - stable'.total_supply

StepKept == TypeOK' /\ stable' \in LedgersOver(Accounts) /\ StepBacked

LEMMA AccountsFinite ==
  IsFiniteSet(Accounts) /\ con_psm \in Accounts /\ Users \subseteq Accounts /\ NoOne \notin Accounts
  BY FS_AddElement, PsmAssumption DEF Accounts

LEMMA LedgerType ==
  ASSUME NEW ledger \in LedgersOver(Accounts)
  PROVE  /\ ledger \in [balances : [Accounts -> Nat], total_supply : Nat]
         /\ ledger.balances \in [Accounts -> Nat]
         /\ ledger.total_supply \in Nat
  BY DEF LedgersOver

LEMMA InitEstablishesInv == Init => Inv
<1> SUFFICES ASSUME Init PROVE Inv
  OBVIOUS
<1> USE PsmAssumption, AccountsFinite
<1>1. Total(InitialStable) \in Nat
  BY TotalType
<1>2. stable \in LedgersOver(Accounts)
  BY <1>1 DEF Init, LedgersOver
<1>3. TypeOK
  <2>1. stable \in [balances : [Accounts -> Nat], total_supply : Nat]
    BY <1>2, LedgerType
  <2>2. /\ mint_fee_bps \in {bps \in Nat : bps < BPS_DENOMINATOR}
        /\ redeem_fee_bps \in {bps \in Nat : bps < BPS_DENOMINATOR}
    BY DEF Init, ValidFee
  <2>3. reserve \in [Accounts -> Nat] /\ minted_elsewhere \in Int
    BY DEF Init
  <2>5. paused \in BOOLEAN
    BY DEF Init
  <2>4. /\ treasury_address \in Accounts \cup {NoOne} /\ governor \in Users
        /\ proposed_governor \in Users \cup {NoOne}
    <3>1. InitialTreasury \in Accounts \cup {NoOne}
      OBVIOUS
    <3> QED
      BY <3>1 DEF Init
  <2> QED
    BY <2>1, <2>2, <2>3, <2>4, <2>5 DEF TypeOK
<1> QED
  BY <1>1, <1>2, <1>3 DEF Init, Inv, TypeOK, FullyBacked

-----------------------------------------------------------------------------
(* Fees. *)

LEMMA FeeWithinAmount ==
  ASSUME NEW amount \in Nat, NEW bps \in Nat, bps < BPS_DENOMINATOR
  PROVE  fee_on(amount, bps) \in Nat /\ fee_on(amount, bps) <= amount
<1> USE PsmAssumption
<1>1. amount * bps \in Nat /\ amount * bps <= amount * BPS_DENOMINATOR
  BY ProductOfNats, ProductMonotonic
<1>2. amount * bps <= BPS_DENOMINATOR * amount /\ BPS_DENOMINATOR * 0 <= amount * bps
  BY <1>1, Z3
<1> QED
  BY <1>1, <1>2, QuotientBounded, QuotientAtLeast, Floor DEF fee_on

\* A fee leaves the contract's reserve, at most once and for nowhere else.
LEMMA FeePayment ==
  ASSUME TypeOK, NEW b \in [Accounts -> Nat], NEW fee \in Nat, b[con_psm] >= fee
  PROVE  /\ FeePaid(b, fee) \in [Accounts -> Nat]
         /\ FeePaid(b, fee)[con_psm] >= b[con_psm] - fee
<1> USE AccountsFinite
<1>1. fee_destination \in Accounts
  BY DEF TypeOK, fee_destination
<1>2. CASE fee > 0 /\ fee_destination # con_psm
  <2>1. FeePaid(b, fee) = Moved(b, con_psm, fee_destination, fee)
    BY <1>2 DEF FeePaid
  <2>2. Moved(b, con_psm, fee_destination, fee) \in [Accounts -> Nat]
    BY <1>1, MovedPreservesTotal
  <2>3. Moved(b, con_psm, fee_destination, fee)[con_psm] = b[con_psm] - fee
    BY <1>1, <1>2 DEF Moved
  <2> QED
    BY <2>1, <2>2, <2>3
<1>3. CASE ~(fee > 0 /\ fee_destination # con_psm)
  BY <1>3 DEF FeePaid
<1> QED
  BY <1>2, <1>3

-----------------------------------------------------------------------------
(* Steps. *)

LEMMA MintStep ==
  ASSUME Inv, NEW caller \in Users, NEW amount \in Nat, mint_stable(caller, amount)
  PROVE  StepKept
<1> DEFINE fee == fee_on(amount, mint_fee_bps)
           paid_in == Moved(reserve, caller, con_psm, amount)
           out == amount - fee
<1> USE PsmAssumption, AccountsFinite
<1>1. /\ reserve \in [Accounts -> Nat] /\ mint_fee_bps \in Nat /\ mint_fee_bps < BPS_DENOMINATOR
      /\ stable \in LedgersOver(Accounts) /\ caller \in Accounts /\ caller # con_psm
      /\ reserve[caller] >= amount /\ minted_elsewhere \in Int
  BY DEF Inv, TypeOK, mint_stable, CanPay
<1>2. fee \in Nat /\ out \in Nat
  BY <1>1, FeeWithinAmount
<1>3. paid_in \in [Accounts -> Nat] /\ paid_in[con_psm] = reserve[con_psm] + amount
  <2>1. paid_in \in [Accounts -> Nat]
    BY ONLY AccountsFinite, <1>1, amount \in Nat, MovedPreservesTotal
  <2> QED
    BY <1>1, <2>1 DEF Moved
<1>4. reserve' = FeePaid(paid_in, fee) /\ stable' = LedgerMint(stable, caller, out)
  BY DEF mint_stable
<1>5. reserve[con_psm] \in Nat /\ out + fee = amount
  BY <1>1, <1>2
<1> HIDE DEF fee, paid_in, out
<1>6. paid_in[con_psm] >= fee
  BY <1>2, <1>3, <1>5
<1>7. reserve' \in [Accounts -> Nat] /\ reserve'[con_psm] >= reserve[con_psm] + amount - fee
  BY <1>2, <1>3, <1>4, <1>5, <1>6, FeePayment DEF Inv
<1>8. stable' \in LedgersOver(Accounts) /\ stable'.total_supply = stable.total_supply + out
  <2>1. stable' \in LedgersOver(Accounts)
    BY ONLY AccountsFinite, <1>1, <1>2, <1>4, MintKeepsLedger
  <2>2. stable'.total_supply = stable.total_supply + out
    BY ONLY <1>4 DEF LedgerMint
  <2> QED
    BY <2>1, <2>2
<1>9. TypeOK'
  BY <1>7, <1>8, LedgerType DEF Inv, TypeOK, mint_stable, fees
<1>10. StepBacked
  <2>1. stable.total_supply \in Nat /\ reserve'[con_psm] \in Nat /\ minted_elsewhere' = minted_elsewhere
    BY <1>1, <1>7, LedgerType DEF mint_stable
  <2> QED
    BY <1>1, <1>2, <1>5, <1>7, <1>8, <2>1 DEF StepBacked
<1> QED
  BY <1>8, <1>9, <1>10 DEF StepKept

LEMMA RedeemStep ==
  ASSUME Inv, NEW caller \in Users, NEW amount \in Nat, redeem_stable(caller, amount)
  PROVE  StepKept
<1> DEFINE fee == fee_on(amount, redeem_fee_bps)
           out == amount - fee
           paid_out == Moved(reserve, con_psm, caller, out)
           pulled == LedgerTransfer(stable, caller, con_psm, amount)
<1> USE PsmAssumption, AccountsFinite
<1>1. /\ reserve \in [Accounts -> Nat] /\ redeem_fee_bps \in Nat /\ redeem_fee_bps < BPS_DENOMINATOR
      /\ stable \in LedgersOver(Accounts) /\ caller \in Accounts /\ caller # con_psm
      /\ stable.balances[caller] >= amount /\ minted_elsewhere \in Int
  BY DEF Inv, TypeOK, redeem_stable, CanPay
<1>2. fee \in Nat /\ out \in Nat
  BY <1>1, FeeWithinAmount
<1>3. reserve[con_psm] >= out + fee
  BY DEF redeem_stable
<1>4. reserve' = FeePaid(paid_out, fee) /\ stable' = LedgerBurn(pulled, con_psm, amount)
  BY DEF redeem_stable
<1>5. reserve[con_psm] \in Nat /\ out + fee = amount
  BY <1>1, <1>2
<1> HIDE DEF fee, out, paid_out, pulled
<1>6. paid_out \in [Accounts -> Nat] /\ paid_out[con_psm] = reserve[con_psm] - out
  <2>1. reserve[con_psm] >= out
    BY <1>2, <1>3, <1>5
  <2>2. paid_out \in [Accounts -> Nat]
    BY <1>1, <1>2, <2>1, MovedPreservesTotal DEF paid_out
  <2> QED
    BY <1>1, <1>2, <2>2 DEF Moved, paid_out
<1>7. paid_out[con_psm] >= fee
  BY <1>2, <1>3, <1>5, <1>6
<1>8. reserve' \in [Accounts -> Nat] /\ reserve'[con_psm] >= reserve[con_psm] - out - fee
  BY <1>2, <1>4, <1>6, <1>7, FeePayment DEF Inv
<1>9. /\ pulled \in LedgersOver(Accounts)
      /\ pulled.total_supply = stable.total_supply
      /\ pulled.balances[con_psm] = stable.balances[con_psm] + amount
  BY <1>1, TransferKeepsLedger DEF pulled
<1>10. pulled.balances[con_psm] >= amount
  BY <1>1, <1>9, LedgerType
<1>11. stable' \in LedgersOver(Accounts) /\ stable'.total_supply = stable.total_supply - amount
  BY <1>4, <1>9, <1>10, BurnKeepsLedger
<1>12. TypeOK'
  BY <1>8, <1>11, LedgerType DEF Inv, TypeOK, redeem_stable, fees
<1>13. StepBacked
  <2>1. stable.total_supply \in Nat /\ reserve'[con_psm] \in Nat /\ minted_elsewhere' = minted_elsewhere
    BY <1>1, <1>8, LedgerType DEF redeem_stable
  <2> QED
    BY <1>1, <1>2, <1>5, <1>8, <1>11, <2>1 DEF StepBacked
<1> QED
  BY <1>11, <1>12, <1>13 DEF StepKept

\* Steps of the settings, and of holders, that issue nothing here.
LEMMA OtherStep ==
  ASSUME Inv, TypeOK', stable' \in LedgersOver(Accounts),
         stable'.total_supply - minted_elsewhere' = stable.total_supply - minted_elsewhere,
         reserve'[con_psm] >= reserve[con_psm]
  PROVE  StepKept
<1>1. /\ stable.total_supply \in Nat /\ stable'.total_supply \in Nat
      /\ minted_elsewhere \in Int /\ minted_elsewhere' \in Int
      /\ reserve[con_psm] \in Nat /\ reserve'[con_psm] \in Nat
  BY AccountsFinite, LedgerType DEF Inv, TypeOK
<1>2. StepBacked
  BY <1>1 DEF StepBacked
<1> QED
  BY <1>2 DEF StepKept

LEMMA NextStep == Inv /\ [Next]_vars => StepKept
<1> SUFFICES ASSUME Inv, [Next]_vars PROVE StepKept
  OBVIOUS
<1> USE PsmAssumption, AccountsFinite
<1>1. /\ stable \in LedgersOver(Accounts) /\ stable.total_supply \in Nat
      /\ minted_elsewhere \in Int
      /\ reserve \in [Accounts -> Nat] /\ reserve[con_psm] \in Nat
  BY LedgerType DEF Inv, TypeOK
<1>2. CASE UNCHANGED vars
  BY <1>1, <1>2, OtherStep DEF Inv, TypeOK, vars, tokens, fees
<1>3. ASSUME NEW caller \in Users, NEW amount \in Amounts, mint_stable(caller, amount)
      PROVE  StepKept
  BY <1>3, MintStep
<1>4. ASSUME NEW caller \in Users, NEW amount \in Amounts, redeem_stable(caller, amount)
      PROVE  StepKept
  BY <1>4, RedeemStep
<1>5. ASSUME NEW caller \in Users, NEW amount \in Amounts, ElsewhereMints(caller, amount)
      PROVE  StepKept
  <2>1. stable' \in LedgersOver(Accounts) /\ stable'.total_supply = stable.total_supply + amount
    <3>1. stable' = LedgerMint(stable, caller, amount) /\ caller \in Accounts /\ amount \in Nat
      BY <1>5 DEF ElsewhereMints
    <3>2. stable' \in LedgersOver(Accounts)
      BY ONLY AccountsFinite, <1>1, <3>1, MintKeepsLedger
    <3>3. stable'.total_supply = stable.total_supply + amount
      BY ONLY <3>1 DEF LedgerMint
    <3> QED
      BY <3>2, <3>3
  <2>2. minted_elsewhere' = minted_elsewhere + amount /\ reserve' = reserve /\ amount \in Nat
    BY <1>5 DEF ElsewhereMints
  <2>3. TypeOK'
    BY <1>1, <1>5, <2>1, <2>2, LedgerType DEF Inv, TypeOK, ElsewhereMints, fees
  <2> QED
    BY <1>1, <2>1, <2>2, <2>3, OtherStep
<1>6. ASSUME NEW caller \in Users, NEW amount \in Amounts, ElsewhereBurns(caller, amount)
      PROVE  StepKept
  <2>1. stable' \in LedgersOver(Accounts) /\ stable'.total_supply = stable.total_supply - amount
    BY <1>1, <1>6, BurnKeepsLedger DEF ElsewhereBurns, CanPay
  <2>2. minted_elsewhere' = minted_elsewhere - amount /\ reserve' = reserve /\ amount \in Nat
    BY <1>6 DEF ElsewhereBurns
  <2>3. TypeOK'
    BY <1>1, <1>6, <2>1, <2>2, LedgerType DEF Inv, TypeOK, ElsewhereBurns, fees
  <2> QED
    BY <1>1, <2>1, <2>2, <2>3, OtherStep
<1>7. ASSUME NEW caller \in Users, NEW amount \in Amounts, NEW to \in Accounts,
             HolderTransfers(caller, amount, to)
      PROVE  StepKept
  <2>1. stable' \in LedgersOver(Accounts) /\ stable'.total_supply = stable.total_supply
    BY <1>1, <1>7, TransferKeepsLedger DEF HolderTransfers, CanPay
  <2>2. TypeOK'
    BY <1>7, <2>1, LedgerType DEF Inv, TypeOK, HolderTransfers, fees
  <2> QED
    BY <1>1, <1>7, <2>1, <2>2, OtherStep DEF HolderTransfers
<1>8. ASSUME NEW caller \in Users, NEW amount \in Amounts, NEW to \in Accounts,
             ReserveTransfers(caller, amount, to)
      PROVE  StepKept
  <2>1. reserve' \in [Accounts -> Nat]
    BY <1>1, <1>8, MovedPreservesTotal DEF ReserveTransfers, CanPay
  <2>2. reserve'[con_psm] >= reserve[con_psm]
    BY <1>1, <1>8 DEF ReserveTransfers, CanPay, Moved
  <2>3. TypeOK'
    BY <1>8, <2>1 DEF Inv, TypeOK, ReserveTransfers, fees
  <2> QED
    BY <1>1, <1>8, <2>2, <2>3, OtherStep DEF ReserveTransfers
<1>9. ASSUME NEW caller \in Users, NEW mint_bps \in FeeChoices, NEW redeem_bps \in FeeChoices,
             set_fees(caller, mint_bps, redeem_bps)
      PROVE  StepKept
  BY <1>1, <1>9, OtherStep DEF Inv, TypeOK, set_fees, tokens, ValidFee
<1>10. ASSUME NEW caller \in Users, NEW address \in ReceiverChoices,
              set_treasury_address(caller, address)
       PROVE  StepKept
  BY <1>1, <1>10, OtherStep DEF Inv, TypeOK, set_treasury_address, tokens, fees
<1>11. ASSUME NEW caller \in Users, NEW value \in BOOLEAN, set_paused(caller, value)
       PROVE  StepKept
  BY <1>1, <1>11, OtherStep DEF Inv, TypeOK, set_paused, tokens, fees
<1>12. ASSUME NEW caller \in Users, NEW user \in Nominees, start_governance_transfer(caller, user)
       PROVE  StepKept
  BY <1>1, <1>12, OtherStep DEF Inv, TypeOK, start_governance_transfer, tokens, fees
<1>13. ASSUME NEW caller \in Users, accept_governance(caller)
       PROVE  StepKept
  BY <1>1, <1>13, OtherStep DEF Inv, TypeOK, accept_governance, tokens, fees
<1> QED
  BY <1>2, <1>3, <1>4, <1>5, <1>6, <1>7, <1>8, <1>9, <1>10, <1>11, <1>12, <1>13 DEF Next, Call

LEMMA NextPreservesInv == Inv /\ [Next]_vars => Inv'
<1> SUFFICES ASSUME Inv, [Next]_vars PROVE Inv'
  OBVIOUS
<1>1. StepKept
  BY NextStep
<1>2. /\ stable.total_supply \in Nat /\ stable'.total_supply \in Nat
      /\ minted_elsewhere \in Int /\ minted_elsewhere' \in Int
      /\ reserve[con_psm] \in Nat /\ reserve'[con_psm] \in Nat
  BY <1>1, AccountsFinite, LedgerType DEF Inv, StepKept, TypeOK
<1>3. Total(InitialStable) \in Nat
  BY TotalType, PsmAssumption, AccountsFinite
<1>4. FullyBacked'
  BY <1>1, <1>2, <1>3 DEF Inv, StepKept, StepBacked, FullyBacked
<1> QED
  BY <1>1, <1>4 DEF Inv, StepKept

-----------------------------------------------------------------------------
\* No balance of stable or reserve goes negative, and no fee reaches 100%.
THEOREM PsmTypeCorrect == Spec => []TypeOK
  BY InitEstablishesInv, NextPreservesInv, PTL DEF Spec, Inv

\* What the module has issued is always matched by reserve it holds.
THEOREM StableIsBacked == Spec => []FullyBacked
  BY InitEstablishesInv, NextPreservesInv, PTL DEF Spec, Inv

\* Reserve leaves only against stable that is burned.
THEOREM ReserveIsKept == Spec => ReserveLeavesOnlyForStable
<1>1. Inv /\ [Next]_vars =>
        [reserve'[con_psm] < reserve[con_psm] =>
            reserve[con_psm] - reserve'[con_psm] <= stable.total_supply - stable'.total_supply]_vars
  BY NextStep DEF StepKept, StepBacked
<1> QED
  BY <1>1, InitEstablishesInv, NextPreservesInv, PTL DEF Spec, ReserveLeavesOnlyForStable
=============================================================================
