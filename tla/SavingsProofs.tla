--------------------------- MODULE SavingsProofs ----------------------------
(***************************************************************************)
(* Savings, for any users, amounts and starting balances: share accounting, *)
(* the worth of a share, and that nobody can lower it.                       *)
(***************************************************************************)
EXTENDS Savings, SumsProofs

\* SharesWorthPar needs the types and the sum: a holder's shares are at most
\* the supply, so a withdrawal leaves a supply of at least zero.
Inv == TypeOK /\ SupplyIsSumOfShares /\ SharesWorthPar

-----------------------------------------------------------------------------
(* The invariant. *)

LEMMA InitEstablishesInv == Init => Inv
<1> SUFFICES ASSUME Init PROVE Inv
  OBVIOUS
<1> USE SavingsAssumption
<1>1. metadata \in [MetadataKeys -> Nat] /\ metadata[SupplyKey] = 0
  <2>1. metadata \in [MetadataKeys -> MetadataValues \cup {0}] /\ metadata[SupplyKey] = 0
    BY DEF Init
  <2>2. MetadataValues \cup {0} \subseteq Nat
    OBVIOUS
  <2> QED
    BY <2>1, <2>2
<1>2. TypeOK
  <2>1. /\ stable \in [Accounts -> Nat] /\ balances \in [Accounts -> Nat]
        /\ approvals \in [Accounts \X Accounts -> Nat]
    BY DEF Init
  <2>2. share_supply \in Nat /\ governor \in Users /\ proposed_governor \in Users \cup {NoOne}
    BY DEF Init
  <2> QED
    BY <1>1, <2>1, <2>2 DEF TypeOK
<1>3. Total(balances) = 0
  BY TotalZero DEF Init
<1> QED
  BY <1>1, <1>2, <1>3 DEF Init, Inv, TypeOK, SupplyIsSumOfShares, SharesWorthPar,
                     current_total_assets, Accounts

LEMMA AccountsFinite ==
  IsFiniteSet(Accounts) /\ con_savings \in Accounts /\ Users \subseteq Accounts
  BY FS_AddElement, SavingsAssumption DEF Accounts

\* What every step does: it keeps the types and the sum, and the worth of a
\* share; and it changes what one share is worth for a depositor only as a
\* deposit does.
WorthKept ==
    \A a \in Users :
        LET paid == stable[a] - stable'[a]
            minted == balances'[a] - balances[a]
        IN  paid > 0 /\ minted > 0 =>
               (paid * share_supply' - minted * current_total_assets')
                  < current_total_assets + SCALE

StepKept ==
    /\ TypeOK' /\ SupplyIsSumOfShares'
    /\ PriceKept(current_total_assets, share_supply, current_total_assets', share_supply')
    /\ WorthKept

LEMMA DepositStep ==
  ASSUME Inv, NEW caller \in Users, NEW assets \in Nat, deposit(caller, assets)
  PROVE  StepKept
<1> DEFINE minted == preview_deposit(assets)
           A == stable[con_savings]
           held == balances[caller] + minted
<1> USE SavingsAssumption, AccountsFinite
<1>1. /\ stable \in [Accounts -> Nat] /\ balances \in [Accounts -> Nat]
      /\ share_supply \in Nat /\ A \in Nat /\ A >= share_supply
      /\ caller \in Accounts /\ caller # con_savings
  BY DEF Inv, TypeOK, SharesWorthPar, current_total_assets
<1>2. /\ minted \in Nat
      /\ PriceKept(A, share_supply, A + assets, share_supply + minted)
      /\ assets * (share_supply + minted) - minted * (A + assets) < A + SCALE
  <2>1. minted = IF share_supply <= 0 \/ A <= 0 THEN assets
                 ELSE (((assets * share_supply) \div SCALE) * SCALE) \div A
    BY DEF preview_deposit, current_total_assets, Mul, Div
  <2>2. assets > 0 /\ SCALE \in Nat /\ SCALE > 0
    BY ScaleAssumption DEF deposit
  <2> HIDE DEF minted, A
  <2> QED
    BY <1>1, <2>1, <2>2, DepositArithmetic
<1>3. minted \in Nat /\ balances[caller] \in Nat /\ held \in Nat
      /\ assets > 0 /\ stable[caller] >= assets
  BY <1>1, <1>2 DEF deposit, CanPay
<1>4. /\ stable' \in [Accounts -> Nat]
      /\ stable'[con_savings] = A + assets
      /\ stable'[caller] = stable[caller] - assets
      /\ \A a \in Accounts \ {caller, con_savings} : stable'[a] = stable[a]
  BY <1>1, <1>3 DEF deposit, Moved
<1>5. balances' = [balances EXCEPT ![caller] = held]
  BY <1>1 DEF deposit
<1>6. /\ share_supply' = share_supply + minted
      /\ metadata' = [metadata EXCEPT ![SupplyKey] = share_supply + minted]
      /\ approvals' = approvals /\ governor' = governor /\ proposed_governor' = proposed_governor
  BY DEF deposit, SetSupply, governance
<1> HIDE DEF minted, A
<1>7. TypeOK'
  BY <1>1, <1>3, <1>4, <1>5, <1>6 DEF Inv, TypeOK
<1>8. held - balances[caller] = minted
  BY <1>3
<1>9. balances'[caller] - balances[caller] = minted
       /\ \A a \in Accounts \ {caller} : balances'[a] = balances[a]
  BY <1>1, <1>3, <1>5
<1> HIDE DEF held
<1>10. SupplyIsSumOfShares'
  <2>1. Total([balances EXCEPT ![caller] = held]) = Total(balances) + held - balances[caller]
    BY ONLY AccountsFinite, <1>1, <1>3, TotalUpdate
  <2>2. Total(balances) = share_supply /\ metadata \in [MetadataKeys -> Nat]
    BY DEF Inv, TypeOK, SupplyIsSumOfShares
  <2>3. Total(balances') = share_supply + minted
    BY <1>1, <1>3, <1>5, <1>8, <2>1, <2>2
  <2> QED
    BY <1>6, <2>2, <2>3 DEF SupplyIsSumOfShares
<1>11. WorthKept
  <2> SUFFICES ASSUME NEW a \in Users, stable[a] - stable'[a] > 0,
                      balances'[a] - balances[a] > 0
               PROVE  (stable[a] - stable'[a]) * share_supply'
                        - (balances'[a] - balances[a]) * current_total_assets'
                        < current_total_assets + SCALE
    BY DEF WorthKept
  <2>1. a = caller
    BY <1>1, <1>9
  <2>2. stable[a] - stable'[a] = assets /\ balances'[a] - balances[a] = minted
    BY <1>1, <1>3, <1>4, <1>9, <2>1
  <2>3. current_total_assets' = A + assets /\ current_total_assets = A
    BY <1>4 DEF current_total_assets, A
  <2> QED
    BY <1>2, <1>6, <2>2, <2>3
<1> QED
  BY <1>2, <1>4, <1>6, <1>7, <1>10, <1>11 DEF StepKept, current_total_assets, A

LEMMA WithdrawStep ==
  ASSUME Inv, NEW caller \in Users, NEW burned \in Nat, withdraw(caller, burned)
  PROVE  StepKept
<1> DEFINE paid == preview_redeem(burned)
           A == stable[con_savings]
           held == balances[caller] - burned
<1> USE SavingsAssumption, AccountsFinite
<1>1. /\ stable \in [Accounts -> Nat] /\ balances \in [Accounts -> Nat]
      /\ share_supply \in Nat /\ A \in Nat /\ A >= share_supply
      /\ caller \in Accounts /\ caller # con_savings
  BY DEF Inv, TypeOK, SharesWorthPar, current_total_assets
<1>2. /\ balances[caller] \in Nat /\ burned > 0 /\ burned <= balances[caller]
      /\ share_supply > 0
  BY <1>1 DEF withdraw, CanPay
<1>3. burned <= share_supply
  <2>1. balances[caller] <= Total(balances) /\ Total(balances) = share_supply
    BY <1>1, TotalAtLeast DEF Inv, SupplyIsSumOfShares
  <2> QED
    BY <1>1, <1>2, <2>1
<1>4. paid \in Nat /\ PriceKept(A, share_supply, A - paid, share_supply - burned)
  <2>1. paid = (((burned * A) \div SCALE) * SCALE) \div share_supply
    BY DEF preview_redeem, current_total_assets, Mul, Div
  <2>2. SCALE \in Nat /\ SCALE > 0
    BY ScaleAssumption
  <2> HIDE DEF paid, A
  <2> QED
    BY <1>1, <1>2, <1>3, <2>1, <2>2, WithdrawalArithmetic
<1>5. paid <= A
  BY <1>4 DEF withdraw, CanPay
<1>6. /\ stable' \in [Accounts -> Nat]
      /\ stable'[con_savings] = A - paid
      /\ stable'[caller] = stable[caller] + paid
      /\ \A a \in Accounts \ {caller, con_savings} : stable'[a] = stable[a]
  <2> HIDE DEF paid
  <2>1. stable' = Moved(stable, con_savings, caller, paid)
    BY DEF withdraw, paid
  <2> QED
    BY <1>1, <1>4, <1>5, <2>1 DEF Moved
<1>7. held \in Nat /\ balances' = [balances EXCEPT ![caller] = held]
  BY <1>1, <1>2 DEF withdraw
<1>8. /\ share_supply' = share_supply - burned
      /\ metadata' = [metadata EXCEPT ![SupplyKey] = share_supply - burned]
      /\ approvals' = approvals /\ governor' = governor /\ proposed_governor' = proposed_governor
  BY DEF withdraw, SetSupply, governance
<1> HIDE DEF paid, A
<1>9. share_supply - burned \in Nat
  BY <1>1, <1>3
<1>10. TypeOK'
  BY <1>1, <1>6, <1>7, <1>8, <1>9 DEF Inv, TypeOK
<1>11. held - balances[caller] = -burned
  BY <1>2
<1> HIDE DEF held
<1>12. SupplyIsSumOfShares'
  <2>1. Total([balances EXCEPT ![caller] = held]) = Total(balances) + held - balances[caller]
    BY ONLY AccountsFinite, <1>1, <1>7, TotalUpdate
  <2>2. Total(balances) = share_supply /\ metadata \in [MetadataKeys -> Nat]
    BY DEF Inv, TypeOK, SupplyIsSumOfShares
  <2>3. Total(balances') = share_supply - burned
    BY <1>1, <1>2, <1>7, <1>11, <2>1, <2>2
  <2> QED
    BY <1>8, <2>2, <2>3 DEF SupplyIsSumOfShares
<1>13. WorthKept
  <2>1. \A a \in Users : stable[a] - stable'[a] <= 0
    BY <1>1, <1>4, <1>5, <1>6
  <2> QED
    BY <1>1, <1>6, <2>1 DEF WorthKept
<1> QED
  BY <1>4, <1>6, <1>8, <1>10, <1>12, <1>13 DEF StepKept, current_total_assets, A

\* Steps that leave the supply alone, and the assets or the shares.
LEMMA OtherStep ==
  ASSUME Inv, TypeOK', SupplyIsSumOfShares', UNCHANGED share_supply,
         stable'[con_savings] >= stable[con_savings],
         UNCHANGED stable \/ UNCHANGED balances
  PROVE  StepKept
<1> USE SavingsAssumption, AccountsFinite
<1>1. /\ stable \in [Accounts -> Nat] /\ balances \in [Accounts -> Nat]
      /\ stable' \in [Accounts -> Nat] /\ share_supply \in Nat
      /\ stable[con_savings] \in Nat /\ stable'[con_savings] \in Nat
      /\ stable[con_savings] >= share_supply
  BY DEF Inv, TypeOK, SharesWorthPar, current_total_assets
<1>2. stable'[con_savings] * share_supply >= stable[con_savings] * share_supply
  <2>1. share_supply * stable[con_savings] <= share_supply * stable'[con_savings]
    BY <1>1, ProductMonotonic
  <2> QED
    BY <1>1, <2>1, Z3
<1>3. PriceKept(current_total_assets, share_supply, current_total_assets', share_supply')
  BY <1>1, <1>2 DEF PriceKept, current_total_assets
<1>4. WorthKept
  BY <1>1 DEF WorthKept
<1> QED
  BY <1>3, <1>4 DEF StepKept

\* A payment of shares, the part transfer and transfer_from share.
LEMMA SharePayment ==
  ASSUME Inv, NEW from \in Accounts, NEW to \in Accounts, NEW amount \in Nat,
         CanPay(balances, from, amount), balances' = Moved(balances, from, to, amount),
         UNCHANGED <<share_supply, metadata>>
  PROVE  balances' \in [Accounts -> Nat] /\ SupplyIsSumOfShares'
<1>1. balances \in [Accounts -> Nat] /\ balances[from] >= amount
  BY DEF Inv, TypeOK, CanPay
<1>2. balances' \in [Accounts -> Nat] /\ Total(balances') = Total(balances)
  BY <1>1, AccountsFinite, MovedPreservesTotal
<1> QED
  BY <1>2 DEF Inv, SupplyIsSumOfShares

LEMMA NextStep == Inv /\ [Next]_vars => StepKept
<1> SUFFICES ASSUME Inv, [Next]_vars PROVE StepKept
  OBVIOUS
<1> USE SavingsAssumption, AccountsFinite
<1>1. stable \in [Accounts -> Nat] /\ stable[con_savings] \in Nat
  BY DEF Inv, TypeOK
<1>2. CASE UNCHANGED vars
  BY <1>1, <1>2, OtherStep DEF Inv, TypeOK, SupplyIsSumOfShares, vars, shares, governance
<1>3. ASSUME NEW caller \in Users, NEW assets \in Amounts, deposit(caller, assets)
      PROVE  StepKept
  BY <1>3, DepositStep
<1>4. ASSUME NEW caller \in Users, NEW burned \in Amounts, withdraw(caller, burned)
      PROVE  StepKept
  BY <1>4, WithdrawStep
<1>5. ASSUME NEW caller \in Users, NEW amount \in Amounts, NEW to \in Accounts,
             transfer(caller, amount, to)
      PROVE  StepKept
  <2>1. balances' \in [Accounts -> Nat] /\ SupplyIsSumOfShares'
    BY <1>5, SharePayment DEF transfer
  <2> QED
    BY <1>1, <1>5, <2>1, OtherStep DEF Inv, TypeOK, transfer, governance
<1>6. ASSUME NEW caller \in Users, NEW amount \in Amounts, NEW to \in Accounts,
             NEW main \in Accounts, transfer_from(caller, amount, to, main)
      PROVE  StepKept
  <2>1. balances' \in [Accounts -> Nat] /\ SupplyIsSumOfShares'
    BY <1>6, SharePayment DEF transfer_from
  <2>2. approvals' \in [Accounts \X Accounts -> Nat]
    <3>1. approvals \in [Accounts \X Accounts -> Nat] /\ caller \in Accounts
      BY DEF Inv, TypeOK
    <3>2. approvals[<<main, caller>>] \in Nat /\ approvals[<<main, caller>>] >= amount
          /\ amount \in Nat
      BY <1>6, <3>1 DEF transfer_from
    <3> QED
      BY <1>6, <3>1, <3>2 DEF transfer_from
  <2> QED
    BY <1>1, <1>6, <2>1, <2>2, OtherStep DEF Inv, TypeOK, transfer_from, governance
<1>7. ASSUME NEW caller \in Users, NEW amount \in Amounts \cup {0}, NEW to \in Spenders,
             approve(caller, amount, to)
      PROVE  StepKept
  BY <1>1, <1>7, OtherStep DEF Inv, TypeOK, SupplyIsSumOfShares, approve, shares, governance
<1>8. ASSUME NEW caller \in Users, NEW user \in Nominees, start_governance_transfer(caller, user)
      PROVE  StepKept
  BY <1>1, <1>8, OtherStep
     DEF Inv, TypeOK, SupplyIsSumOfShares, start_governance_transfer, shares
<1>9. ASSUME NEW caller \in Users, accept_governance(caller)
      PROVE  StepKept
  BY <1>1, <1>9, OtherStep DEF Inv, TypeOK, SupplyIsSumOfShares, accept_governance, shares
<1>10. ASSUME NEW caller \in Users, NEW key \in MetadataKeys, NEW value \in MetadataValues,
              change_metadata(caller, key, value)
       PROVE  StepKept
  BY <1>1, <1>10, OtherStep
     DEF Inv, TypeOK, SupplyIsSumOfShares, change_metadata, governance
<1>11. ASSUME NEW caller \in Users, NEW amount \in Amounts, NEW to \in Accounts,
              HolderTransfers(caller, amount, to)
       PROVE  StepKept
  <2>1. stable' \in [Accounts -> Nat]
    BY <1>1, <1>11, MovedPreservesTotal DEF HolderTransfers, CanPay
  <2>2. stable'[con_savings] >= stable[con_savings]
    BY <1>1, <1>11 DEF HolderTransfers, CanPay, Moved
  <2> QED
    BY <1>1, <1>11, <2>1, <2>2, OtherStep
       DEF Inv, TypeOK, SupplyIsSumOfShares, HolderTransfers, shares, governance
<1> QED
  BY <1>2, <1>3, <1>4, <1>5, <1>6, <1>7, <1>8, <1>9, <1>10, <1>11 DEF Next, Call

LEMMA NextPreservesInv == Inv /\ [Next]_vars => Inv'
  BY NextStep DEF Inv, StepKept, PriceKept, SharesWorthPar

-----------------------------------------------------------------------------
\* Shares, allowances and the pool never go negative.
THEOREM SavingsTypeCorrect == Spec => []TypeOK
  BY InitEstablishesInv, NextPreservesInv, PTL DEF Spec, Inv

\* The supply of shares is the sum of what their holders have.
THEOREM SavingsConservation == Spec => []SupplyIsSumOfShares
  BY InitEstablishesInv, NextPreservesInv, PTL DEF Spec, Inv

\* A share always covers at least the 1 stable the first one cost: rounding
\* never reaches a depositor's principal.
THEOREM SharesStayWorthPar == Spec => []SharesWorthPar
  BY InitEstablishesInv, NextPreservesInv, PTL DEF Spec, Inv

\* No deposit, withdrawal or transfer lowers the assets behind a share.
THEOREM PriceNeverFalls == Spec => SharePriceNeverFalls
<1>1. Inv /\ [Next]_vars =>
        [share_supply > 0 /\ share_supply' > 0 =>
            current_total_assets' * share_supply >= current_total_assets * share_supply']_vars
  BY NextStep DEF StepKept, PriceKept
<1> QED
  BY <1>1, InitEstablishesInv, NextPreservesInv, PTL DEF Spec, SharePriceNeverFalls

\* Shares bought are worth what was paid for them, but for the two roundings: less
\* than one quantum of a share at the price before, and one of the product.
THEOREM DepositsAreWorthTheirPrice == Spec => DepositsKeepTheirWorth
<1>1. Inv /\ [Next]_vars => [WorthKept]_vars
  BY NextStep DEF StepKept
<1> QED
  BY <1>1, InitEstablishesInv, NextPreservesInv, PTL DEF Spec, DepositsKeepTheirWorth, WorthKept
=============================================================================
