-------------------------- MODULE StableTokenProofs -------------------------
(***************************************************************************)
(* Type correctness and conservation of StableToken, for any accounts,     *)
(* amounts and bounds.                                                      *)
(***************************************************************************)
EXTENDS SignedToken, SumsProofs

\* SupplyIsSumOfBalances is inductive together with the types, which make
\* every balance a natural number: that is what lets a total be updated one
\* balance at a time.
Inv == TypeOK /\ SupplyIsSumOfBalances

LEMMA InitEstablishesInv == Init => Inv
<1> SUFFICES ASSUME Init PROVE Inv
  OBVIOUS
<1> USE TokenAssumption
<1>1. total_supply \in Nat
  BY DEF Init
<1>2. PICK holder \in Accounts :
        balances = [a \in Accounts |-> IF a = holder THEN total_supply ELSE 0]
  BY DEF Init
<1>3. TypeOK
  BY <1>1, <1>2 DEF Init, TypeOK
<1>4. total_supply = Total(balances)
  BY <1>1, <1>2, TotalSingle
<1>5. metadata[SupplyKey] = total_supply
  BY DEF Init
<1> QED
  BY <1>3, <1>4, <1>5 DEF Inv, SupplyIsSumOfBalances

\* A payment between two accounts, the part transfer and transfer_from share.
LEMMA PaymentKeepsConservation ==
  ASSUME Inv, NEW from \in Accounts, NEW to \in Accounts, NEW amount \in Nat,
         CanPay(balances, from, amount),
         balances' = Moved(balances, from, to, amount),
         UNCHANGED <<metadata, total_supply>>
  PROVE  balances' \in [Accounts -> Nat] /\ SupplyIsSumOfBalances'
<1>1. balances \in [Accounts -> Nat] /\ balances[from] >= amount /\ IsFiniteSet(Accounts)
  BY TokenAssumption DEF Inv, TypeOK, CanPay
<1>2. balances' \in [Accounts -> Nat] /\ Total(balances') = Total(balances)
  BY <1>1, MovedPreservesTotal
<1> QED
  BY <1>2 DEF Inv, SupplyIsSumOfBalances

LEMMA NextPreservesInv == Inv /\ [Next]_vars => Inv'
<1> SUFFICES ASSUME Inv, [Next]_vars PROVE Inv'
  OBVIOUS
<1> USE TokenAssumption
<1>1. CASE UNCHANGED vars
  BY <1>1 DEF Inv, TypeOK, SupplyIsSumOfBalances, vars
<1>2. ASSUME NEW caller \in Accounts, NEW account \in Accounts,
             start_governance_transfer(caller, account)
      PROVE  Inv'
  BY <1>2 DEF Inv, TypeOK, SupplyIsSumOfBalances, start_governance_transfer
<1>3. ASSUME NEW caller \in Accounts, accept_governance(caller)
      PROVE  Inv'
  BY <1>3 DEF Inv, TypeOK, SupplyIsSumOfBalances, accept_governance
<1>4. ASSUME NEW caller \in Accounts, NEW account \in Accounts, NEW enabled \in BOOLEAN,
             set_controller(caller, account, enabled)
      PROVE  Inv'
  BY <1>4 DEF Inv, TypeOK, SupplyIsSumOfBalances, set_controller
<1>5. ASSUME NEW caller \in Accounts, NEW amount \in Amounts, NEW to \in Accounts,
             approve(caller, amount, to)
      PROVE  Inv'
  BY <1>5 DEF Inv, TypeOK, SupplyIsSumOfBalances, approve
<1>6. ASSUME NEW caller \in Accounts, NEW amount \in Amounts, NEW to \in Accounts,
             transfer(caller, amount, to)
      PROVE  Inv'
  <2>1. balances' \in [Accounts -> Nat] /\ SupplyIsSumOfBalances'
    BY <1>6, PaymentKeepsConservation DEF transfer
  <2> QED
    BY <1>6, <2>1 DEF Inv, TypeOK, transfer
<1>7. ASSUME NEW caller \in Accounts, NEW amount \in Amounts, NEW to \in Accounts,
             NEW main \in Accounts, transfer_from(caller, amount, to, main)
      PROVE  Inv'
  <2>1. balances' \in [Accounts -> Nat] /\ SupplyIsSumOfBalances'
    BY <1>7, PaymentKeepsConservation DEF transfer_from
  <2>2. approvals' \in [Accounts \X Accounts -> Nat]
    BY <1>7 DEF Inv, TypeOK, transfer_from
  <2> QED
    BY <1>7, <2>1, <2>2 DEF Inv, TypeOK, transfer_from
<1>8. ASSUME NEW caller \in Accounts, NEW amount \in Amounts, NEW to \in Accounts,
             mint(caller, amount, to)
      PROVE  Inv'
  <2> DEFINE v == balances[to] + amount
  <2>1. /\ balances \in [Accounts -> Nat]
        /\ balances[to] \in Nat
        /\ v \in Nat
        /\ total_supply \in Nat
        /\ total_supply = Total(balances)
    BY DEF Inv, TypeOK, SupplyIsSumOfBalances
  <2>2. balances' = [balances EXCEPT ![to] = v]
    BY <1>8 DEF mint
  <2> HIDE DEF v
  <2>3. Total(balances') = Total(balances) + v - balances[to]
    BY <2>1, <2>2, TotalUpdate
  <2>4. total_supply' = Total(balances')
    BY <1>8, <2>1, <2>3 DEF mint, v
  <2>5. metadata'[SupplyKey] = total_supply' /\ metadata' \in [MetadataKeys -> Nat]
    BY <1>8, <2>1 DEF Inv, TypeOK, mint
  <2>6. balances' \in [Accounts -> Nat] /\ total_supply' \in Nat
    BY <1>8, <2>1, <2>2 DEF mint
  <2> QED
    BY <1>8, <2>4, <2>5, <2>6 DEF Inv, TypeOK, SupplyIsSumOfBalances, mint
<1>9. ASSUME NEW caller \in Accounts, NEW amount \in Amounts, burn(caller, amount)
      PROVE  Inv'
  <2> DEFINE v == balances[caller] - amount
  <2>1. /\ balances \in [Accounts -> Nat]
        /\ balances[caller] \in Nat
        /\ v \in Nat
        /\ total_supply \in Nat
        /\ total_supply = Total(balances)
    BY <1>9 DEF Inv, TypeOK, SupplyIsSumOfBalances, burn, CanPay
  <2>2. balances' = [balances EXCEPT ![caller] = v]
    BY <1>9 DEF burn
  <2> HIDE DEF v
  <2>3. Total(balances') = Total(balances) + v - balances[caller]
    BY <2>1, <2>2, TotalUpdate
  <2>4. total_supply' = Total(balances')
    BY <1>9, <2>1, <2>3 DEF burn, v
  <2>5. balances' \in [Accounts -> Nat]
    BY <2>1, <2>2
  <2>6. total_supply' \in Nat
    BY <2>4, <2>5, TotalType
  <2>7. metadata'[SupplyKey] = total_supply' /\ metadata' \in [MetadataKeys -> Nat]
    BY <1>9, <2>6 DEF Inv, TypeOK, burn
  <2> QED
    BY <1>9, <2>4, <2>5, <2>6, <2>7 DEF Inv, TypeOK, SupplyIsSumOfBalances, burn
<1>10. ASSUME NEW caller \in Accounts, NEW key \in MetadataKeys, NEW value \in MetadataValues,
              change_metadata(caller, key, value)
       PROVE  Inv'
  BY <1>10 DEF Inv, TypeOK, SupplyIsSumOfBalances, change_metadata
<1> QED
  BY <1>1, <1>2, <1>3, <1>4, <1>5, <1>6, <1>7, <1>8, <1>9, <1>10 DEF Next, Call

\* The types of the token's state.
THEOREM TypeCorrect == Spec => []TypeOK
<1>1. Inv => TypeOK
  BY DEF Inv
<1> QED
  BY <1>1, InitEstablishesInv, NextPreservesInv, PTL DEF Spec

\* Conservation: the reported supply is the sum of the balances, in every
\* reachable state and for any accounts and amounts.
THEOREM Conservation == Spec => []SupplyIsSumOfBalances
<1>1. Inv => SupplyIsSumOfBalances
  BY DEF Inv
<1> QED
  BY <1>1, InitEstablishesInv, NextPreservesInv, PTL DEF Spec

-----------------------------------------------------------------------------
(* Who moves a balance. *)

\* A payment takes from the payer alone, and no more than its amount.
LEMMA PaymentTakesFromPayer ==
  ASSUME NEW f \in [Accounts -> Nat], NEW from \in Accounts, NEW to \in Accounts,
         NEW amount \in Nat, NEW a \in Accounts, Moved(f, from, to, amount)[a] < f[a]
  PROVE  a = from /\ f[a] - Moved(f, from, to, amount)[a] <= amount
<1> DEFINE taken == [f EXCEPT ![from] = f[from] - amount]
<1>1. /\ taken[from] = f[from] - amount
      /\ \A b \in Accounts \ {from} : taken[b] = f[b]
      /\ \A b \in Accounts : taken[b] \in Int
  OBVIOUS
<1>2. Moved(f, from, to, amount) = [taken EXCEPT ![to] = taken[to] + amount]
  BY DEF Moved
<1>3. taken \in [Accounts -> Int]
  BY <1>1
<1> HIDE DEF taken
<1>4. /\ a # to => Moved(f, from, to, amount)[a] = taken[a]
      /\ a = to => Moved(f, from, to, amount)[a] = taken[a] + amount
  BY <1>2, <1>3
<1>5. f[a] \in Nat /\ taken[a] \in Int
  BY <1>3
<1>6. /\ Moved(f, from, to, amount)[a] \in Int
      /\ Moved(f, from, to, amount)[a] >= taken[a]
  BY <1>4, <1>5
<1>7. a = from
  <2> SUFFICES ASSUME a # from PROVE FALSE
    OBVIOUS
  <2>1. taken[a] = f[a]
    BY <1>1
  <2> QED
    BY <1>5, <1>6, <2>1
<1> QED
  BY <1>1, <1>4, <1>5, <1>6, <1>7

LEMMA SignedStep ==
  ASSUME Inv, NEW caller \in Accounts, Call(caller), NEW a \in Accounts,
         balances'[a] < balances[a]
  PROVE  \/ caller = a
         \/ approvals[<<a, caller>>] - approvals'[<<a, caller>>] >= balances[a] - balances'[a]
<1>1. balances \in [Accounts -> Nat] /\ approvals \in [Accounts \X Accounts -> Nat]
  BY DEF Inv, TypeOK
<1>2. balances' # balances
  BY <1>1
<1>3. Amounts \subseteq Nat
  BY TokenAssumption
<1>4. ASSUME NEW amount \in Amounts, NEW to \in Accounts, transfer(caller, amount, to)
      PROVE  caller = a
  BY <1>1, <1>3, <1>4, PaymentTakesFromPayer DEF transfer
<1>5. ASSUME NEW amount \in Amounts, NEW to \in Accounts, NEW main \in Accounts,
             transfer_from(caller, amount, to, main)
      PROVE  approvals[<<a, caller>>] - approvals'[<<a, caller>>] >= balances[a] - balances'[a]
  <2>1. a = main /\ balances[a] - balances'[a] <= amount
    BY <1>1, <1>3, <1>5, PaymentTakesFromPayer DEF transfer_from
  <2>2. /\ approvals[<<main, caller>>] \in Nat /\ amount \in Nat
        /\ approvals'[<<main, caller>>] = approvals[<<main, caller>>] - amount
    BY <1>1, <1>3, <1>5 DEF transfer_from
  <2>3. approvals[<<main, caller>>] - approvals'[<<main, caller>>] = amount
    BY <2>2
  <2> QED
    BY <2>1, <2>3
<1>6. ASSUME NEW amount \in Amounts, NEW to \in Accounts, mint(caller, amount, to)
      PROVE  FALSE
  <2>1. amount \in Nat /\ balances' = [balances EXCEPT ![to] = balances[to] + amount]
    BY <1>3, <1>6 DEF mint
  <2>2. balances[to] \in Nat /\ balances[a] \in Nat
    BY <1>1
  <2> QED
    BY <1>1, <2>1, <2>2
<1>7. ASSUME NEW amount \in Amounts, burn(caller, amount) PROVE caller = a
  <2>1. balances' = [balances EXCEPT ![caller] = balances[caller] - amount]
    BY <1>7 DEF burn
  <2> QED
    BY <1>1, <2>1
<1> QED
  BY <1>2, <1>4, <1>5, <1>6, <1>7
     DEF Call, start_governance_transfer, accept_governance, set_controller, approve,
         change_metadata

\* Consent: nobody's balance falls but by what it signed itself, or by what it
\* allowed the signer and the signer then used up, in any run.
THEOREM DebitsHaveConsent == SignedSpec => DebitsAreAuthorised
<1>1. SignedInit => Init
  BY DEF SignedInit
<1>2. [SignedNext]_<<vars, signer>> => [Next]_vars
  BY DEF SignedNext, Next, vars
<1>3. Inv /\ [SignedNext]_<<vars, signer>> => Inv'
  BY <1>2, NextPreservesInv
<1>4. Inv /\ [SignedNext]_<<vars, signer>> =>
         [\A a \in Accounts : balances'[a] < balances[a] =>
             \/ signer' = a
             \/ approvals[<<a, signer'>>] - approvals'[<<a, signer'>>]
                   >= balances[a] - balances'[a]]_vars
  BY SignedStep DEF SignedNext, vars
<1> QED
  BY <1>1, <1>3, <1>4, InitEstablishesInv, PTL DEF SignedSpec, DebitsAreAuthorised
=============================================================================
