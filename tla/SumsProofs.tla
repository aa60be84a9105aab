----------------------------- MODULE SumsProofs -----------------------------
(***************************************************************************)
(* What the operator Total of module Sums does, for every finite map of    *)
(* non-negative amounts; what the operators of TokenLedger do to the total   *)
(* of the balances; what products and rounded quotients are bounded by; and  *)
(* what a deposit and a withdrawal do to the worth of a pool's shares.       *)
(***************************************************************************)
EXTENDS Sums, TokenLedger, Functions, FiniteSetTheorems, TLAPS

\* An amount n is n quanta.
LEMMA QuantaOfCardinality ==
  ASSUME NEW a, NEW n \in Nat
  PROVE  IsFiniteSet(QuantaOf(a, n)) /\ Cardinality(QuantaOf(a, n)) = n
<1>1. IsFiniteSet(1..n) /\ Cardinality(1..n) = n
  BY FS_Interval
<1>2. IsFiniteSet({a}) /\ Cardinality({a}) = 1
  BY FS_Singleton
<1>3. /\ IsFiniteSet({a} \X (1..n))
      /\ Cardinality({a} \X (1..n)) = Cardinality({a}) * Cardinality(1..n)
  BY <1>1, <1>2, FS_Product
<1> QED
  BY <1>1, <1>2, <1>3 DEF QuantaOf

\* A finite map of amounts holds finitely many quanta.
LEMMA QuantaFinite ==
  ASSUME NEW S, IsFiniteSet(S), NEW f \in [S -> Nat]
  PROVE  IsFiniteSet(QuantaIn(f))
<1> DEFINE piece == [a \in S |-> QuantaOf(a, f[a])]
           pieces == {QuantaOf(a, f[a]) : a \in S}
<1>1. piece \in Surjection(S, pieces)
  BY DEF Surjection
<1>2. IsFiniteSet(pieces)
  <2> HIDE DEF piece, pieces
  <2> QED
    BY <1>1, FS_Surjection
<1>3. \A q \in pieces : IsFiniteSet(q)
  BY QuantaOfCardinality
<1> QED
  BY <1>2, <1>3, FS_UNION DEF QuantaIn

\* So its total is a natural number.
LEMMA TotalType ==
  ASSUME NEW S, IsFiniteSet(S), NEW f \in [S -> Nat]
  PROVE  Total(f) \in Nat
  BY QuantaFinite, FS_CardinalityType DEF Total

\* Nothing held anywhere totals zero.
LEMMA TotalZero ==
  ASSUME NEW S
  PROVE  Total([a \in S |-> 0]) = 0
<1>1. QuantaIn([a \in S |-> 0]) = {}
  <2>1. \A a \in S : QuantaOf(a, 0) = {}
    BY DEF QuantaOf
  <2> QED
    BY <2>1 DEF QuantaIn
<1> QED
  BY <1>1, FS_EmptySet DEF Total

\* The cardinality of a disjoint union.
LEMMA DisjointUnion ==
  ASSUME NEW R, NEW Q, IsFiniteSet(R), IsFiniteSet(Q), R \cap Q = {}
  PROVE  Cardinality(R \cup Q) = Cardinality(R) + Cardinality(Q)
<1>1. Cardinality(R) \in Nat /\ Cardinality(Q) \in Nat
  BY FS_CardinalityType
<1>2. Cardinality(R \cup Q) = Cardinality(R) + Cardinality(Q) - Cardinality(R \cap Q)
  BY FS_Union
<1>3. Cardinality(R \cap Q) = 0
  BY FS_EmptySet
<1> QED
  BY <1>1, <1>2, <1>3

\* Changing one amount changes the total by the same difference.
LEMMA TotalUpdate ==
  ASSUME NEW S, IsFiniteSet(S), NEW f \in [S -> Nat], NEW k \in S, NEW v \in Nat
  PROVE  Total([f EXCEPT ![k] = v]) = Total(f) + v - f[k]
<1> DEFINE g == [f EXCEPT ![k] = v]
           rest == UNION {QuantaOf(a, f[a]) : a \in S \ {k}}
<1>1. QuantaIn(f) = rest \cup QuantaOf(k, f[k])
  BY DEF QuantaIn
<1>2. QuantaIn(g) = rest \cup QuantaOf(k, v)
  BY DEF QuantaIn
<1>3. /\ rest \cap QuantaOf(k, v) = {}
      /\ rest \cap QuantaOf(k, f[k]) = {}
  BY DEF QuantaOf
<1>4. IsFiniteSet(rest)
  <2>1. IsFiniteSet(QuantaIn(f))
    BY QuantaFinite
  <2> QED
    BY <2>1, <1>1, FS_Subset
<1>5. f[k] \in Nat
  OBVIOUS
<1>6. \A n \in Nat : IsFiniteSet(QuantaOf(k, n)) /\ Cardinality(QuantaOf(k, n)) = n
  BY QuantaOfCardinality
<1>7. Cardinality(rest) \in Nat
  BY <1>4, FS_CardinalityType
<1> HIDE DEF rest
<1>8. Total(f) = Cardinality(rest) + f[k]
  BY <1>1, <1>3, <1>4, <1>5, <1>6, DisjointUnion DEF Total
<1>9. Total(g) = Cardinality(rest) + v
  BY <1>2, <1>3, <1>4, <1>6, DisjointUnion DEF Total
<1> HIDE DEF g
<1>10. Total(g) = Total(f) + v - f[k]
  BY <1>5, <1>7, <1>8, <1>9
<1> QED
  BY <1>10 DEF g

\* One amount held and nothing else totals that amount.
LEMMA TotalSingle ==
  ASSUME NEW S, IsFiniteSet(S), NEW k \in S, NEW v \in Nat
  PROVE  Total([a \in S |-> IF a = k THEN v ELSE 0]) = v
<1> DEFINE zero == [a \in S |-> 0]
<1>1. zero \in [S -> Nat] /\ zero[k] = 0 /\ Total(zero) = 0
  BY TotalZero
<1>2. [a \in S |-> IF a = k THEN v ELSE 0] = [zero EXCEPT ![k] = v]
  OBVIOUS
<1> HIDE DEF zero
<1>3. Total([zero EXCEPT ![k] = v]) = Total(zero) + v - zero[k]
  BY <1>1, TotalUpdate
<1> QED
  BY <1>1, <1>2, <1>3

\* A transfer an account can pay moves balances without changing their total,
\* also when the account pays itself.
LEMMA MovedPreservesTotal ==
  ASSUME NEW S, IsFiniteSet(S), NEW b \in [S -> Nat], NEW from \in S, NEW to \in S,
         NEW amount \in Nat, b[from] >= amount
  PROVE  /\ Moved(b, from, to, amount) \in [S -> Nat]
         /\ Total(Moved(b, from, to, amount)) = Total(b)
<1> DEFINE paid == [b EXCEPT ![from] = b[from] - amount]
<1>1. paid \in [S -> Nat] /\ b[from] - amount \in Nat /\ b[from] \in Nat
  OBVIOUS
<1>2. Moved(b, from, to, amount) = [paid EXCEPT ![to] = paid[to] + amount]
  BY DEF Moved
<1>3. Total(paid) = Total(b) + (b[from] - amount) - b[from]
  BY <1>1, TotalUpdate
<1>4. Total(b) \in Nat
  BY TotalType
<1> HIDE DEF paid
<1>5. paid[to] \in Nat /\ paid[to] + amount \in Nat
  BY <1>1
<1>6. Total([paid EXCEPT ![to] = paid[to] + amount])
        = Total(paid) + (paid[to] + amount) - paid[to]
  BY <1>1, <1>5, TotalUpdate
<1>7. Total([paid EXCEPT ![to] = paid[to] + amount]) = Total(b)
  BY <1>1, <1>3, <1>4, <1>5, <1>6
<1>8. [paid EXCEPT ![to] = paid[to] + amount] \in [S -> Nat]
  BY <1>1, <1>5
<1> QED
  BY <1>2, <1>7, <1>8

-----------------------------------------------------------------------------
(* The calls of a token contract, on ledgers that are conserved. *)

\* Ledgers whose supply is the sum of their balances.
LedgersOver(S) == {l \in [balances : [S -> Nat], total_supply : Nat] :
                      l.total_supply = Total(l.balances)}

\* What one member of a map contributes is at most the total.
LEMMA TotalAtLeast ==
  ASSUME NEW S, IsFiniteSet(S), NEW f \in [S -> Nat], NEW k \in S
  PROVE  f[k] <= Total(f)
<1> DEFINE rest == [f EXCEPT ![k] = 0]
<1>1. rest \in [S -> Nat] /\ f[k] \in Nat /\ Total(f) \in Nat
  BY TotalType
<1>2. Total(rest) = Total(f) + 0 - f[k]
  BY TotalUpdate
<1>3. Total(rest) \in Nat
  BY <1>1, TotalType
<1> QED
  BY <1>1, <1>2, <1>3

\* A transfer that can be paid conserves the ledger and takes from the payer only.
LEMMA TransferKeepsLedger ==
  ASSUME NEW S, IsFiniteSet(S), NEW ledger \in LedgersOver(S), NEW from \in S, NEW to \in S,
         NEW amount \in Nat, ledger.balances[from] >= amount
  PROVE  /\ LedgerTransfer(ledger, from, to, amount) \in LedgersOver(S)
         /\ LedgerTransfer(ledger, from, to, amount).total_supply = ledger.total_supply
         /\ \A a \in S :
               LedgerTransfer(ledger, from, to, amount).balances[a]
                  >= ledger.balances[a] - (IF a = from THEN amount ELSE 0)
         /\ from # to =>
               LedgerTransfer(ledger, from, to, amount).balances[to] = ledger.balances[to] + amount
<1> DEFINE b == ledger.balances
           m == Moved(b, from, to, amount)
<1>1. b \in [S -> Nat] /\ ledger.total_supply = Total(b) /\ ledger.total_supply \in Nat
  BY DEF LedgersOver
<1>2. m \in [S -> Nat] /\ Total(m) = Total(b)
  BY <1>1, MovedPreservesTotal
<1>3. LedgerTransfer(ledger, from, to, amount)
        = [balances |-> m, total_supply |-> ledger.total_supply]
  BY DEF LedgerTransfer, LedgersOver
<1>4. \A a \in S : m[a] >= b[a] - (IF a = from THEN amount ELSE 0)
  BY <1>1 DEF Moved
<1>5. from # to => m[to] = b[to] + amount
  BY <1>1 DEF Moved
<1> HIDE DEF b, m
<1> QED
  BY <1>1, <1>2, <1>3, <1>4, <1>5 DEF LedgersOver, b

\* A mint takes from nobody.
LEMMA MintKeepsLedger ==
  ASSUME NEW S, IsFiniteSet(S), NEW ledger \in LedgersOver(S), NEW to \in S, NEW amount \in Nat
  PROVE  /\ LedgerMint(ledger, to, amount) \in LedgersOver(S)
         /\ \A a \in S : LedgerMint(ledger, to, amount).balances[a] >= ledger.balances[a]
<1> DEFINE b == ledger.balances
           n == b[to] + amount
           m == [b EXCEPT ![to] = n]
<1>1. b \in [S -> Nat] /\ ledger.total_supply = Total(b) /\ ledger.total_supply \in Nat
  BY DEF LedgersOver
<1>2. n \in Nat /\ b[to] \in Nat
  BY <1>1
<1>3. LedgerMint(ledger, to, amount) = [balances |-> m, total_supply |-> ledger.total_supply + amount]
  BY DEF LedgerMint
<1>4. \A a \in S : m[a] >= b[a]
  BY <1>1
<1>5. n - b[to] = amount
  BY <1>2
<1> HIDE DEF n
<1>6. m \in [S -> Nat] /\ Total(m) = Total(b) + n - b[to]
  BY <1>1, <1>2, TotalUpdate
<1>7. Total(m) = ledger.total_supply + amount
  BY <1>1, <1>2, <1>5, <1>6
<1> HIDE DEF m
<1>8. LedgerMint(ledger, to, amount) \in LedgersOver(S)
  BY <1>1, <1>3, <1>6, <1>7 DEF LedgersOver
<1> QED
  BY <1>3, <1>4, <1>8 DEF b

\* A burn that can be paid conserves the ledger.
LEMMA BurnKeepsLedger ==
  ASSUME NEW S, IsFiniteSet(S), NEW ledger \in LedgersOver(S), NEW from \in S, NEW amount \in Nat,
         ledger.balances[from] >= amount
  PROVE  /\ LedgerBurn(ledger, from, amount) \in LedgersOver(S)
         /\ LedgerBurn(ledger, from, amount).total_supply = ledger.total_supply - amount
         /\ LedgerBurn(ledger, from, amount).balances[from] = ledger.balances[from] - amount
<1> DEFINE b == ledger.balances
           n == b[from] - amount
           m == [b EXCEPT ![from] = n]
<1>1. b \in [S -> Nat] /\ ledger.total_supply = Total(b) /\ ledger.total_supply \in Nat
  BY DEF LedgersOver
<1>2. n \in Nat /\ b[from] \in Nat
  BY <1>1
<1>3. LedgerBurn(ledger, from, amount) = [balances |-> m, total_supply |-> ledger.total_supply - amount]
  BY DEF LedgerBurn
<1>4. m[from] = b[from] - amount
  BY <1>1
<1>5. n - b[from] = -amount
  BY <1>2
<1> HIDE DEF n
<1>6. m \in [S -> Nat] /\ Total(m) = Total(b) + n - b[from]
  BY <1>1, <1>2, TotalUpdate
<1>7. Total(m) = ledger.total_supply - amount /\ Total(m) \in Nat
  BY <1>1, <1>2, <1>5, <1>6, TotalType
<1> HIDE DEF m
<1>8. LedgerBurn(ledger, from, amount) \in LedgersOver(S)
  BY <1>1, <1>3, <1>6, <1>7 DEF LedgersOver
<1> QED
  BY <1>3, <1>4, <1>8 DEF b

-----------------------------------------------------------------------------
(* Products, and quotients rounded down. *)

\* A quotient rounded down times the divisor is within one divisor of the dividend.
LEMMA Floor ==
  ASSUME NEW a \in Int, NEW b \in Nat, b > 0
  PROVE  /\ a \div b \in Int
         /\ b * (a \div b) <= a
         /\ a < b * (a \div b) + b
  BY Z3

LEMMA ProductOfNats ==
  ASSUME NEW a \in Nat, NEW b \in Nat
  PROVE  a * b \in Nat
  BY Z3

LEMMA ProductMonotonic ==
  ASSUME NEW a \in Nat, NEW b \in Int, NEW c \in Int, b <= c
  PROVE  a * b <= a * c
  BY Z3

\* Rounding down respects a bound that is a whole multiple.
LEMMA QuotientBounded ==
  ASSUME NEW a \in Int, NEW b \in Nat, b > 0, NEW c \in Int, a <= b * c
  PROVE  a \div b <= c
<1>1. a \div b \in Int /\ b * (a \div b) <= a
  BY Floor
<1>2. b * (a \div b) <= b * c
  BY <1>1
<1> QED
  BY <1>1, <1>2, Z3

LEMMA QuotientAtLeast ==
  ASSUME NEW a \in Int, NEW b \in Nat, b > 0, NEW c \in Int, b * c <= a
  PROVE  a \div b >= c
<1>1. a \div b \in Int /\ a < b * (a \div b) + b
  BY Floor
<1>2. b * c < b * (a \div b) + b
  BY <1>1
<1> QED
  BY <1>1, <1>2, Z3

-----------------------------------------------------------------------------
(* What a share of a pool is worth, through one deposit and one withdrawal. *)

\* What a step may do to the two numbers a share is worth: the assets per share
\* do not fall, and the assets still cover the supply.
PriceKept(assets, supply, new_assets, new_supply) ==
    /\ new_assets >= new_supply
    /\ supply > 0 /\ new_supply > 0 => new_assets * supply >= assets * new_supply

\* A product rounded down to whole quanta of scale, at full scale again, misses
\* less than one of them.
LEMMA RoundedProduct ==
  ASSUME NEW a \in Nat, NEW b \in Nat, NEW scale \in Nat, scale > 0
  PROVE  /\ (a * b) \div scale \in Nat
         /\ ((a * b) \div scale) * scale \in Nat
         /\ ((a * b) \div scale) * scale <= a * b
         /\ a * b < ((a * b) \div scale) * scale + scale
<1> DEFINE whole == a * b
           product == whole \div scale
<1>1. whole \in Nat
  BY ProductOfNats
<1> HIDE DEF whole
<1>2. product \in Int /\ scale * product <= whole /\ whole < scale * product + scale
  BY <1>1, Floor
<1>3. product >= 0
  BY <1>1, QuotientAtLeast
<1> HIDE DEF product
<1>4. product * scale \in Nat
  BY <1>2, <1>3, ProductOfNats
<1>5. product * scale = scale * product
  BY <1>2, Z3
<1>6. product \in Nat /\ product * scale <= whole /\ whole < product * scale + scale
  BY <1>2, <1>3, <1>5
<1> QED
  BY <1>4, <1>6 DEF product, whole

\* A share of a product, rounded twice: a natural number, and how much it misses.
LEMMA RoundedShare ==
  ASSUME NEW a \in Nat, NEW b \in Nat, NEW scale \in Nat, scale > 0,
         NEW parts \in Nat, parts > 0, NEW share,
         share = (((a * b) \div scale) * scale) \div parts
  PROVE  /\ share \in Nat
         /\ parts * share <= a * b
         /\ a * b < parts * share + parts + scale
<1> DEFINE whole == ((a * b) \div scale) * scale
<1>1. whole \in Nat /\ whole <= a * b /\ a * b < whole + scale /\ a * b \in Nat
  BY RoundedProduct, ProductOfNats
<1>2. share = whole \div parts
  OBVIOUS
<1> HIDE DEF whole
<1>3. share \in Int /\ parts * share <= whole /\ whole < parts * share + parts
  BY <1>1, <1>2, Floor
<1>4. share >= 0
  BY <1>1, <1>2, QuotientAtLeast
<1>5. parts * share \in Nat
  BY <1>3, <1>4, ProductOfNats
<1> QED
  BY <1>1, <1>3, <1>4, <1>5

LEMMA DepositArithmetic ==
  ASSUME NEW assets \in Nat, NEW supply \in Nat, assets >= supply,
         NEW paid \in Nat, paid > 0, NEW scale \in Nat, scale > 0, NEW minted,
         minted = IF supply <= 0 \/ assets <= 0 THEN paid
                  ELSE (((paid * supply) \div scale) * scale) \div assets
  PROVE  /\ minted \in Nat
         /\ PriceKept(assets, supply, assets + paid, supply + minted)
         /\ paid * (supply + minted) - minted * (assets + paid) < assets + scale
<1>1. CASE supply = 0
  <2>1. minted = paid
    BY <1>1
  <2>2. PriceKept(assets, supply, assets + paid, supply + minted)
    BY <1>1, <2>1 DEF PriceKept
  <2>3. paid * assets \in Nat /\ paid * paid \in Nat
    BY ProductOfNats
  <2>4. paid * (supply + minted) - minted * (assets + paid) = -(paid * assets)
    BY <1>1, <2>1, <2>3, Z3
  <2> QED
    BY <2>1, <2>2, <2>3, <2>4
<1>2. CASE supply > 0
  <2>1. assets > 0 /\ minted = (((paid * supply) \div scale) * scale) \div assets
    BY <1>2
  <2>2. paid * supply \in Nat /\ paid * assets \in Nat
    BY ProductOfNats
  <2>3. /\ minted \in Nat
        /\ assets * minted <= paid * supply
        /\ paid * supply < assets * minted + assets + scale
    BY <2>1, RoundedShare
  <2>4. minted <= paid
    <3>1. paid * supply <= paid * assets
      BY ProductMonotonic
    <3>2. assets * minted <= assets * paid
      BY <2>2, <2>3, <3>1, Z3
    <3> QED
      BY <1>2, <2>3, <3>2, Z3
  <2>5. (assets + paid) * supply >= assets * (supply + minted)
    BY <2>3, <2>2, Z3
  <2>6. paid * (supply + minted) - minted * (assets + paid) < assets + scale
    BY <2>3, <2>2, Z3
  <2> QED
    BY <2>3, <2>4, <2>5, <2>6 DEF PriceKept
<1> QED
  BY <1>1, <1>2

LEMMA WithdrawalArithmetic ==
  ASSUME NEW assets \in Nat, NEW supply \in Nat, assets >= supply, supply > 0,
         NEW burned \in Nat, burned <= supply, NEW scale \in Nat, scale > 0, NEW paid,
         paid = (((burned * assets) \div scale) * scale) \div supply
  PROVE  /\ paid \in Nat
         /\ PriceKept(assets, supply, assets - paid, supply - burned)
<1>1. burned * assets \in Nat
  BY ProductOfNats
<1>2. paid \in Nat /\ supply * paid <= burned * assets
  BY RoundedShare
<1>3. (assets - paid) * supply >= assets * (supply - burned)
  BY <1>1, <1>2, Z3
<1>4. assets - paid >= supply - burned
  <2>1. (supply - burned) * (assets - supply) >= 0
    BY ProductOfNats
  <2>2. (assets - paid) * supply >= supply * (supply - burned)
    BY <1>2, <1>3, <2>1, Z3
  <2> QED
    BY <1>2, <2>2, Z3
<1> QED
  BY <1>2, <1>3, <1>4 DEF PriceKept
=============================================================================
