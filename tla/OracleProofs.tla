---------------------------- MODULE OracleProofs ----------------------------
(***************************************************************************)
(* The oracle, for any accounts, prices, quorums and ages: a quorum is made  *)
(* of different reporters, and fewer than half of them cannot set the price.  *)
(***************************************************************************)
EXTENDS Oracle, SequenceTheorems, FiniteSetTheorems, WellFoundedInduction, TLAPS

LEMMA LeastExists ==
  ASSUME NEW T, T \subseteq Nat, T # {}
  PROVE  \E x \in T : \A y \in T : x <= y
<1>1. PICK less : /\ IsWellFoundedOn(less, Nat)
                  /\ \A x, y \in Nat : y < x => <<y, x>> \in less
  <2> DEFINE lt == OpToRel(<, Nat)
  <2>1. IsWellFoundedOn(lt, Nat)
    BY NatLessThanWellFounded
  <2>2. \A x, y \in Nat : y < x => <<y, x>> \in lt
    BY DEF OpToRel
  <2> QED
    BY <2>1, <2>2
<1>2. PICK x \in T : \A y \in T : ~ (<<y, x>> \in less)
  BY <1>1, WFMin
<1>3. ASSUME NEW y \in T
      PROVE  x <= y
  <2>1. x \in Nat /\ y \in Nat
    OBVIOUS
  <2>2. <<y, x>> \notin less
    BY <1>2
  <2>3. ~ (y < x)
    BY <1>1, <2>1, <2>2
  <2> QED
    BY <2>1, <2>3
<1> QED
  BY <1>3

LEMMA InductionOverSet ==
  ASSUME NEW T, NEW n \in Nat, 0 \in T, \A i \in 0..(n - 1) : i \in T => i + 1 \in T
  PROVE  \A i \in 0..n : i \in T
<1> SUFFICES ASSUME NEW k \in 0..n, k \notin T PROVE FALSE
  OBVIOUS
<1> DEFINE missed == (0..n) \ T
<1>1. PICK x \in missed : \A y \in missed : x <= y
  <2>1. missed \subseteq Nat /\ missed # {}
    OBVIOUS
  <2> HIDE DEF missed
  <2> QED
    BY <2>1, LeastExists
<1>2. x # 0 /\ x - 1 \in 0..(n-1) 
  BY <1>1
<1>3. x - 1 \in T
  BY <1>1, <1>2
<1> QED
  BY <1>1, <1>2, <1>3

\* A pass over 1..n that starts with c and takes one step for every place.
ClosedStep(step, S, n) == \A s \in S, i \in 1..n : step[<<s, i>>] \in S

PassOf(f, step, c, n, S) ==
    /\ f \in [0..n -> S]
    /\ f[0] = c
    /\ \A i \in 1..n : f[i] = step[<<f[i - 1], i>>]

\* There is such a pass.
LEMMA PassExists ==
  ASSUME NEW S, NEW c \in S, NEW n \in Nat, NEW step, ClosedStep(step, S, n)
  PROVE  \E f : PassOf(f, step, c, n, S)
<1>0. \A s \in S, i \in 1..n : step[<<s, i>>] \in S
  BY DEF ClosedStep
<1> DEFINE Upto(k) == \E f : /\ f \in [0..k -> S]
                             /\ f[0] = c
                             /\ \A i \in 1..k : f[i] = step[<<f[i-1], i>>]
           T == {k \in 0..n : Upto(k)}
<1>1. Upto(0)
  <2> DEFINE f == [k \in 0..0 |-> c]
  <2>1. f \in [0..0 -> S] /\ f[0] = c /\ \A i \in 1..0 : f[i] = step[<<f[i-1], i>>]
    OBVIOUS
  <2> HIDE DEF f
  <2> QED
    BY <2>1
<1>2. ASSUME NEW k \in 0..(n - 1), Upto(k)
      PROVE  Upto(k + 1)
  <2>1. PICK f : /\ f \in [0..k -> S]
                 /\ f[0] = c
                 /\ \A i \in 1..k : f[i] = step[<<f[i-1], i>>]
    BY <1>2
  <2> DEFINE g == [i \in 0..(k+1) |-> IF i = k + 1 THEN step[<<f[k], k + 1>>] ELSE f[i]]
  <2>0. f[k] \in S /\ step[<<f[k], k + 1>>] \in S
    BY <1>0, <2>1
  <2>2. g \in [0..(k+1) -> S] /\ g[0] = c
    BY <2>0, <2>1
  <2>3. \A i \in 1..(k+1) : g[i] = step[<<g[i-1], i>>]
    <3> TAKE i \in 1..(k+1)
    <3>1. CASE i = k + 1
      <4>1. g[i] = step[<<f[k], k+1>>] /\ g[i - 1] = f[k]
        BY <3>1
      <4> HIDE DEF g
      <4> QED
        BY <3>1, <4>1
    <3>2. CASE i \in 1..k
      <4>1. g[i] = f[i] /\ g[i - 1] = f[i - 1]
        BY <3>2
      <4> HIDE DEF g
      <4> QED
        BY <2>1, <3>2, <4>1
    <3> QED
      BY <3>1, <3>2
  <2> HIDE DEF g
  <2> QED
    BY <2>2, <2>3
<1> HIDE DEF Upto
<1>3. 0 \in T /\ \A k \in 0..(n-1) : k \in T => k + 1 \in T
  BY <1>1, <1>2
<1>4. n \in T
  <2> HIDE DEF T
  <2>1. \A i \in 0..n : i \in T
    BY <1>3, InductionOverSet
  <2> QED
    BY <2>1
<1> QED
  BY <1>4 DEF Upto, PassOf

\* Where a price is inserted: behind those that are not larger.
LEMMA WhereToInsert ==
  ASSUME NEW ordered \in Seq(Nat), NEW value \in Nat
  PROVE  \E j \in 1..(Len(ordered) + 1) :
            /\ \A k \in 1..(j - 1) : ordered[k] <= value
            /\ j <= Len(ordered) => value < ordered[j]
            /\ insert_price(ordered, value) =
                  IF j > Len(ordered) THEN Append(ordered, value)
                  ELSE InsertAt(ordered, j, value)
<1> DEFINE larger == {i \in 1..Len(ordered) : value < ordered[i]}
           index == SelectInSeq(ordered, LAMBDA v : value < v)
<1>0. Len(ordered) \in Nat /\ \A i \in 1..Len(ordered) : ordered[i] \in Nat
  BY LenProperties, ElementOfSeq
<1>1. index = IF larger # {} THEN Min(larger) ELSE 0
  BY DEF SelectInSeq
<1>2. insert_price(ordered, value) =
         IF index = 0 THEN Append(ordered, value) ELSE InsertAt(ordered, index, value)
  BY DEF insert_price
<1> HIDE DEF index
<1>3. CASE larger = {}
  <2>1. \A k \in 1..Len(ordered) : ordered[k] <= value
    BY <1>0, <1>3
  <2>2. insert_price(ordered, value) = Append(ordered, value)
    BY <1>1, <1>2, <1>3
  <2> DEFINE j == Len(ordered) + 1
  <2>3. j \in 1..(Len(ordered) + 1) /\ j > Len(ordered) /\ j - 1 = Len(ordered)
    BY <1>0
  <2> HIDE DEF j
  <2> QED
    BY <1>0, <2>1, <2>2, <2>3
<1>4. CASE larger # {}
  <2>1. PICK m \in larger : \A k \in larger : m <= k
    <3> HIDE DEF larger
    <3>1. larger \subseteq Nat
      BY <1>0 DEF larger
    <3> QED
      BY <1>4, <3>1, LeastExists
  <2>2. Min(larger) \in larger /\ \A k \in larger : Min(larger) <= k
    <3> HIDE DEF larger
    <3> QED
      BY <2>1 DEF Min
  <2>3. index \in larger /\ \A k \in larger : index <= k
    BY <1>1, <1>4, <2>2
  <2>4. ASSUME NEW k \in 1..(index - 1)
        PROVE  ordered[k] <= value
    <3>1. index \in 1..Len(ordered) /\ value < ordered[index]
      BY <2>3
    <3>2. k \in 1..Len(ordered) /\ ~ (index <= k)
      BY <1>0, <3>1
    <3>3. k \notin larger
      BY <2>3, <3>2
    <3> QED
      BY <1>0, <3>2, <3>3
  <2> QED
    BY <1>0, <1>2, <2>3, <2>4
<1> QED
  BY <1>3, <1>4

\* In the order of the prices.
Ascending(s) == \A i, j \in 1..Len(s) : i <= j => s[i] <= s[j]

\* What an insertion does, place by place.
LEMMA InsertedAt ==
  ASSUME NEW ordered \in Seq(Nat), NEW value \in Nat
  PROVE  /\ insert_price(ordered, value) \in Seq(Nat)
         /\ Len(insert_price(ordered, value)) = Len(ordered) + 1
         /\ \E j \in 1..(Len(ordered) + 1) :
               /\ \A k \in 1..(j - 1) : ordered[k] <= value
               /\ j <= Len(ordered) => value < ordered[j]
               /\ \A k \in 1..(Len(ordered) + 1) :
                     insert_price(ordered, value)[k] =
                        IF k < j THEN ordered[k]
                        ELSE IF k = j THEN value ELSE ordered[k - 1]
<1> DEFINE n == Len(ordered)
           inserted == insert_price(ordered, value)
<1>0. n \in Nat /\ \A i \in 1..n : ordered[i] \in Nat
  BY LenProperties, ElementOfSeq
<1>1. PICK j \in 1..(n + 1) :
            /\ \A k \in 1..(j - 1) : ordered[k] <= value
            /\ j <= n => value < ordered[j]
            /\ inserted = IF j > n THEN Append(ordered, value)
                          ELSE InsertAt(ordered, j, value)
  BY WhereToInsert
<1>2. /\ inserted \in Seq(Nat)
      /\ Len(inserted) = n + 1
      /\ \A k \in 1..(n + 1) :
            inserted[k] = IF k < j THEN ordered[k]
                          ELSE IF k = j THEN value ELSE ordered[k - 1]
  <2>1. CASE j > n
    <3>1. inserted = Append(ordered, value)
      BY <1>1, <2>1
    <3>2. /\ Append(ordered, value) \in Seq(Nat)
          /\ Len(Append(ordered, value)) = n + 1
          /\ \A i \in 1..n : Append(ordered, value)[i] = ordered[i]
          /\ Append(ordered, value)[n + 1] = value
      BY AppendProperties
    <3>3. j = n + 1
      BY <1>0, <2>1
    <3> HIDE DEF inserted
    <3> QED
      BY <1>0, <3>1, <3>2, <3>3
  <2>2. CASE j <= n
    <3> DEFINE before == SubSeq(ordered, 1, j - 1)
               after == SubSeq(ordered, j, n)
               front == before \o <<value>>
    <3>1. /\ before \in Seq(Nat)
          /\ Len(before) = j - 1
          /\ \A i \in 1..(j - 1) : before[i] = ordered[i]
      <4>1. \A i \in 1..(j - 1) : ordered[i] \in Nat
        BY <1>0
      <4>2. Len(before) = IF 1 <= j - 1 THEN (j - 1) - 1 + 1 ELSE 0
        BY <4>1, SubSeqProperties
      <4>3. before \in Seq(Nat) /\ \A i \in 1..((j - 1) - 1 + 1) : before[i] = ordered[1 + i - 1]
        BY <4>1, SubSeqProperties
      <4> HIDE DEF before
      <4> QED
        BY <1>0, <4>2, <4>3
    <3>2. /\ after \in Seq(Nat)
          /\ Len(after) = n - j + 1
          /\ \A i \in 1..(n - j + 1) : after[i] = ordered[j + i - 1]
      <4>1. \A i \in j..n : ordered[i] \in Nat
        BY <1>0
      <4>2. Len(after) = IF j <= n THEN n - j + 1 ELSE 0
        BY <1>0, <4>1, SubSeqProperties
      <4>3. after \in Seq(Nat) /\ \A i \in 1..(n - j + 1) : after[i] = ordered[j + i - 1]
        BY <1>0, <4>1, SubSeqProperties
      <4> HIDE DEF after
      <4> QED
        BY <2>2, <4>2, <4>3
    <3> HIDE DEF before, after
    <3>3. <<value>> \in Seq(Nat) /\ Len(<<value>>) = 1 /\ <<value>>[1] = value
      OBVIOUS
    <3>4. /\ front \in Seq(Nat)
          /\ Len(front) = j
          /\ \A i \in 1..j : front[i] = IF i <= j - 1 THEN before[i] ELSE <<value>>[i - (j - 1)]
      <4>1. /\ front \in Seq(Nat)
            /\ Len(front) = Len(before) + Len(<<value>>)
            /\ \A i \in 1..(Len(before) + Len(<<value>>)) :
                  front[i] = IF i <= Len(before) THEN before[i] ELSE <<value>>[i - Len(before)]
        BY <3>1, <3>3, ConcatProperties
      <4>2. Len(before) + Len(<<value>>) = j
        BY <1>0, <3>1, <3>3
      <4> HIDE DEF front
      <4> QED
        BY <3>1, <4>1, <4>2
    <3>5. inserted = front \o after
      BY <1>1, <2>2, <1>0 DEF InsertAt, before, after
    <3> HIDE DEF front
    <3>6. /\ inserted \in Seq(Nat)
          /\ Len(inserted) = Len(front) + Len(after)
          /\ \A i \in 1..(Len(front) + Len(after)) :
                inserted[i] = IF i <= Len(front) THEN front[i] ELSE after[i - Len(front)]
      BY <3>2, <3>4, <3>5, ConcatProperties
    <3> HIDE DEF inserted
    <3>7. Len(inserted) = n + 1
      BY <1>0, <3>2, <3>4, <3>6
    <3>8. ASSUME NEW k \in 1..(n + 1)
          PROVE  inserted[k] = IF k < j THEN ordered[k]
                               ELSE IF k = j THEN value ELSE ordered[k - 1]
      <4>1. CASE k < j
        <5>1. k \in 1..j /\ k \in 1..(j - 1) /\ k <= Len(front) /\ k \in 1..(Len(front) + Len(after))
          BY <1>0, <3>2, <3>4, <4>1
        <5>2. inserted[k] = front[k] /\ front[k] = before[k] /\ before[k] = ordered[k]
          BY <5>1, <3>1, <3>4, <3>6
        <5> QED
          BY <4>1, <5>2
      <4>2. CASE k = j
        BY <1>0, <3>2, <3>3, <3>4, <3>6, <4>2
      <4>3. CASE k > j
        <5>1. inserted[k] = after[k - j] /\ k - j \in 1..(n - j + 1)
          BY <1>0, <3>2, <3>4, <3>6, <4>3
        <5>2. after[k - j] = ordered[j + (k - j) - 1]
          BY <5>1, <3>2
        <5>3. j + (k - j) - 1 = k - 1
          BY <1>0
        <5> QED
          BY <1>0, <4>3, <5>1, <5>2, <5>3
      <4> QED
        BY <1>0, <4>1, <4>2, <4>3
    <3> QED
      BY <3>6, <3>7, <3>8
  <2> QED
    BY <1>0, <2>1, <2>2
<1> HIDE DEF inserted
<1>3. /\ \A k \in 1..(j - 1) : ordered[k] <= value
      /\ j <= n => value < ordered[j]
  BY <1>1
<1> QED
  BY <1>2, <1>3 DEF inserted

\* So an insertion keeps the order.
LEMMA InsertKeepsOrder ==
  ASSUME NEW ordered \in Seq(Nat), NEW value \in Nat, Ascending(ordered)
  PROVE  Ascending(insert_price(ordered, value))
<1> DEFINE n == Len(ordered)
           inserted == insert_price(ordered, value)
<1>0. n \in Nat /\ \A i \in 1..n : ordered[i] \in Nat
  BY LenProperties, ElementOfSeq
<1>1. Len(inserted) = n + 1
  BY InsertedAt
<1>2. PICK j \in 1..(n + 1) :
               /\ \A k \in 1..(j - 1) : ordered[k] <= value
               /\ j <= n => value < ordered[j]
               /\ \A k \in 1..(n + 1) :
                     inserted[k] = IF k < j THEN ordered[k]
                                   ELSE IF k = j THEN value ELSE ordered[k - 1]
  BY InsertedAt
<1> HIDE DEF inserted
<1>3. \A p, q \in 1..n : p <= q => ordered[p] <= ordered[q]
  BY DEF Ascending
<1>4. ASSUME NEW p \in 1..(n + 1), NEW q \in 1..(n + 1), p <= q
      PROVE  inserted[p] <= inserted[q]
  <2>1. CASE p = q
    <3>1. inserted[p] \in Nat
      BY <1>0, <1>2
    <3> QED
      BY <2>1, <3>1
  <2>2. CASE p < q /\ q < j
    BY <1>0, <1>2, <1>3, <2>2
  <2>3. CASE p < q /\ q = j
    BY <1>0, <1>2, <2>3
  <2>4. CASE p < j /\ j < q
    <3>1. inserted[p] = ordered[p] /\ inserted[q] = ordered[q - 1] /\ p \in 1..n /\ q - 1 \in 1..n
      BY <1>0, <1>2, <2>4
    <3> QED
      BY <1>0, <1>3, <2>4, <3>1
  <2>5. CASE p = j /\ j < q
    <3>1. inserted[p] = value /\ inserted[q] = ordered[q - 1] /\ j \in 1..n /\ q - 1 \in 1..n
      BY <1>0, <1>2, <2>5
    <3>2. value < ordered[j] /\ ordered[j] <= ordered[q - 1]
      BY <1>0, <1>2, <1>3, <2>5, <3>1
    <3> QED
      BY <1>0, <3>1, <3>2
  <2>6. CASE j < p /\ p < q
    <3>1. inserted[p] = ordered[p - 1] /\ inserted[q] = ordered[q - 1] /\ p - 1 \in 1..n /\ q - 1 \in 1..n
      BY <1>0, <1>2, <2>6
    <3> QED
      BY <1>0, <1>3, <2>6, <3>1
  <2> QED
    BY <1>0, <1>4, <2>1, <2>2, <2>3, <2>4, <2>5, <2>6
<1>5. \A p, q \in 1..Len(inserted) : p <= q => inserted[p] <= inserted[q]
  BY <1>1, <1>4
<1> QED
  BY <1>5 DEF Ascending, inserted

\* The passes of sort_prices are what their definition says.
LEMMA SortingPasses ==
  ASSUME NEW values \in Seq(Nat)
  PROVE  /\ sorting(values)[0] = <<>>
         /\ \A i \in 1..Len(values) :
               sorting(values)[i] = insert_price(sorting(values)[i - 1], values[i])
<1> DEFINE n == Len(values)
           step == [x \in Seq(Nat) \X (1..n) |-> insert_price(x[1], values[x[2]])]
           Pass(g) == [i \in 0..n |-> IF i = 0 THEN <<>> ELSE insert_price(g[i - 1], values[i])]
<1>0. n \in Nat /\ \A i \in 1..n : values[i] \in Nat
  BY LenProperties, ElementOfSeq
<1>1. \A s \in Seq(Nat), i \in 1..n : step[<<s, i>>] = insert_price(s, values[i])
  OBVIOUS
<1> HIDE DEF step
<1>2. ClosedStep(step, Seq(Nat), n)
  <2> SUFFICES ASSUME NEW s \in Seq(Nat), NEW i \in 1..n
               PROVE  step[<<s, i>>] \in Seq(Nat)
    BY DEF ClosedStep
  <2>1. insert_price(s, values[i]) \in Seq(Nat)
    BY <1>0, InsertedAt
  <2> QED
    BY <1>1, <2>1
<1>3. <<>> \in Seq(Nat)
  BY EmptySeq
<1>4. PICK f : PassOf(f, step, <<>>, n, Seq(Nat))
  BY <1>0, <1>2, <1>3, PassExists
<1>5. f = Pass(f)
  <2>0. /\ f \in [0..n -> Seq(Nat)]
        /\ f[0] = <<>>
        /\ \A i \in 1..n : f[i] = step[<<f[i - 1], i>>]
    BY <1>4 DEF PassOf
  <2>1. \A i \in 1..n : f[i] = insert_price(f[i - 1], values[i])
    <3> TAKE i \in 1..n
    <3>0. i - 1 \in 0..n
      BY <1>0
    <3>1. f[i - 1] \in Seq(Nat)
      BY <2>0, <3>0
    <3> QED
      BY <1>1, <2>0, <3>1
  <2> QED
    BY <1>0, <2>0, <2>1
<1>6. sorting(values) = CHOOSE g : g = Pass(g)
  BY DEF sorting
<1>7. sorting(values) = Pass(sorting(values))
  <2> HIDE DEF Pass
  <2> QED
    BY <1>5, <1>6
<1> QED
  BY <1>0, <1>7

\* What i passes of sort_prices leave: the first i values, in order.
SortedUpto(s, values, i) ==
    /\ s \in Seq(Nat)
    /\ Len(s) = i
    /\ Ascending(s)
    /\ \E p : /\ p \in [1..i -> 1..i]
              /\ \A k, l \in 1..i : p[k] = p[l] => k = l
              /\ \A k \in 1..i : s[k] = values[p[k]]

\* One pass.
LEMMA OnePassSorts ==
  ASSUME NEW values \in Seq(Nat), NEW i \in 0..(Len(values) - 1), NEW s,
         SortedUpto(s, values, i)
  PROVE  SortedUpto(insert_price(s, values[i + 1]), values, i + 1)
<1> DEFINE value == values[i + 1]
           t == insert_price(s, value)
<1>0. Len(values) \in Nat /\ i \in Nat /\ value \in Nat
  BY LenProperties, ElementOfSeq
<1>1. s \in Seq(Nat) /\ Len(s) = i /\ Ascending(s)
  BY DEF SortedUpto
<1>2. PICK p : /\ p \in [1..i -> 1..i]
               /\ \A k, l \in 1..i : p[k] = p[l] => k = l
               /\ \A k \in 1..i : s[k] = values[p[k]]
  BY DEF SortedUpto
<1> HIDE DEF value
<1>3. t \in Seq(Nat) /\ Len(t) = i + 1
  BY <1>0, <1>1, InsertedAt
<1>4. PICK j \in 1..(i + 1) :
         \A k \in 1..(i + 1) :
            t[k] = IF k < j THEN s[k] ELSE IF k = j THEN value ELSE s[k - 1]
  <2>1. PICK j \in 1..(Len(s) + 1) :
               /\ \A k \in 1..(j - 1) : s[k] <= value
               /\ j <= Len(s) => value < s[j]
               /\ \A k \in 1..(Len(s) + 1) :
                     t[k] = IF k < j THEN s[k] ELSE IF k = j THEN value ELSE s[k - 1]
    BY <1>0, <1>1, InsertedAt
  <2> QED
    BY <1>1, <2>1
<1>5. Ascending(t)
  BY <1>0, <1>1, InsertKeepsOrder
<1> HIDE DEF t
<1> DEFINE q == [k \in 1..(i + 1) |->
                    IF k < j THEN p[k] ELSE IF k = j THEN i + 1 ELSE p[k - 1]]
<1>6. \A k \in 1..(i + 1) :
         /\ k < j => k \in 1..i /\ q[k] = p[k] /\ q[k] \in 1..i
         /\ k = j => q[k] = i + 1
         /\ k > j => k - 1 \in 1..i /\ q[k] = p[k - 1] /\ q[k] \in 1..i
  BY <1>0, <1>2
<1>7. q \in [1..(i + 1) -> 1..(i + 1)]
  BY <1>0, <1>2
<1> HIDE DEF q
<1>8. ASSUME NEW k \in 1..(i + 1), NEW l \in 1..(i + 1), q[k] = q[l]
      PROVE  k = l
  <2>1. CASE k = j \/ l = j
    BY <1>0, <1>6, <1>8, <2>1
  <2>2. CASE k < j /\ l < j
    BY <1>0, <1>2, <1>6, <1>8, <2>2
  <2>3. CASE k < j /\ l > j
    <3>1. p[k] = p[l - 1] /\ k \in 1..i /\ l - 1 \in 1..i
      BY <1>6, <1>8, <2>3
    <3>2. k = l - 1
      BY <1>2, <3>1
    <3> QED
      BY <1>0, <2>3, <3>2
  <2>4. CASE k > j /\ l < j
    <3>1. p[k - 1] = p[l] /\ k - 1 \in 1..i /\ l \in 1..i
      BY <1>6, <1>8, <2>4
    <3>2. k - 1 = l
      BY <1>2, <3>1
    <3> QED
      BY <1>0, <2>4, <3>2
  <2>5. CASE k > j /\ l > j
    <3>1. p[k - 1] = p[l - 1] /\ k - 1 \in 1..i /\ l - 1 \in 1..i
      BY <1>6, <1>8, <2>5
    <3>2. k - 1 = l - 1
      BY <1>2, <3>1
    <3> QED
      BY <1>0, <3>2
  <2> QED
    BY <1>0, <2>1, <2>2, <2>3, <2>4, <2>5
<1>9. ASSUME NEW k \in 1..(i + 1)
      PROVE  t[k] = values[q[k]]
  <2>1. CASE k < j
    BY <1>2, <1>4, <1>6, <2>1
  <2>2. CASE k = j
    BY <1>0, <1>4, <1>6, <2>2 DEF value
  <2>3. CASE k > j
    <3>1. t[k] = s[k - 1] /\ k - 1 \in 1..i /\ q[k] = p[k - 1]
      BY <1>0, <1>4, <1>6, <2>3
    <3> QED
      BY <1>2, <3>1
  <2> QED
    BY <1>0, <2>1, <2>2, <2>3
<1>10. SortedUpto(t, values, i + 1)
  BY <1>3, <1>5, <1>7, <1>8, <1>9 DEF SortedUpto
<1> QED
  BY <1>10 DEF t, value

\* sort_prices returns the values in order, each place of the result showing a
\* different one of them.
LEMMA SortPricesSorts ==
  ASSUME NEW values \in Seq(Nat)
  PROVE  SortedUpto(sort_prices(values), values, Len(values))
<1> DEFINE n == Len(values)
           T == {i \in 0..n : SortedUpto(sorting(values)[i], values, i)}
<1>0. n \in Nat
  BY LenProperties
<1>1. /\ sorting(values)[0] = <<>>
      /\ \A i \in 1..n : sorting(values)[i] = insert_price(sorting(values)[i - 1], values[i])
  BY SortingPasses
<1>2. SortedUpto(<<>>, values, 0)
  <2> DEFINE p == [k \in 1..0 |-> k]
  <2>1. /\ p \in [1..0 -> 1..0]
        /\ \A k, l \in 1..0 : p[k] = p[l] => k = l
        /\ \A k \in 1..0 : <<>>[k] = values[p[k]]
    OBVIOUS
  <2>2. <<>> \in Seq(Nat) /\ Len(<<>>) = 0
    BY EmptySeq
  <2>3. Ascending(<<>>)
    BY <2>2 DEF Ascending
  <2> HIDE DEF p
  <2> QED
    BY <2>1, <2>2, <2>3 DEF SortedUpto
<1>3. ASSUME NEW i \in 0..(n - 1), i \in T
      PROVE  i + 1 \in T
  <2>1. SortedUpto(sorting(values)[i], values, i)
    BY <1>3
  <2>2. SortedUpto(insert_price(sorting(values)[i], values[i + 1]), values, i + 1)
    BY <2>1, OnePassSorts
  <2>3. i + 1 \in 1..n /\ (i + 1) - 1 = i /\ i + 1 \in 0..n
    BY <1>0
  <2>4. sorting(values)[i + 1] = insert_price(sorting(values)[(i + 1) - 1], values[i + 1])
    BY <1>1, <2>3
  <2>5. SortedUpto(sorting(values)[i + 1], values, i + 1)
    BY <2>2, <2>3, <2>4
  <2> QED
    BY <2>3, <2>5
<1>4. 0 \in T
  BY <1>0, <1>1, <1>2
<1> HIDE DEF T
<1>5. \A i \in 0..n : i \in T
  BY <1>0, <1>3, <1>4, InductionOverSet
<1>6. n \in T
  BY <1>0, <1>5
<1> QED
  BY <1>6 DEF T, sort_prices

\* The median lies between two places of the ordered prices, with half of the
\* places at or below the one and half at or above the other.
LEMMA MedianBetween ==
  ASSUME NEW values \in Seq(Nat), Len(values) > 0
  PROVE  \E low, high \in 1..Len(values) :
            /\ 2 * low >= Len(values)
            /\ 2 * (Len(values) - high + 1) >= Len(values)
            /\ sort_prices(values)[low] <= median_price(values)
            /\ median_price(values) <= sort_prices(values)[high]
            /\ median_price(values) \in Nat
<1> DEFINE n == Len(values)
           ordered == sort_prices(values)
           middle == n \div 2
<1>0. n \in Nat /\ n > 0
  BY LenProperties
<1>1. ordered \in Seq(Nat) /\ Len(ordered) = n /\ Ascending(ordered)
  BY SortPricesSorts DEF SortedUpto
<1>2. median_price(values) =
         IF n % 2 = 1 THEN ordered[middle + 1]
         ELSE (ordered[middle] + ordered[middle + 1]) \div 2
  BY <1>1 DEF median_price
<1> HIDE DEF ordered
<1>3. \A i \in 1..n : ordered[i] \in Nat
  BY <1>1, ElementOfSeq
<1>4. CASE n % 2 = 1
  <2> DEFINE place == middle + 1
  <2>1. place \in 1..n /\ 2 * place >= n /\ 2 * (n - place + 1) >= n
    BY <1>0, <1>4
  <2>2. median_price(values) = ordered[place]
    BY <1>2, <1>4
  <2> HIDE DEF place
  <2>3. ordered[place] \in Nat
    BY <1>3, <2>1
  <2>4. ordered[place] <= median_price(values) /\ median_price(values) <= ordered[place]
    BY <2>2, <2>3
  <2> QED
    BY <2>1, <2>2, <2>3, <2>4 DEF ordered
<1>5. CASE n % 2 # 1
  <2>1. /\ middle \in 1..n /\ middle + 1 \in 1..n
        /\ 2 * middle >= n /\ 2 * (n - (middle + 1) + 1) >= n
    BY <1>0, <1>5
  <2>2. median_price(values) = (ordered[middle] + ordered[middle + 1]) \div 2
    BY <1>2, <1>5
  <2>3. ordered[middle] <= ordered[middle + 1]
    BY <1>1, <2>1 DEF Ascending
  <2>4. ordered[middle] \in Nat /\ ordered[middle + 1] \in Nat
    BY <1>3, <2>1
  <2>5. \A a, b \in Nat : a <= b => /\ a <= (a + b) \div 2 /\ (a + b) \div 2 <= b
                                            /\ (a + b) \div 2 \in Nat
    OBVIOUS
  <2>6. /\ ordered[middle] <= median_price(values) /\ median_price(values) <= ordered[middle + 1]
        /\ median_price(values) \in Nat
    BY <2>2, <2>3, <2>4, <2>5
  <2> HIDE DEF middle
  <2> QED
    BY <2>1, <2>6 DEF ordered
<1> QED
  BY <1>4, <1>5

\* More places than members of D: one of them shows somebody outside D.
LEMMA SomebodyElse ==
  ASSUME NEW P, NEW D, NEW w, IsFiniteSet(P), IsFiniteSet(D),
         Cardinality(D) < Cardinality(P),
         \A k, l \in P : w[k] = w[l] => k = l
  PROVE  \E k \in P : w[k] \notin D
<1> SUFFICES ASSUME \A k \in P : w[k] \in D
             PROVE  FALSE
  OBVIOUS
<1> DEFINE f == [k \in P |-> w[k]]
<1>1. f \in [P -> D]
  OBVIOUS
<1>2. PICK k, l \in P : k # l /\ f[k] = f[l]
  <2> HIDE DEF f
  <2> QED
    BY <1>1, FS_PigeonHole
<1> QED
  BY <1>2
-----------------------------------------------------------------------------
(* The walk over the list. *)

\* The accounts that count for an asset among the first i of the list.
CountedAmong(asset, i) ==
    {a \in Accounts : /\ Counts(asset, a)
                      /\ \E p \in 1..i : reporter_accounts[p] = a}

\* Every account once.
NoRepeats(s) == \A i, j \in 1..Len(s) : s[i] = s[j] => i = j

Holds(s, a) == \E i \in 1..Len(s) : s[i] = a

\* The list holds every account whose flag is set, once, and no other.
ListMatchesFlags ==
    /\ NoRepeats(reporter_accounts)
    /\ \A a \in Accounts : reporters[a] <=> Holds(reporter_accounts, a)

\* The walk is what its definition says.
LEMMA WalkPasses ==
  ASSUME TypeOK, NEW asset \in Assets
  PROVE  /\ collected(asset)[0] = <<>>
         /\ \A i \in 1..Len(reporter_accounts) :
               collected(asset)[i] =
                  IF Counts(asset, reporter_accounts[i])
                  THEN Append(collected(asset)[i - 1],
                              reported_prices[<<asset, reporter_accounts[i]>>])
                  ELSE collected(asset)[i - 1]
<1> DEFINE n == Len(reporter_accounts)
           price(i) == reported_prices[<<asset, reporter_accounts[i]>>]
           counts(i) == Counts(asset, reporter_accounts[i])
           step == [x \in Seq(Nat) \X (1..n) |->
                       IF counts(x[2]) THEN Append(x[1], price(x[2])) ELSE x[1]]
           Pass(g) == [i \in 0..n |-> IF i = 0 THEN <<>>
                                      ELSE IF counts(i) THEN Append(g[i - 1], price(i))
                                      ELSE g[i - 1]]
<1>0. n \in Nat /\ \A i \in 1..n : reporter_accounts[i] \in Accounts
  BY LenProperties, ElementOfSeq DEF TypeOK
<1>1. \A i \in 1..n : counts(i) => price(i) \in Nat
  BY <1>0 DEF TypeOK, Counts
<1>2. collected(asset) = CHOOSE g : g = Pass(g)
  BY DEF collected
<1> HIDE DEF price, counts
<1>3. \A s \in Seq(Nat), i \in 1..n :
         step[<<s, i>>] = IF counts(i) THEN Append(s, price(i)) ELSE s
  OBVIOUS
<1> HIDE DEF step
<1>4. ClosedStep(step, Seq(Nat), n)
  <2> SUFFICES ASSUME NEW s \in Seq(Nat), NEW i \in 1..n
               PROVE  step[<<s, i>>] \in Seq(Nat)
    BY DEF ClosedStep
  <2>1. counts(i) => Append(s, price(i)) \in Seq(Nat)
    BY <1>1, AppendProperties
  <2> QED
    BY <1>3, <2>1
<1>5. <<>> \in Seq(Nat)
  BY EmptySeq
<1>6. PICK f : PassOf(f, step, <<>>, n, Seq(Nat))
  BY <1>0, <1>4, <1>5, PassExists
<1>7. f = Pass(f)
  <2>0. /\ f \in [0..n -> Seq(Nat)]
        /\ f[0] = <<>>
        /\ \A i \in 1..n : f[i] = step[<<f[i - 1], i>>]
    BY <1>6 DEF PassOf
  <2>1. \A i \in 1..n : f[i] = IF counts(i) THEN Append(f[i - 1], price(i)) ELSE f[i - 1]
    <3> TAKE i \in 1..n
    <3>0. i - 1 \in 0..n
      BY <1>0
    <3>1. f[i - 1] \in Seq(Nat)
      BY <2>0, <3>0
    <3> QED
      BY <1>3, <2>0, <3>1
  <2>2. \A i \in 0..n : i = 0 \/ i \in 1..n
    BY <1>0
  <2>3. \A i \in 0..n : f[i] = IF i = 0 THEN <<>>
                               ELSE IF counts(i) THEN Append(f[i - 1], price(i))
                               ELSE f[i - 1]
    BY <2>0, <2>1, <2>2
  <2> HIDE DEF n
  <2> QED
    BY <2>0, <2>3
<1>8. collected(asset) = Pass(collected(asset))
  <2> HIDE DEF Pass
  <2> QED
    BY <1>2, <1>7
<1>9. 0 \in 0..n /\ \A i \in 1..n : i \in 0..n /\ i # 0
  BY <1>0
<1>10. /\ collected(asset)[0] = <<>>
       /\ \A i \in 1..n :
             collected(asset)[i] = IF counts(i) THEN Append(collected(asset)[i - 1], price(i))
                                   ELSE collected(asset)[i - 1]
  <2> HIDE DEF n
  <2> QED
    BY <1>8, <1>9
<1> QED
  BY <1>10 DEF price, counts

\* What the walk over the first i accounts leaves: one price of each of them that
\* counts.
WalkedUpto(s, asset, i) ==
    /\ s \in Seq(Nat)
    /\ Len(s) = Cardinality(CountedAmong(asset, i))
    /\ \E w : /\ w \in [1..Len(s) -> CountedAmong(asset, i)]
              /\ \A k, l \in 1..Len(s) : w[k] = w[l] => k = l
              /\ \A k \in 1..Len(s) : s[k] = reported_prices[<<asset, w[k]>>]

LEMMA CountedAmongFinite ==
  ASSUME NEW asset, NEW i
  PROVE  /\ IsFiniteSet(CountedAmong(asset, i))
         /\ Cardinality(CountedAmong(asset, i)) \in Nat
<1>1. CountedAmong(asset, i) \in SUBSET Accounts
  BY DEF CountedAmong
<1>2. IsFiniteSet(CountedAmong(asset, i))
  BY <1>1, FS_Subset, OracleAssumption
<1> QED
  BY <1>2, FS_CardinalityType

\* One account of the list.
LEMMA OneAccountWalked ==
  ASSUME TypeOK, ListMatchesFlags, NEW asset \in Assets,
         NEW i \in 0..(Len(reporter_accounts) - 1), NEW s, WalkedUpto(s, asset, i)
  PROVE  LET account == reporter_accounts[i + 1]
         IN  WalkedUpto(IF Counts(asset, account)
                        THEN Append(s, reported_prices[<<asset, account>>]) ELSE s,
                        asset, i + 1)
<1> DEFINE n == Len(reporter_accounts)
           account == reporter_accounts[i + 1]
           price == reported_prices[<<asset, account>>]
           old == CountedAmong(asset, i)
           new == CountedAmong(asset, i + 1)
<1>0. /\ n \in Nat /\ i \in Nat /\ i + 1 \in 1..n
      /\ DOMAIN reporter_accounts = 1..n
      /\ account \in Accounts
  BY LenProperties, ElementOfSeq DEF TypeOK
<1>1. s \in Seq(Nat) /\ Len(s) = Cardinality(old) /\ Len(s) \in Nat
  BY LenProperties DEF WalkedUpto
<1>2. PICK w : /\ w \in [1..Len(s) -> old]
               /\ \A k, l \in 1..Len(s) : w[k] = w[l] => k = l
               /\ \A k \in 1..Len(s) : s[k] = reported_prices[<<asset, w[k]>>]
  BY DEF WalkedUpto
<1>3. IsFiniteSet(old) /\ Cardinality(old) \in Nat
  BY CountedAmongFinite
<1>4. \A p \in 1..(i + 1) : p \in 1..i \/ p = i + 1
  BY <1>0
<1>5. \A p \in 1..i : p \in 1..(i + 1) /\ p \in 1..n /\ p # i + 1
  BY <1>0
<1>6. CASE ~ Counts(asset, account)
  <2>1. new = old
    BY <1>4, <1>5, <1>6 DEF CountedAmong
  <2>2. WalkedUpto(s, asset, i + 1)
    BY <1>1, <1>2, <2>1 DEF WalkedUpto
  <2> QED
    BY <1>6, <2>2
<1>7. CASE Counts(asset, account)
  <2> DEFINE t == Append(s, price)
             m == Len(s)
             v == [k \in 1..(m + 1) |-> IF k = m + 1 THEN account ELSE w[k]]
  <2>1. i + 1 \in 1..(i + 1)
    BY <1>0
  <2>2. new = old \cup {account}
    BY <1>0, <1>4, <1>5, <1>7, <2>1 DEF CountedAmong
  <2>3. account \notin old
    <3>1. \A p \in 1..i : reporter_accounts[p] # account
      BY <1>0, <1>5 DEF ListMatchesFlags, NoRepeats
    <3> QED
      BY <3>1 DEF CountedAmong
  <2>4. price \in Nat
    BY <1>0, <1>7 DEF TypeOK, Counts
  <2>5. Cardinality(new) = m + 1
    <3> HIDE DEF old, new, account
    <3> QED
      BY <1>1, <1>3, <2>2, <2>3, FS_AddElement
  <2>6. /\ t \in Seq(Nat)
        /\ Len(t) = m + 1
        /\ \A k \in 1..m : t[k] = s[k]
        /\ t[m + 1] = price
    BY <1>1, <2>4, AppendProperties
  <2>7. m \in Nat
    BY <1>1
  <2>8. /\ \A k \in 1..m : k \in 1..(m + 1) /\ k # m + 1
        /\ m + 1 \in 1..(m + 1)
        /\ \A k \in 1..(m + 1) : k = m + 1 \/ k \in 1..m
    BY <2>7
  <2> HIDE DEF t, m
  <2>9. v[m + 1] = account /\ \A k \in 1..m : v[k] = w[k] /\ w[k] \in old
    BY <1>2, <2>8 DEF m
  <2>10. v \in [1..(m + 1) -> new]
    <3> HIDE DEF old, new, account
    <3> QED
      BY <1>2, <2>2, <2>8, <2>9
  <2> HIDE DEF v, old, new, account
  <2>11. \A k, l \in 1..(m + 1) : v[k] = v[l] => k = l
    <3>1. \A k, l \in 1..m : w[k] = w[l] => k = l
      BY <1>2 DEF m
    <3> QED
      BY <2>3, <2>8, <2>9, <3>1
  <2>12. \A k \in 1..(m + 1) : t[k] = reported_prices[<<asset, v[k]>>]
    <3>1. \A k \in 1..m : s[k] = reported_prices[<<asset, w[k]>>]
      BY <1>2 DEF m
    <3> QED
      BY <2>6, <2>8, <2>9, <3>1
  <2>13. WalkedUpto(t, asset, i + 1)
    BY <2>5, <2>6, <2>10, <2>11, <2>12 DEF WalkedUpto, new
  <2> QED
    BY <1>7, <2>13 DEF t, account
<1> QED
  BY <1>6, <1>7

\* valid_reports collects one price of every account that counts.
LEMMA WalkCollects ==
  ASSUME TypeOK, ListMatchesFlags, NEW asset \in Assets
  PROVE  WalkedUpto(valid_reports(asset), asset, Len(reporter_accounts))
<1> DEFINE n == Len(reporter_accounts)
           T == {i \in 0..n : WalkedUpto(collected(asset)[i], asset, i)}
<1>0. n \in Nat
  BY LenProperties DEF TypeOK
<1>1. /\ collected(asset)[0] = <<>>
      /\ \A i \in 1..n :
            collected(asset)[i] =
               IF Counts(asset, reporter_accounts[i])
               THEN Append(collected(asset)[i - 1],
                           reported_prices[<<asset, reporter_accounts[i]>>])
               ELSE collected(asset)[i - 1]
  BY WalkPasses
<1>2. WalkedUpto(<<>>, asset, 0)
  <2> DEFINE w == [k \in 1..0 |-> k]
  <2>1. CountedAmong(asset, 0) = {}
    BY DEF CountedAmong
  <2>2. <<>> \in Seq(Nat) /\ Len(<<>>) = 0 /\ Cardinality({}) = 0
    BY EmptySeq, FS_EmptySet
  <2>3. /\ w \in [1..0 -> {}]
        /\ \A k, l \in 1..0 : w[k] = w[l] => k = l
        /\ \A k \in 1..0 : <<>>[k] = reported_prices[<<asset, w[k]>>]
    OBVIOUS
  <2> HIDE DEF w
  <2> QED
    BY <2>1, <2>2, <2>3 DEF WalkedUpto
<1>3. ASSUME NEW i \in 0..(n - 1), i \in T
      PROVE  i + 1 \in T
  <2>1. WalkedUpto(collected(asset)[i], asset, i)
    BY <1>3
  <2>2. i + 1 \in 1..n /\ (i + 1) - 1 = i /\ i + 1 \in 0..n
    BY <1>0
  <2>3. collected(asset)[i + 1] =
           IF Counts(asset, reporter_accounts[i + 1])
           THEN Append(collected(asset)[i], reported_prices[<<asset, reporter_accounts[i + 1]>>])
           ELSE collected(asset)[i]
    BY <1>1, <2>2
  <2>4. WalkedUpto(collected(asset)[i + 1], asset, i + 1)
    BY <2>1, <2>3, OneAccountWalked
  <2> QED
    BY <2>2, <2>4
<1>4. 0 \in T
  BY <1>0, <1>1, <1>2
<1> HIDE DEF T
<1>5. \A i \in 0..n : i \in T
  BY <1>0, <1>3, <1>4, InductionOverSet
<1>6. n \in T
  BY <1>0, <1>5
<1> QED
  BY <1>6 DEF T, valid_reports

\* At the end of the list that is every account that counts.
LEMMA EverybodyIsListed ==
  ASSUME TypeOK, ListMatchesFlags, NEW asset \in Assets
  PROVE  CountedAmong(asset, Len(reporter_accounts)) = CountedReporters(asset)
<1>1. \A a \in Accounts :
         Counts(asset, a) => \E p \in 1..Len(reporter_accounts) : reporter_accounts[p] = a
  BY DEF ListMatchesFlags, Holds, Counts
<1> QED
  BY <1>1 DEF CountedAmong, CountedReporters

\* So valid_reports has one price of every reporter that counts for the asset.
LEMMA OnePriceEach ==
  ASSUME TypeOK, ListMatchesFlags, NEW asset \in Assets
  PROVE  /\ valid_reports(asset) \in Seq(Nat)
         /\ Len(valid_reports(asset)) \in Nat
         /\ IsFiniteSet(CountedReporters(asset))
         /\ Len(valid_reports(asset)) = Cardinality(CountedReporters(asset))
         /\ \E w : /\ w \in [1..Len(valid_reports(asset)) -> CountedReporters(asset)]
                   /\ \A k, l \in 1..Len(valid_reports(asset)) : w[k] = w[l] => k = l
                   /\ \A k \in 1..Len(valid_reports(asset)) :
                         valid_reports(asset)[k] = reported_prices[<<asset, w[k]>>]
<1>1. WalkedUpto(valid_reports(asset), asset, Len(reporter_accounts))
  BY WalkCollects
<1>2. CountedAmong(asset, Len(reporter_accounts)) = CountedReporters(asset)
  BY EverybodyIsListed
<1>3. IsFiniteSet(CountedReporters(asset))
  BY <1>2, CountedAmongFinite
<1>4. valid_reports(asset) \in Seq(Nat) /\ Len(valid_reports(asset)) \in Nat
  BY <1>1, LenProperties DEF WalkedUpto
<1> QED
  BY <1>1, <1>2, <1>3, <1>4 DEF WalkedUpto

LEMMA QuorumIsDistinct == TypeOK /\ ListMatchesFlags => QuorumOfDistinctReporters
<1> SUFFICES ASSUME TypeOK, ListMatchesFlags, NEW asset \in Assets
             PROVE  /\ Len(valid_reports(asset)) = Cardinality(CountedReporters(asset))
                    /\ Answers(asset) =>
                          Cardinality(CountedReporters(asset)) >= min_reporters[asset]
  BY DEF QuorumOfDistinctReporters
<1>1. Len(valid_reports(asset)) = Cardinality(CountedReporters(asset))
  BY OnePriceEach
<1> QED
  BY <1>1 DEF Answers

\* Of any half of the places of the ordered prices, one is the price of somebody
\* outside a minority.
LEMMA HonestPlace ==
  ASSUME TypeOK, ListMatchesFlags, NEW asset \in Assets,
         NEW dishonest \in SUBSET CountedReporters(asset),
         2 * Cardinality(dishonest) < Cardinality(CountedReporters(asset)),
         NEW first \in 1..Len(valid_reports(asset)),
         NEW last \in 1..Len(valid_reports(asset)),
         2 * (last - first + 1) >= Len(valid_reports(asset))
  PROVE  \E k \in first..last, a \in CountedReporters(asset) \ dishonest :
            sort_prices(valid_reports(asset))[k] = reported_prices[<<asset, a>>]
<1> DEFINE values == valid_reports(asset)
           n == Len(values)
           ordered == sort_prices(values)
           counted == CountedReporters(asset)
<1>1. /\ values \in Seq(Nat) /\ n \in Nat /\ IsFiniteSet(counted) /\ n = Cardinality(counted)
  BY OnePriceEach
<1>2. PICK w : /\ w \in [1..n -> counted]
               /\ \A k, l \in 1..n : w[k] = w[l] => k = l
               /\ \A k \in 1..n : values[k] = reported_prices[<<asset, w[k]>>]
  BY OnePriceEach
<1>3. PICK p : /\ p \in [1..n -> 1..n]
               /\ \A k, l \in 1..n : p[k] = p[l] => k = l
               /\ \A k \in 1..n : ordered[k] = values[p[k]]
  BY <1>1, SortPricesSorts DEF SortedUpto
<1>4. IsFiniteSet(dishonest) /\ Cardinality(dishonest) \in Nat
  BY <1>1, FS_Subset, FS_CardinalityType
<1>5. 2 * Cardinality(dishonest) < n /\ 2 * (last - first + 1) >= n
  BY <1>1
<1>6. first \in 1..n /\ last \in 1..n
  OBVIOUS
<1> HIDE DEF ordered, values, counted, n
<1> DEFINE q == [k \in first..last |-> w[p[k]]]
<1>7. \A k \in first..last : k \in 1..n
  BY <1>1, <1>6
<1>8. \A k \in first..last : p[k] \in 1..n /\ w[p[k]] \in counted
  BY <1>2, <1>3, <1>7
<1>9. \A k, l \in first..last : q[k] = q[l] => k = l
  BY <1>2, <1>3, <1>7, <1>8
<1>10. \A k \in first..last : q[k] = w[p[k]]
  OBVIOUS
<1> HIDE DEF q
<1>11. IsFiniteSet(first..last) /\ Cardinality(dishonest) < Cardinality(first..last)
  <2>1. first \in Int /\ last \in Int
    BY <1>6
  <2>2. IsFiniteSet(first..last) /\ Cardinality(first..last) = IF first > last THEN 0 ELSE last - first + 1
    BY <2>1, FS_Interval
  <2>3. Cardinality(dishonest) < last - first + 1
    BY <1>1, <1>4, <1>5, <2>1
  <2> QED
    BY <1>4, <2>1, <2>2, <2>3
<1>12. PICK k \in first..last : q[k] \notin dishonest
  <2> DEFINE P == first..last
  <2>1. \A k, l \in P : q[k] = q[l] => k = l
    BY <1>9
  <2>2. IsFiniteSet(P) /\ Cardinality(dishonest) < Cardinality(P)
    BY <1>11
  <2> HIDE DEF P
  <2>3. \E k \in P : q[k] \notin dishonest
    BY <1>4, <2>1, <2>2, SomebodyElse
  <2> QED
    BY <2>3 DEF P
<1>13. q[k] \in counted \ dishonest
  BY <1>8, <1>10, <1>12
<1>14. ordered[k] = reported_prices[<<asset, q[k]>>]
  <2>1. ordered[k] = values[p[k]]
    BY <1>3, <1>7
  <2>2. values[p[k]] = reported_prices[<<asset, w[p[k]]>>]
    BY <1>2, <1>8
  <2> QED
    BY <1>10, <2>1, <2>2
<1> QED
  BY <1>13, <1>14 DEF ordered, values, counted

LEMMA MinorityIsHarmless == TypeOK /\ ListMatchesFlags => MinorityCannotSetPrice
<1> SUFFICES ASSUME TypeOK, ListMatchesFlags, NEW asset \in Assets, Answers(asset),
                    NEW dishonest \in SUBSET CountedReporters(asset),
                    2 * Cardinality(dishonest) < Cardinality(CountedReporters(asset))
             PROVE  /\ \E a \in CountedReporters(asset) \ dishonest :
                          reported_prices[<<asset, a>>] <= get_price(asset)
                    /\ \E a \in CountedReporters(asset) \ dishonest :
                          get_price(asset) <= reported_prices[<<asset, a>>]
  BY DEF MinorityCannotSetPrice
<1> DEFINE values == valid_reports(asset)
           n == Len(values)
           ordered == sort_prices(values)
           median == get_price(asset)
           honest == CountedReporters(asset) \ dishonest
<1>1. values \in Seq(Nat) /\ n \in Nat /\ n > 0
  BY OnePriceEach DEF Answers
<1>2. PICK low, high \in 1..n :
            /\ 2 * low >= n
            /\ 2 * (n - high + 1) >= n
            /\ ordered[low] <= median
            /\ median <= ordered[high]
            /\ median \in Nat
  BY <1>1, MedianBetween DEF get_price
<1>3. /\ ordered \in Seq(Nat) /\ Len(ordered) = n /\ Ascending(ordered)
  BY <1>1, SortPricesSorts DEF SortedUpto
<1>4. \A k \in 1..n : ordered[k] \in Nat
  <2> HIDE DEF ordered, n
  <2> QED
    BY <1>3, ElementOfSeq
<1>5. \A first, last \in 1..n :
         2 * (last - first + 1) >= n =>
            \E k \in first..last, a \in honest : ordered[k] = reported_prices[<<asset, a>>]
  BY HonestPlace
<1> HIDE DEF ordered, median, honest, n
<1>6. PICK k \in 1..low, a \in honest : ordered[k] = reported_prices[<<asset, a>>]
  <2>1. 1 \in 1..n /\ 2 * (low - 1 + 1) >= n
    BY <1>1, <1>2
  <2> QED
    BY <2>1, <1>2, <1>5
<1>7. PICK l \in high..n, b \in honest : ordered[l] = reported_prices[<<asset, b>>]
  <2>1. n \in 1..n
    BY <1>1
  <2> QED
    BY <2>1, <1>2, <1>5
<1>8. ordered[k] <= ordered[low] /\ ordered[high] <= ordered[l]
  <2>1. k \in 1..n /\ l \in 1..n /\ k <= low /\ high <= l
    BY <1>1, <1>2
  <2> QED
    BY <1>2, <1>3, <2>1 DEF Ascending
<1>9. k \in 1..n /\ l \in 1..n
  BY <1>1, <1>2
<1>10. ordered[k] <= median /\ median <= ordered[l]
  BY <1>2, <1>4, <1>8, <1>9
<1> QED
  BY <1>6, <1>7, <1>10 DEF median, honest

-----------------------------------------------------------------------------
(* The list of reporters. *)

\* What the removal of a listed account leaves, place by place.
LEMMA RemovedAt ==
  ASSUME NEW S, NEW s \in Seq(S), NEW e, \E i \in 1..Len(s) : s[i] = e
  PROVE  /\ RemoveFirst(s, e) \in Seq(S)
         /\ Len(RemoveFirst(s, e)) = Len(s) - 1
         /\ \E j \in 1..Len(s) :
               /\ s[j] = e
               /\ \A k \in 1..(Len(s) - 1) :
                     RemoveFirst(s, e)[k] = IF k < j THEN s[k] ELSE s[k + 1]
<1> DEFINE n == Len(s)
           places == {i \in 1..n : s[i] = e}
           j == SelectInSeq(s, LAMBDA v : v = e)
           before == SubSeq(s, 1, j - 1)
           after == SubSeq(s, j + 1, n)
           removed == RemoveFirst(s, e)
<1>0. n \in Nat /\ \A i \in 1..n : s[i] \in S
  BY LenProperties, ElementOfSeq
<1>1. j = IF places # {} THEN Min(places) ELSE 0
  BY DEF SelectInSeq
<1>2. removed = before \o after
  BY DEF RemoveFirst, RemoveAt
<1> HIDE DEF j
<1>3. j \in 1..n /\ s[j] = e
  <2>1. places # {} /\ places \subseteq Nat
    BY <1>0
  <2> HIDE DEF places
  <2>2. PICK m \in places : \A k \in places : m <= k
    BY <2>1, LeastExists
  <2>3. Min(places) \in places
    BY <2>2 DEF Min
  <2> QED
    BY <1>1, <2>1, <2>3 DEF places
<1>4. /\ before \in Seq(S)
      /\ Len(before) = j - 1
      /\ \A i \in 1..(j - 1) : before[i] = s[i]
  <2>1. \A i \in 1..(j - 1) : s[i] \in S
    BY <1>0, <1>3
  <2>2. Len(before) = IF 1 <= j - 1 THEN (j - 1) - 1 + 1 ELSE 0
    BY <1>3, <2>1, SubSeqProperties
  <2>3. before \in Seq(S) /\ \A i \in 1..((j - 1) - 1 + 1) : before[i] = s[1 + i - 1]
    BY <1>3, <2>1, SubSeqProperties
  <2> HIDE DEF before
  <2> QED
    BY <1>0, <1>3, <2>2, <2>3
<1>5. /\ after \in Seq(S)
      /\ Len(after) = n - j
      /\ \A i \in 1..(n - j) : after[i] = s[j + i]
  <2>1. \A i \in (j + 1)..n : s[i] \in S
    BY <1>0, <1>3
  <2>2. Len(after) = IF j + 1 <= n THEN n - (j + 1) + 1 ELSE 0
    BY <1>0, <1>3, <2>1, SubSeqProperties
  <2>3. after \in Seq(S) /\ \A i \in 1..(n - (j + 1) + 1) : after[i] = s[(j + 1) + i - 1]
    BY <1>0, <1>3, <2>1, SubSeqProperties
  <2> HIDE DEF after
  <2> QED
    BY <1>0, <1>3, <2>2, <2>3
<1> HIDE DEF before, after
<1>6. /\ removed \in Seq(S)
      /\ Len(removed) = Len(before) + Len(after)
      /\ \A i \in 1..(Len(before) + Len(after)) :
            removed[i] = IF i <= Len(before) THEN before[i] ELSE after[i - Len(before)]
  <2> HIDE DEF removed
  <2> QED
    BY <1>2, <1>4, <1>5, ConcatProperties
<1> HIDE DEF removed
<1>7. Len(removed) = n - 1
  BY <1>0, <1>3, <1>4, <1>5, <1>6
<1>8. ASSUME NEW k \in 1..(n - 1)
      PROVE  removed[k] = IF k < j THEN s[k] ELSE s[k + 1]
  <2>1. k \in 1..(Len(before) + Len(after))
    BY <1>0, <1>3, <1>4, <1>5
  <2>2. CASE k < j
    <3>1. k <= Len(before) /\ k \in 1..(j - 1)
      BY <1>0, <1>3, <1>4, <2>2
    <3> QED
      BY <1>4, <1>6, <2>1, <2>2, <3>1
  <2>3. CASE k >= j
    <3>1. ~ (k <= Len(before)) /\ k - (j - 1) \in 1..(n - j) /\ j + (k - (j - 1)) = k + 1
      BY <1>0, <1>3, <1>4, <2>3
    <3>2. removed[k] = after[k - (j - 1)]
      BY <1>4, <1>6, <2>1, <3>1
    <3>3. after[k - (j - 1)] = s[j + (k - (j - 1))]
      BY <1>5, <3>1
    <3> QED
      BY <1>3, <2>3, <3>1, <3>2, <3>3
  <2> QED
    BY <1>3, <2>2, <2>3
<1> QED
  BY <1>3, <1>6, <1>7, <1>8 DEF removed

\* Appending an account that is not listed.
LEMMA ListedOnce ==
  ASSUME NEW S, NEW s \in Seq(S), NEW e \in S, NoRepeats(s), ~ Holds(s, e)
  PROVE  /\ Append(s, e) \in Seq(S)
         /\ NoRepeats(Append(s, e))
         /\ \A a : Holds(Append(s, e), a) <=> Holds(s, a) \/ a = e
<1> DEFINE n == Len(s)
           t == Append(s, e)
<1>0. n \in Nat
  BY LenProperties
<1>1. /\ t \in Seq(S)
      /\ Len(t) = n + 1
      /\ \A i \in 1..n : t[i] = s[i]
      /\ t[n + 1] = e
  BY AppendProperties
<1> HIDE DEF t
<1>2. \A i \in 1..(n + 1) : i \in 1..n \/ i = n + 1
  BY <1>0
<1>3. n + 1 \in 1..(n + 1) /\ \A i \in 1..n : i \in 1..(n + 1)
  BY <1>0
<1>4. \A i, j \in 1..n : s[i] = s[j] => i = j
  BY DEF NoRepeats
<1>5. \A i \in 1..n : s[i] # e
  BY DEF Holds
<1> HIDE DEF n
<1>6. \A i, j \in 1..(n + 1) : t[i] = t[j] => i = j
  BY <1>1, <1>2, <1>4, <1>5
<1>7. \A a : (\E i \in 1..(n + 1) : t[i] = a) <=> (\E i \in 1..n : s[i] = a) \/ a = e
  BY <1>1, <1>2, <1>3
<1> QED
  BY <1>1, <1>6, <1>7 DEF NoRepeats, Holds, t, n

\* Removing a listed account.
LEMMA UnlistedOnce ==
  ASSUME NEW S, NEW s \in Seq(S), NEW e, NoRepeats(s), Holds(s, e)
  PROVE  /\ RemoveFirst(s, e) \in Seq(S)
         /\ NoRepeats(RemoveFirst(s, e))
         /\ \A a : Holds(RemoveFirst(s, e), a) <=> Holds(s, a) /\ a # e
<1> DEFINE n == Len(s)
           t == RemoveFirst(s, e)
<1>0. n \in Nat
  BY LenProperties
<1>1. \E i \in 1..n : s[i] = e
  BY DEF Holds
<1>2. t \in Seq(S) /\ Len(t) = n - 1
  BY <1>1, RemovedAt
<1>3. PICK j \in 1..n : /\ s[j] = e
                        /\ \A k \in 1..(n - 1) : t[k] = IF k < j THEN s[k] ELSE s[k + 1]
  BY <1>1, RemovedAt
<1> HIDE DEF t
<1>4. \A i, k \in 1..n : s[i] = s[k] => i = k
  BY DEF NoRepeats
<1> HIDE DEF n
<1>5. ASSUME NEW i \in 1..(n - 1), NEW k \in 1..(n - 1), t[i] = t[k]
      PROVE  i = k
  <2>1. CASE i < j /\ k < j
    <3>1. i \in 1..n /\ k \in 1..n /\ s[i] = s[k]
      BY <1>0, <1>3, <1>5, <2>1
    <3> QED
      BY <1>4, <3>1
  <2>2. CASE i < j /\ k >= j
    <3>1. i \in 1..n /\ k + 1 \in 1..n /\ s[i] = s[k + 1]
      BY <1>0, <1>3, <1>5, <2>2
    <3> QED
      BY <1>0, <1>4, <2>2, <3>1
  <2>3. CASE i >= j /\ k < j
    <3>1. i + 1 \in 1..n /\ k \in 1..n /\ s[i + 1] = s[k]
      BY <1>0, <1>3, <1>5, <2>3
    <3> QED
      BY <1>0, <1>4, <2>3, <3>1
  <2>4. CASE i >= j /\ k >= j
    <3>1. i + 1 \in 1..n /\ k + 1 \in 1..n /\ s[i + 1] = s[k + 1]
      BY <1>0, <1>3, <1>5, <2>4
    <3>2. i + 1 = k + 1
      BY <1>4, <3>1
    <3> QED
      BY <1>0, <3>2
  <2> QED
    BY <1>0, <1>3, <2>1, <2>2, <2>3, <2>4
<1>6. ASSUME NEW a, NEW i \in 1..(n - 1), t[i] = a
      PROVE  (\E k \in 1..n : s[k] = a) /\ a # e
  <2>1. CASE i < j
    <3>1. i \in 1..n /\ s[i] = a
      BY <1>0, <1>3, <1>6, <2>1
    <3> QED
      BY <1>0, <1>3, <1>4, <2>1, <3>1
  <2>2. CASE i >= j
    <3>1. i + 1 \in 1..n /\ s[i + 1] = a /\ i + 1 # j
      BY <1>0, <1>3, <1>6, <2>2
    <3> QED
      BY <1>3, <1>4, <3>1
  <2> QED
    BY <1>0, <1>3, <2>1, <2>2
<1>7. ASSUME NEW a, NEW k \in 1..n, s[k] = a, a # e
      PROVE  \E i \in 1..(n - 1) : t[i] = a
  <2>1. k # j
    BY <1>3, <1>7
  <2>2. CASE k < j
    <3>1. k \in 1..(n - 1) /\ t[k] = a
      BY <1>0, <1>3, <1>7, <2>2
    <3> QED
      BY <3>1
  <2>3. CASE k > j
    <3>1. k - 1 \in 1..(n - 1) /\ ~ (k - 1 < j) /\ (k - 1) + 1 = k
      BY <1>0, <1>3, <2>3
    <3>2. t[k - 1] = a
      BY <1>3, <1>7, <3>1
    <3> QED
      BY <3>1, <3>2
  <2> QED
    BY <1>0, <1>3, <2>1, <2>2, <2>3
<1> QED
  BY <1>2, <1>5, <1>6, <1>7 DEF NoRepeats, Holds, t, n

-----------------------------------------------------------------------------
(* The invariant. *)

OracleInv == TypeOK /\ ListMatchesFlags

LEMMA InitEstablishesOracleInv == Init => OracleInv
<1> SUFFICES ASSUME Init
             PROVE  OracleInv
  OBVIOUS
<1>1. InitialGovernor \in Accounts
  BY OracleAssumption
<1>2. TypeOK
  <2>1. reporter_accounts \in Seq(Accounts)
    BY <1>1 DEF Init
  <2>2. reporters \in [Accounts -> BOOLEAN]
    BY DEF Init
  <2> QED
    BY <1>1, <2>1, <2>2 DEF Init, TypeOK
<1>3. Len(reporter_accounts) = 1 /\ reporter_accounts[1] = InitialGovernor
  BY DEF Init
<1>4. NoRepeats(reporter_accounts)
  BY <1>3 DEF NoRepeats
<1>5. \A a : Holds(reporter_accounts, a) <=> a = InitialGovernor
  BY <1>3 DEF Holds
<1>6. \A a \in Accounts : reporters[a] <=> a = InitialGovernor
  BY DEF Init
<1> QED
  BY <1>2, <1>4, <1>5, <1>6 DEF OracleInv, ListMatchesFlags

\* The types of what an appointment, a removal or a handoff leaves.
LEMMA AppointmentKeepsList ==
  ASSUME OracleInv, NEW account \in Accounts,
         reporters' = [reporters EXCEPT ![account] = TRUE],
         reporter_accounts' = IF Holds(reporter_accounts, account) THEN reporter_accounts
                              ELSE Append(reporter_accounts, account)
  PROVE  /\ reporters' \in [Accounts -> BOOLEAN]
         /\ reporter_accounts' \in Seq(Accounts)
         /\ ListMatchesFlags'
<1>1. reporters \in [Accounts -> BOOLEAN] /\ reporter_accounts \in Seq(Accounts)
  BY DEF OracleInv, TypeOK
<1>2. /\ NoRepeats(reporter_accounts)
      /\ \A a \in Accounts : reporters[a] <=> Holds(reporter_accounts, a)
  BY DEF OracleInv, ListMatchesFlags
<1>3. /\ reporter_accounts' \in Seq(Accounts)
      /\ NoRepeats(reporter_accounts')
      /\ \A a : Holds(reporter_accounts', a) <=> Holds(reporter_accounts, a) \/ a = account
  <2>1. CASE Holds(reporter_accounts, account)
    BY <1>1, <1>2, <2>1
  <2>2. CASE ~ Holds(reporter_accounts, account)
    BY <1>1, <1>2, <2>2, ListedOnce
  <2> QED
    BY <2>1, <2>2
<1>4. \A a \in Accounts : reporters'[a] <=> reporters[a] \/ a = account
  BY <1>1
<1>5. \A a \in Accounts : reporters'[a] <=> Holds(reporter_accounts', a)
  BY <1>2, <1>3, <1>4
<1> QED
  BY <1>1, <1>3, <1>5 DEF ListMatchesFlags

LEMMA RemovalKeepsList ==
  ASSUME OracleInv, NEW account \in Accounts,
         reporters' = [reporters EXCEPT ![account] = FALSE],
         reporter_accounts' = IF Holds(reporter_accounts, account)
                              THEN RemoveFirst(reporter_accounts, account)
                              ELSE reporter_accounts
  PROVE  /\ reporters' \in [Accounts -> BOOLEAN]
         /\ reporter_accounts' \in Seq(Accounts)
         /\ ListMatchesFlags'
<1>1. reporters \in [Accounts -> BOOLEAN] /\ reporter_accounts \in Seq(Accounts)
  BY DEF OracleInv, TypeOK
<1>2. /\ NoRepeats(reporter_accounts)
      /\ \A a \in Accounts : reporters[a] <=> Holds(reporter_accounts, a)
  BY DEF OracleInv, ListMatchesFlags
<1>3. /\ reporter_accounts' \in Seq(Accounts)
      /\ NoRepeats(reporter_accounts')
      /\ \A a : Holds(reporter_accounts', a) <=> Holds(reporter_accounts, a) /\ a # account
  <2>1. CASE Holds(reporter_accounts, account)
    BY <1>1, <1>2, <2>1, UnlistedOnce
  <2>2. CASE ~ Holds(reporter_accounts, account)
    BY <1>1, <1>2, <2>2
  <2> QED
    BY <2>1, <2>2
<1>4. \A a \in Accounts : reporters'[a] <=> reporters[a] /\ a # account
  BY <1>1
<1>5. \A a \in Accounts : reporters'[a] <=> Holds(reporter_accounts', a)
  BY <1>2, <1>3, <1>4
<1> QED
  BY <1>1, <1>3, <1>5 DEF ListMatchesFlags

LEMMA SubmitStep ==
  ASSUME OracleInv, NEW caller \in Accounts, NEW asset \in Assets, NEW price \in Prices,
         submit_price(caller, asset, price)
  PROVE  OracleInv'
<1>1. price \in Nat /\ now \in Nat /\ price # NoReport /\ now # NoReport
  BY OracleAssumption DEF OracleInv, TypeOK
<1>2. TypeOK'
  BY <1>1 DEF OracleInv, TypeOK, submit_price, appointments, config
<1>3. ListMatchesFlags'
  BY DEF OracleInv, ListMatchesFlags, submit_price, appointments
<1> QED
  BY <1>2, <1>3 DEF OracleInv

LEMMA SetReporterStep ==
  ASSUME OracleInv, NEW caller \in Accounts, NEW account \in Candidates, NEW enabled \in BOOLEAN,
         set_reporter(caller, account, enabled)
  PROVE  OracleInv'
<1>1. account \in Accounts /\ DOMAIN reporter_accounts = 1..Len(reporter_accounts)
  BY LenProperties, OracleAssumption DEF OracleInv, TypeOK
<1>2. /\ reporters' \in [Accounts -> BOOLEAN]
      /\ reporter_accounts' \in Seq(Accounts)
      /\ ListMatchesFlags'
  <2>1. (\E i \in DOMAIN reporter_accounts : reporter_accounts[i] = account)
           <=> Holds(reporter_accounts, account)
    BY <1>1 DEF Holds
  <2>2. CASE enabled
    <3>1. /\ reporters' = [reporters EXCEPT ![account] = TRUE]
          /\ reporter_accounts' = IF Holds(reporter_accounts, account) THEN reporter_accounts
                                  ELSE Append(reporter_accounts, account)
      BY <2>1, <2>2 DEF set_reporter
    <3> QED
      BY <1>1, <3>1, AppointmentKeepsList
  <2>3. CASE ~ enabled
    <3>1. /\ reporters' = [reporters EXCEPT ![account] = FALSE]
          /\ reporter_accounts' = IF Holds(reporter_accounts, account)
                                  THEN RemoveFirst(reporter_accounts, account)
                                  ELSE reporter_accounts
      BY <2>1, <2>3 DEF set_reporter
    <3> QED
      BY <1>1, <3>1, RemovalKeepsList
  <2> QED
    BY <2>2, <2>3
<1>3. TypeOK'
  BY <1>2 DEF OracleInv, TypeOK, set_reporter, reports, config
<1> QED
  BY <1>2, <1>3 DEF OracleInv

LEMMA AcceptStep ==
  ASSUME OracleInv, NEW caller \in Accounts, accept_governance(caller)
  PROVE  OracleInv'
<1>1. reporters[caller] <=> Holds(reporter_accounts, caller)
  BY DEF OracleInv, ListMatchesFlags
<1>2. /\ reporters' = [reporters EXCEPT ![caller] = TRUE]
      /\ reporter_accounts' = IF Holds(reporter_accounts, caller) THEN reporter_accounts
                              ELSE Append(reporter_accounts, caller)
  BY <1>1 DEF accept_governance
<1>3. /\ reporters' \in [Accounts -> BOOLEAN]
      /\ reporter_accounts' \in Seq(Accounts)
      /\ ListMatchesFlags'
  BY <1>2, AppointmentKeepsList
<1>4. TypeOK'
  BY <1>3 DEF OracleInv, TypeOK, accept_governance, reports, config
<1> QED
  BY <1>3, <1>4 DEF OracleInv

\* The steps that leave the list alone.
LEMMA OtherStep ==
  ASSUME OracleInv, UNCHANGED appointments, TypeOK'
  PROVE  OracleInv'
  BY DEF OracleInv, ListMatchesFlags, appointments

LEMMA NextKeepsOracleInv == OracleInv /\ [Next]_vars => OracleInv'
<1> SUFFICES ASSUME OracleInv, [Next]_vars
             PROVE  OracleInv'
  OBVIOUS
<1>1. ASSUME NEW caller \in Accounts, Call(caller)
      PROVE  OracleInv'
  <2>1. ASSUME NEW asset \in Assets, NEW price \in Prices, submit_price(caller, asset, price)
        PROVE  OracleInv'
    BY <2>1, SubmitStep
  <2>2. ASSUME NEW account \in Candidates, NEW enabled \in BOOLEAN,
               set_reporter(caller, account, enabled)
        PROVE  OracleInv'
    BY <2>2, SetReporterStep
  <2>3. ASSUME NEW asset \in Assets, NEW quorum \in Quorums, NEW age \in MaxAges,
               set_asset_config(caller, asset, quorum, age)
        PROVE  OracleInv'
    <3>1. quorum \in Nat \ {0} /\ age \in Nat
      BY <2>3, OracleAssumption DEF set_asset_config
    <3>2. TypeOK'
      BY <2>3, <3>1 DEF OracleInv, TypeOK, set_asset_config, appointments, reports
    <3> QED
      BY <2>3, <3>2, OtherStep DEF set_asset_config
  <2>4. ASSUME NEW account \in Nominees, start_governance_transfer(caller, account)
        PROVE  OracleInv'
    <3>1. account \in Accounts
      BY OracleAssumption
    <3>2. TypeOK'
      BY <2>4, <3>1 DEF OracleInv, TypeOK, start_governance_transfer, appointments, reports, config
    <3> QED
      BY <2>4, <3>2, OtherStep DEF start_governance_transfer
  <2>5. CASE accept_governance(caller)
    BY <2>5, AcceptStep
  <2> QED
    BY <1>1, <2>1, <2>2, <2>3, <2>4, <2>5 DEF Call
<1>2. CASE Tick
  <2>1. TypeOK'
    BY <1>2 DEF OracleInv, TypeOK, Tick, appointments, reports, config
  <2> QED
    BY <1>2, <2>1, OtherStep DEF Tick
<1>3. CASE UNCHANGED vars
  <2>1. TypeOK'
    BY <1>3 DEF OracleInv, TypeOK, vars, appointments, reports, config
  <2> QED
    BY <1>3, <2>1, OtherStep DEF vars
<1> QED
  BY <1>1, <1>2, <1>3 DEF Next

\* The list of reporters always matches the flags.
THEOREM OracleInvariant == Spec => []OracleInv
<1> QED
  BY InitEstablishesOracleInv, NextKeepsOracleInv, PTL DEF Spec

\* Type correctness: a price and its time are written together.
THEOREM OracleTypeCorrect == Spec => []TypeOK
<1>1. OracleInv => TypeOK
  BY DEF OracleInv
<1> QED
  BY <1>1, OracleInvariant, PTL

\* An answer rests on fresh reports of as many different reporters as the asset's
\* quorum asks for, one report of each.
THEOREM QuorumsAreDistinct == Spec => []QuorumOfDistinctReporters
<1>1. OracleInv => QuorumOfDistinctReporters
  BY QuorumIsDistinct DEF OracleInv
<1> QED
  BY <1>1, OracleInvariant, PTL

\* Fewer than half of the reporters that count cannot push the answer of get_price
\* past every price that the others reported.
THEOREM MinoritiesCannotSetPrice == Spec => []MinorityCannotSetPrice
<1>1. OracleInv => MinorityCannotSetPrice
  BY MinorityIsHarmless DEF OracleInv
<1> QED
  BY <1>1, OracleInvariant, PTL
=============================================================================
