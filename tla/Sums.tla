-------------------------------- MODULE Sums --------------------------------
(***************************************************************************)
(* The sum of a finite map of non-negative amounts, defined by counting:   *)
(* an amount n held by a is the n pairs <<a, 1>>, ..., <<a, n>>, and the    *)
(* sum of a map is the number of all such pairs.  There is no recursion in  *)
(* it, so the provers can reason about it (module SumsProofs).              *)
(***************************************************************************)
EXTENDS Integers, FiniteSets

\* The quanta of an amount n held by a.
QuantaOf(a, n) == {a} \X (1..n)

QuantaIn(f) == UNION {QuantaOf(a, f[a]) : a \in DOMAIN f}

\* The sum of f[a] over every a in the domain of f.
Total(f) == Cardinality(QuantaIn(f))
=============================================================================
