----------------------------- MODULE StableSort -----------------------------
(***************************************************************************)
(* The stable sort of Rust's slices (Vec::sort_by): elements that compare  *)
(* equal keep the order they came in.  Both it and Iterator::filter are    *)
(* defined by the place of every element, without recursion.               *)
(***************************************************************************)
EXTENDS Integers, Sequences, FiniteSets

\* The place that the element at i takes among those at positions D, where `before`
\* holds the pairs <<i, j>> of which the element at i has to stand before that at j.
PlaceOf(D, before, i) ==
  Cardinality({j \in D : <<j, i>> \in before \/ (<<i, j>> \notin before /\ j <= i)})

\* The elements at positions D, each at its place.
Arranged(s, D, before) ==
  [k \in 1 .. Cardinality(D) |-> s[CHOOSE i \in D : PlaceOf(D, before, i) = k]]

SortedBy(s, Less(_, _)) ==
  Arranged(s, DOMAIN s, {ij \in (DOMAIN s) \X (DOMAIN s) : Less(s[ij[1]], s[ij[2]])})

\* Iterator::filter: the elements at positions D in the order they came in.
Kept(s, D) == Arranged(s, D, {})

\* The lexicographic order, Ordering::then_with: the first difference decides.
LexLess(s, t) ==
  \E i \in DOMAIN s : (\A j \in 1 .. i - 1 : s[j] = t[j]) /\ s[i] < t[i]
=============================================================================
