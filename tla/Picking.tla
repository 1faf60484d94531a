------------------------------ MODULE Picking ------------------------------
(***************************************************************************)
(* Sequences made of the elements of others: some of them, in the same     *)
(* order or in another one. What is chosen is a set of positions, and an   *)
(* element's place is the number of those up to it.                        *)
(***************************************************************************)
EXTENDS Integers, Sequences, SequencesExt, FiniteSetsExt

\* Op(v) and s themselves: here TLC computes v, and the elements of s, once and for all.
With(v, Op(_)) == CHOOSE r \in {Op(x) : x \in {v}} : TRUE
Listed(s) == SubSeq(s, 1, Len(s))

Mapped(s, Op(_)) == With(s, LAMBDA t : Listed([i \in 1 .. Len(t) |-> Op(t[i])]))

Take(s, n) == With(s, LAMBDA t : SubSeq(t, 1, IF n < Len(t) THEN n ELSE Len(t)))

\* The elements of a finite set by an order of them: the k-th has k elements up to it.
InOrder(S, UpTo(_, _)) ==
    With(S, LAMBDA T : Listed([k \in 1 .. Cardinality(T) |->
        CHOOSE x \in T : Cardinality({y \in T : UpTo(y, x)}) = k]))

\* What s has at some of its positions.
Picked(s, at) == Mapped(InOrder(at, LAMBDA i, j : i <= j), LAMBDA i : s[i])
Kept(s, Test(_)) == With(s, LAMBDA t : Picked(t, {i \in DOMAIN t : Test(t[i])}))

\* The first element of every key.
FirstBy(s, Key(_)) ==
    With(s, LAMBDA t :
        Picked(t, {i \in DOMAIN t : \A j \in 1 .. (i - 1) : Key(t[j]) # Key(t[i])}))

\* list.sort(key, reverse=True) keeps the order of equal keys.
Sorted(s, keys) ==
    Mapped(InOrder(DOMAIN s, LAMBDA i, j : keys[i] > keys[j] \/ (keys[i] = keys[j] /\ i <= j)),
           LAMBDA i : s[i])
StableSort(s, Key(_)) ==
    With(s, LAMBDA t : With(Mapped(t, Key), LAMBDA keys : Sorted(t, keys)))
=============================================================================
