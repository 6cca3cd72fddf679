------------------------------- MODULE Queues -------------------------------
(***************************************************************************)
(* The ordered lists the bot keeps requests and transfers in (irlist_t) as *)
(* sequences, with the operations the handlers apply to them.  A loop that *)
(* walks a list and calls irlist_delete on some elements keeps the others  *)
(* in their order: Keep.                                                   *)
(***************************************************************************)
EXTENDS Naturals, Sequences, FiniteSets

\* The elements of a list.
Elems(q) == {q[i] : i \in DOMAIN q}

\* The j-th smallest number of a finite set of positions.
Nth(K, j) == CHOOSE i \in K : Cardinality(K \cap (1..i)) = j

\* The entries of q at the positions of K, in the order of q.
Keep(q, K) == [j \in 1..Cardinality(K) |-> q[Nth(K, j)]]

\* Walk the list, irlist_delete every element that belongs to Out.
Purge(q, Out) == Keep(q, {i \in DOMAIN q : q[i] \notin Out})

\* irlist_delete of the i-th element.
Drop(q, i) == Keep(q, DOMAIN q \ {i})

\* irlist_insert_head or irlist_insert_after: x becomes the n-th element.
InsertAt(q, n, x) == SubSeq(q, 1, n - 1) \o <<x>> \o SubSeq(q, n, Len(q))

\* How many entries of q belong to S.
Count(q, S) == Cardinality({i \in DOMAIN q : q[i] \in S})

\* The first position of a nonempty set: a forward search that breaks.
First(K) == CHOOSE i \in K : \A j \in K : i <= j
=============================================================================
