------------------------------- MODULE Lists -------------------------------
(***************************************************************************)
(* What the rest of the bot takes an irlist_t for: a sequence.  Items move *)
(* between lists and nowhere; an item is in one list at most.              *)
(***************************************************************************)
EXTENDS Integers, Queues

CONSTANTS
  List, Item,
  rank          \* what the compare function of a sort orders items by

VARIABLE items  \* list -> the items in it

Free(i) == \A l \in List : i \notin Elems(items[l])

\* Of two places of s: which comes first, by rank, and of equal ones as they were.
Before(s, j, k) == rank[s[j]] < rank[s[k]] \/ (rank[s[j]] = rank[s[k]] /\ j < k)

ListsInit == items = [l \in List |-> <<>>]

Put(l, i, k) == Free(i) /\ items' = [items EXCEPT ![l] = InsertAt(@, k, i)]
PutFirst(l, i) == Put(l, i, 1)
PutLast(l, i) == Put(l, i, Len(items[l]) + 1)
PutAfter(l, i, j) == \E k \in DOMAIN items[l] : items[l][k] = j /\ Put(l, i, k + 1)
Without(l, out) == items' = [items EXCEPT ![l] = Purge(@, out)]
Sort(l) ==
  \E order \in [DOMAIN items[l] -> DOMAIN items[l]] :
    /\ \A j, k \in DOMAIN order : j < k => Before(items[l], order[j], order[k])
    /\ items' = [items EXCEPT ![l] = [k \in DOMAIN order |-> @[order[k]]]]
Moved(to, from) == items[to] = <<>> /\ items' = [items EXCEPT ![to] = items[from], ![from] = <<>>]

ListsNext ==
  \/ \E l \in List, i \in Item : PutFirst(l, i) \/ PutLast(l, i)
  \/ \E l \in List, i, j \in Item : PutAfter(l, i, j)
  \/ \E l \in List, out \in SUBSET Item : Without(l, out)
  \/ \E l \in List : Sort(l)
  \/ \E to, from \in List : Moved(to, from)
ListsSpec == ListsInit /\ [][ListsNext]_items
=============================================================================
