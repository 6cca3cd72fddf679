----------------------------- MODULE LinkedList -----------------------------
(***************************************************************************)
(* irlist_t, the list the bot keeps everything in (src/iroffer_utilities.c,*)
(* irlist_sort2 of src/dinoex_utilities.c, irlist_move of                  *)
(* src/dinoex_jobs.c): a chain of items, its ends and its length.  It      *)
(* implements Lists.                                                       *)
(***************************************************************************)
EXTENDS Integers, Queues

CONSTANTS
  List, Item,
  rank          \* what the compare function of a sort orders items by

VARIABLE heap   \* next: item -> item; head, tail, size: of each list

NoItem == "NULL"
Scratch == "newlist"   \* irlist_sort2's own list

ASSUME ListsAssumption ==
  IsFiniteSet(Item) /\ NoItem \notin Item /\ Scratch \notin List /\ rank \in [Item -> Int]

HeapTypeOK ==
  /\ heap.next \in [Item -> Item \cup {NoItem}]
  /\ {heap.head, heap.tail} \subseteq [List \cup {Scratch} -> Item \cup {NoItem}]
  /\ heap.size \in [List \cup {Scratch} -> 0..Cardinality(Item)]

HeapInit ==
  heap = [next |-> [i \in Item |-> NoItem], head |-> [l \in List \cup {Scratch} |-> NoItem],
          tail |-> [l \in List \cup {Scratch} |-> NoItem], size |-> [l \in List \cup {Scratch} |-> 0]]
-----------------------------------------------------------------------------
(* The operations, each from a heap to a heap *)

\* The items from the head on; longer than there are items when the chain is a cycle.
Chain(h, l) ==
  LET walk[n \in 0..Cardinality(Item)] ==
        IF n = 0 THEN h.head[l]
        ELSE LET cur == walk[n - 1] IN IF cur = NoItem THEN NoItem ELSE h.next[cur]
  IN [n \in 1..Cardinality({k \in 0..Cardinality(Item) : walk[k] # NoItem}) |-> walk[n - 1]]
In(h, l, i) == \E k \in DOMAIN Chain(h, l) : Chain(h, l)[k] = i

irlist_insert_head(h, l, i) ==
  [h EXCEPT !.next[i] = h.head[l], !.head[l] = i, !.size[l] = @ + 1,
            !.tail[l] = IF h.size[l] = 0 THEN i ELSE @]
irlist_insert_tail(h, l, i) ==
  LET linked == IF h.size[l] = 0 THEN [h EXCEPT !.head[l] = i] ELSE [h EXCEPT !.next[h.tail[l]] = i]
  IN [linked EXCEPT !.next[i] = NoItem, !.tail[l] = i, !.size[l] = @ + 1]
irlist_insert_after_KeepTail(h, l, i, after) ==   \* seeded defect: never the last
  [h EXCEPT !.next = [@ EXCEPT ![i] = h.next[after], ![after] = i], !.size[l] = @ + 1]
irlist_insert_after(h, l, i, after) ==
  [h EXCEPT !.next = [@ EXCEPT ![i] = h.next[after], ![after] = i], !.size[l] = @ + 1,
            !.tail[l] = IF h.next[after] = NoItem THEN i ELSE @]

\* irlist_loop_match finds the item before.
irlist_remove(h, l, i) ==
  LET before == {j \in Item : In(h, l, j) /\ h.next[j] = i}
      prev == IF before = {} THEN NoItem ELSE CHOOSE j \in before : TRUE
      unlinked == IF h.head[l] = i THEN [h EXCEPT !.head[l] = h.next[i]] ELSE [h EXCEPT !.next[prev] = h.next[i]]
  IN [unlinked EXCEPT !.next[i] = NoItem, !.size[l] = @ - 1,
                      !.tail[l] = IF @ = i THEN prev ELSE @]

\* How the bot cleans a list: what is deleted returns the item to go on with.
Cleaned(h, l, out) ==
  LET visit[n \in 0..Cardinality(Item)] ==   \* the heap and the item after n items
        IF n = 0 THEN [heap |-> h, cur |-> h.head[l]]
        ELSE LET s == visit[n - 1]
             IN IF s.cur = NoItem THEN s
                ELSE [heap |-> IF s.cur \in out THEN irlist_remove(s.heap, l, s.cur) ELSE s.heap,
                      cur |-> s.heap.next[s.cur]]
  IN visit[Cardinality(Item)].heap

irlist_move(h, to, from) ==
  [h EXCEPT !.head = [@ EXCEPT ![to] = h.head[from], ![from] = NoItem],
            !.tail = [@ EXCEPT ![to] = h.tail[from], ![from] = NoItem],
            !.size = [@ EXCEPT ![to] = h.size[from], ![from] = 0]]

\* An item goes before the first that is greater.
SortStep(h, l) ==
  LET cur == h.head[l]
      rest == irlist_remove(h, l, cur)
      s == Chain(rest, Scratch)
      greater == {k \in DOMAIN s : rank[cur] < rank[s[k]]}
      at == IF greater = {} THEN Len(s) ELSE First(greater) - 1
  IN IF at = 0 THEN irlist_insert_head(rest, Scratch, cur)
     ELSE irlist_insert_after(rest, Scratch, cur, s[at])
irlist_sort2(h, l) ==
  LET step[n \in 0..h.size[l]] == IF n = 0 THEN h ELSE SortStep(step[n - 1], l)
  IN irlist_move(step[h.size[l]], l, Scratch)
-----------------------------------------------------------------------------
(* As they are called: an item that is inserted is in no list *)

Unlinked(i) == \A l \in List : ~In(heap, l, i)
Insert ==
  \E l \in List, i \in Item :
    /\ Unlinked(i)
    /\ \/ heap' = irlist_insert_head(heap, l, i)
       \/ heap' = irlist_insert_tail(heap, l, i)
       \/ \E j \in Item : In(heap, l, j) /\ heap' = irlist_insert_after(heap, l, i, j)
Remove == \E l \in List, i \in Item : In(heap, l, i) /\ heap' = irlist_remove(heap, l, i)
Clean == \E l \in List, out \in SUBSET Item : heap' = Cleaned(heap, l, out)
SortList == \E l \in List : heap' = irlist_sort2(heap, l)
MoveList == \E to, from \in List : heap.size[to] = 0 /\ to # from /\ heap' = irlist_move(heap, to, from)

HeapNext == Insert \/ Remove \/ Clean \/ SortList \/ MoveList
HeapSpec == HeapInit /\ [][HeapNext]_heap
-----------------------------------------------------------------------------
(* Properties *)

\* What the functions assert: the ends and the length tell the same as the chain.
Asserted ==
  \A l \in List : LET s == Chain(heap, l)
                  IN /\ heap.size[l] = Len(s)
                     /\ heap.tail[l] = IF s = <<>> THEN NoItem ELSE s[Len(s)]

\* Whatever is called in whatever order, the chains are the sequences that the bot
\* means: nothing is lost or in two lists, and what is sorted is sorted.
Chains == [l \in List |-> Chain(heap, l)]
Abstract == INSTANCE Lists WITH items <- Chains
Sequences == Abstract!ListsInit /\ [][heap' = heap \/ [Abstract!ListsNext]_Chains]_heap
=============================================================================
