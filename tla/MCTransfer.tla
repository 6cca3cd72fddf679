----------------------------- MODULE MCTransfer -----------------------------
(* Small instances of Transfer: the values of its structured constants. *)
EXTENDS Transfer, TLC

CONSTANTS p1, p2, x, y, z, i1, i2, i3

User(f, pass) == [man |-> FALSE, family |-> f, passive |-> pass]
Owner(f, pass) == [man |-> TRUE, family |-> f, passive |-> pass]

ActiveOrPassive == {User(4, FALSE), User(4, TRUE)}
AnyUser == {User(4, FALSE), User(4, TRUE), Owner(4, FALSE)}
BothFamilies == {User(4, FALSE), User(6, FALSE)}

\* Ids are given out in turn, but nothing is decided by their order.
Ids == Permutations(Id)

TwoUnits == [p \in Pack |-> 2]
OneUnit == [p \in Pack |-> 1]
ThreeUnits == [p \in Pack |-> 3]
=============================================================================
