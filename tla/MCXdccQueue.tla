---------------------------- MODULE MCXdccQueue ----------------------------
(* Small instances of XdccQueue: the values of its structured constants. *)
EXTENDS XdccQueue

CONSTANTS a, b, h1, h2, n1, p1, p2

\* Two users.  A nick change (the network lets nobody take a nick in use, but a
\* nick may be free again) gives both nicks to both hosts.
Users2 == {[nick |-> a, host |-> h1, net |-> n1],
           [nick |-> b, host |-> h2, net |-> n1]}

\* One user who comes back from another address.
Roamer == {[nick |-> a, host |-> h1, net |-> n1],
           [nick |-> a, host |-> h2, net |-> n1]}

\* The two users of Users2 change places.
SwapUsers == {[x \in {a, b, h1, h2} |->
                 CASE x = a -> b [] x = b -> a [] x = h1 -> h2 [] x = h2 -> h1]}

NoLimit == [p \in Pack |-> 0]
OneADay == [p \in Pack |-> IF p = p1 THEN 1 ELSE 0]
NoRestored == {<<>>}
RestoredOne == {<<>>, <<[nick |-> a, host |-> h1, net |-> n1, pack |-> p1]>>}
Slots1 == {1}
Slots12 == {1, 2}
Queue1 == {1}
Queue2 == {2}
Queue12 == {1, 2}
=============================================================================
