----------------------------- MODULE MCNetwork -----------------------------
(* Small instances of Network. *)
EXTENDS Network

CONSTANTS u, v

OneThere == {{u}}
NobodyThere == {{}}

Commands == {"JOIN", "PART", "NICK", "PING", "PRIVMSG", "QUIT"}
\* One message fits into the bucket, two do not.
Lengths == [c \in Commands |-> 1]
\* In a second the bucket gains more than the jobs of one period take from it.
LongLengths == [c \in Commands |-> IF c = "PRIVMSG" THEN 3 ELSE 1]
=============================================================================
