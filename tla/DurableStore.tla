---------------------------- MODULE DurableStore ----------------------------
(***************************************************************************)
(* What the state file promises: a start finds the state of the last save, *)
(* whenever the program was stopped.  The state is set aside, on purpose,  *)
(* before it is cleared or rewritten by another version of the program;    *)
(* until the next save there is nothing to start from, and what was set    *)
(* aside is never lost.                                                    *)
(***************************************************************************)
CONSTANTS State, Nothing   \* Nothing, one of State: what a bot knows that never ran

VARIABLES
  mem,       \* what the program knows
  up,        \* it runs
  readable,  \* the file can be read
  stored,    \* what the next start will find
  kept       \* what was set aside

storeVars == <<mem, up, readable, stored, kept>>

StoreInit ==
  /\ mem = Nothing /\ stored \in State /\ kept = {} /\ up = FALSE /\ readable = TRUE

Change ==
  /\ up /\ \E s \in State : mem' = s
  /\ UNCHANGED <<up, readable, stored, kept>>

Save ==
  /\ up /\ stored' = mem
  /\ UNCHANGED <<mem, up, readable, kept>>

SetAside ==
  /\ up /\ kept' = kept \cup {stored} /\ stored' = Nothing
  /\ UNCHANGED <<mem, up, readable>>

Stop ==
  /\ up /\ up' = FALSE /\ mem' = Nothing
  /\ UNCHANGED <<readable, stored, kept>>

Start ==
  /\ ~up /\ up' = TRUE /\ mem' = IF readable THEN stored ELSE Nothing
  /\ UNCHANGED <<readable, stored, kept>>

Access ==
  /\ ~up /\ readable' \in BOOLEAN
  /\ UNCHANGED <<mem, up, stored, kept>>

StoreNext == Change \/ Save \/ SetAside \/ Stop \/ Start \/ Access
StoreSpec == StoreInit /\ [][StoreNext]_storeVars
=============================================================================
