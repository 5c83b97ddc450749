----------------------------- MODULE CachedCopy -----------------------------
(***************************************************************************)
(* What the query client promises of one read (web/src/lib/api): all       *)
(* screens that use it share one copy of the server's table.  The copy may *)
(* lag behind, but it only moves forward, whatever is refetched, fails or  *)
(* is written meanwhile, and it is dropped only while no screen uses it.   *)
(***************************************************************************)
EXTENDS Integers

CONSTANT None     \* no copy is held

VARIABLES table,  \* the writes the server's table has seen
          copy,   \* the writes the copy shows
          used    \* does a screen use the read

vars == <<table, copy, used>>

Init == table = 0 /\ copy = None /\ used = FALSE

Write == table' = table + 1 /\ UNCHANGED <<copy, used>>

\* A fetch may have been answered some writes ago, but after what is shown.
Refresh ==
    /\ copy' \in 0..table
    /\ copy # None => copy' >= copy
    /\ UNCHANGED <<table, used>>

Use == used' = ~used /\ UNCHANGED <<table, copy>>

Forget == ~used /\ copy' = None /\ UNCHANGED <<table, used>>

Next == Write \/ Refresh \/ Use \/ Forget

Spec == Init /\ [][Next]_vars
=============================================================================
