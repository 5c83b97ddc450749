------------------------ MODULE RedemptionLifecycle -------------------------
(***************************************************************************)
(* What RewardService promises about a redemption, taken from the status   *)
(* checks and the comments of internal/service/reward.go: it is requested  *)
(* and then decided once, or bought outright; it is debited exactly once,  *)
(* in the step that approves it; only an approved redemption is fulfilled; *)
(* declined and fulfilled are final.                                       *)
(***************************************************************************)
CONSTANTS Ids,      \* redemption ids
          Grants    \* point grant ids

VARIABLES status,   \* of each redemption
          debits    \* the grants that have debited each redemption

vars == <<status, debits>>

Init ==
    /\ status = [x \in Ids |-> "none"]
    /\ debits = [x \in Ids |-> {}]

Move(x, from, to) == status[x] = from /\ status' = [status EXCEPT ![x] = to]

Charge(x) ==
    /\ debits[x] = {}
    /\ \E g \in Grants : debits' = [debits EXCEPT ![x] = {g}]

Request(x) == Move(x, "none", "pending") /\ UNCHANGED debits
Buy(x)     == Move(x, "none", "approved") /\ Charge(x)
Approve(x) == Move(x, "pending", "approved") /\ Charge(x)
Decline(x) == Move(x, "pending", "declined") /\ UNCHANGED debits
Fulfill(x) == Move(x, "approved", "fulfilled") /\ UNCHANGED debits

Next == \E x \in Ids :
            Request(x) \/ Buy(x) \/ Approve(x) \/ Decline(x) \/ Fulfill(x)

Spec == Init /\ [][Next]_vars
=============================================================================
