---------------------------- MODULE Redemptions -----------------------------
(***************************************************************************)
(* Points and rewards of one household: internal/service/points.go,        *)
(* internal/service/reward.go and their handlers over the tables of        *)
(* migrations/20260427000030_points_rewards.sql.                           *)
(*                                                                         *)
(* As in ChoreWallet, a request runs one separately committed SQL          *)
(* statement per step, requests interleave between any two statements, and *)
(* any statement may fail.  A request is used once, and a uuid.New() it    *)
(* evaluates is represented by the request: the redemption it creates is   *)
(* redemptions[r], and the point grant it writes has by = r.               *)
(***************************************************************************)
EXTENDS Integers, FiniteSets, FiniteSetsExt

CONSTANTS
    Members, Rewards,   \* ids
    Adjustments,        \* ids of reward cost adjustments
    Requests,           \* one-shot requests
    Costs,              \* the values of rewards.cost_points
    Deltas,             \* the values of reward_cost_adjustments.delta_points
    Amounts,            \* the points of admin grants and adjustments
    FulfillmentKinds,   \* the kinds of reward in use
    Ops,                \* the kinds of request that may arrive
    MayFail,            \* may a statement fail?
    PriceOf(_,_),       \* EffectiveCost of PointsMath
    None                \* SQL NULL, or no row

VARIABLES
    rewards,      \* rewards
    adjustments,  \* reward_cost_adjustments
    grants,       \* point_grants
    redemptions,  \* redemptions, by the request that created them
    pc,           \* the next statement of each request
    op,           \* what each request does
    call          \* its arguments and local variables

catalog == <<rewards, adjustments>>
vars    == <<catalog, grants, redemptions, pc, op, call>>

OpNames == {"grant", "redeem", "approve", "decline", "fulfill"}

ASSUME SetsAssumption ==
    /\ Costs \subseteq Nat
    /\ Deltas \subseteq Int \ {0}
    /\ Amounts \subseteq Int \ {0}
    /\ FulfillmentKinds \subseteq {"self_serve", "needs_approval"}
    /\ Ops \subseteq OpNames
    /\ MayFail \in BOOLEAN
    /\ None \notin OpNames
ASSUME PriceAssumption ==
    \A c \in Costs, S \in SUBSET Adjustments :
        \A f \in [S -> Deltas] : PriceOf(c, f) \in Nat

Reward     == [cost : Costs, kind : FulfillmentKinds, active : BOOLEAN]
Adjustment == [member : Members, reward : Rewards, delta : Deltas, expired : BOOLEAN]
Grant      == [by : Requests, member : Members, points : Int]
Status     == {"pending", "approved", "fulfilled", "declined"}
Redemption == [member : Members, reward : Rewards, points : Nat, status : Status,
               grant : Requests \cup {None}]

ASSUME NoneAssumption == None \notin Redemption /\ None \notin Requests

\* Local variables: of Redeem, whose redemption has its own name; of
\* ApproveRedemption; of DeclineRedemption and FulfillRedemption.
RedeemCall  == [red : Requests, member : Members, reward : Rewards,
                kind : FulfillmentKinds, base : Costs, points : Nat]
ApproveCall == [red : Requests, member : Members, points : Nat]
DecideCall  == [red : Requests, to : {"declined", "fulfilled"}]

Busy == {"cost", "balance", "create", "debit", "link", "decide"}
Finished == {"done", "refused", "failed"}

TypeOK ==
    /\ rewards \in [Rewards -> Reward \cup {None}]
    /\ adjustments \in [Adjustments -> Adjustment \cup {None}]
    /\ grants \subseteq Grant
    /\ redemptions \in [Requests -> Redemption \cup {None}]
    /\ pc \in [Requests -> {"new"} \cup Busy \cup Finished]
    /\ op \in [Requests -> OpNames \cup {None}]
    /\ call \in [Requests -> RedeemCall \cup ApproveCall \cup DecideCall \cup {None}]
    /\ \A r \in Requests :
          /\ op[r] = "redeem"  => call[r] \in RedeemCall
          /\ op[r] = "approve" => call[r] \in ApproveCall
          /\ op[r] \in {"decline", "fulfill"} => call[r] \in DecideCall

Init ==
    /\ rewards = [w \in Rewards |-> None]
    /\ adjustments = [a \in Adjustments |-> None]
    /\ grants = {}
    /\ redemptions = [x \in Requests |-> None]
    /\ pc = [r \in Requests |-> "new"]
    /\ op = [r \in Requests |-> None]
    /\ call = [r \in Requests |-> None]

-----------------------------------------------------------------------------
(***************************************************************************)
(* The admin's catalog: one statement per request, each run in one step.   *)
(***************************************************************************)

CreateReward(w, row) ==
    /\ rewards[w] = None
    /\ row.active
    /\ rewards' = [rewards EXCEPT ![w] = row]
    /\ UNCHANGED <<adjustments, grants, redemptions, pc, op, call>>

\* Every field of the PATCH body is optional: any row may result, active ones
\* included.
UpdateReward(w, row) ==
    /\ rewards[w] # None
    /\ rewards' = [rewards EXCEPT ![w] = row]
    /\ UNCHANGED <<adjustments, grants, redemptions, pc, op, call>>

ArchiveReward(w) ==
    /\ rewards[w] # None
    /\ rewards' = [rewards EXCEPT ![w].active = FALSE]
    /\ UNCHANGED <<adjustments, grants, redemptions, pc, op, call>>

\* expires_at may already have passed.
CreateCostAdjustment(a, row) ==
    /\ adjustments[a] = None
    /\ rewards[row.reward] # None
    /\ adjustments' = [adjustments EXCEPT ![a] = row]
    /\ UNCHANGED <<rewards, grants, redemptions, pc, op, call>>

DeleteCostAdjustment(a) ==
    /\ adjustments[a] # None
    /\ adjustments' = [adjustments EXCEPT ![a] = None]
    /\ UNCHANGED <<rewards, grants, redemptions, pc, op, call>>

\* Time passes an adjustment's expires_at.
Expire(a) ==
    /\ adjustments[a] # None
    /\ adjustments' = [adjustments EXCEPT ![a].expired = TRUE]
    /\ UNCHANGED <<rewards, grants, redemptions, pc, op, call>>

Configure ==
    \/ \E w \in Rewards, row \in Reward : CreateReward(w, row) \/ UpdateReward(w, row)
    \/ \E w \in Rewards : ArchiveReward(w)
    \/ \E a \in Adjustments, row \in Adjustment : CreateCostAdjustment(a, row)
    \/ \E a \in Adjustments : DeleteCostAdjustment(a) \/ Expire(a)

-----------------------------------------------------------------------------
(***************************************************************************)
(* The life of a request.                                                  *)
(***************************************************************************)

Goto(r, label) == pc' = [pc EXCEPT ![r] = label]

Arrive(r, o, args, label) ==
    /\ pc[r] = "new"
    /\ o \in Ops
    /\ op' = [op EXCEPT ![r] = o]
    /\ call' = [call EXCEPT ![r] = args]
    /\ Goto(r, label)

\* The statement that request r is about to run fails, or the server stops.
Fail(r) ==
    /\ MayFail
    /\ pc[r] \in Busy
    /\ Goto(r, "failed")
    /\ UNCHANGED <<catalog, grants, redemptions, op, call>>

\* PointsService.Grant for an admin's grant or adjustment, of either sign.
GrantPoints(r, m, p) ==
    /\ Arrive(r, "grant", None, "done")
    /\ grants' = grants \cup {[by |-> r, member |-> m, points |-> p]}
    /\ UNCHANGED <<catalog, redemptions>>

\* SumPointsByMember
Balance(m) == MapThenSumSet(LAMBDA g : g.points, {g \in grants : g.member = m})

-----------------------------------------------------------------------------
(***************************************************************************)
(* RewardService.Redeem                                                    *)
(***************************************************************************)

\* GetReward and the check that it is active.
BeginRedeem(r, m, w) ==
    /\ rewards[w] # None
    /\ rewards[w].active
    /\ Arrive(r, "redeem",
              [red |-> r, member |-> m, reward |-> w, kind |-> rewards[w].kind,
               base |-> rewards[w].cost, points |-> 0],
              "cost")
    /\ UNCHANGED <<catalog, grants, redemptions>>

\* ListActiveRewardCostAdjustments filters expired rows, and EffectiveCost again.
ActiveDeltas(m, w) ==
    LET active == {a \in Adjustments : /\ adjustments[a] # None
                                       /\ adjustments[a].member = m
                                       /\ adjustments[a].reward = w
                                       /\ ~adjustments[a].expired}
    IN  [a \in active |-> adjustments[a].delta]

\* Mutant: the sum without EffectiveCost's floor.
EffectiveCostForUnfloored(r) ==
    LET deltas == ActiveDeltas(call[r].member, call[r].reward)
    IN  /\ pc[r] = "cost"
        /\ call' = [call EXCEPT ![r].points =
               call[r].base + MapThenSumSet(LAMBDA a : deltas[a], DOMAIN deltas)]
        /\ Goto(r, "balance")
        /\ UNCHANGED <<catalog, grants, redemptions, op>>

EffectiveCostFor(r) ==
    /\ pc[r] = "cost"
    /\ call' = [call EXCEPT ![r].points =
                   PriceOf(call[r].base, ActiveDeltas(call[r].member, call[r].reward))]
    /\ Goto(r, "balance")
    /\ UNCHANGED <<catalog, grants, redemptions, op>>

\* GetBalance; only a self-serve redemption is refused for lack of points.
CheckBalance(r) ==
    /\ pc[r] = "balance"
    /\ Goto(r, IF /\ call[r].kind = "self_serve"
                  /\ call[r].points > Balance(call[r].member)
               THEN "refused" ELSE "create")
    /\ UNCHANGED <<catalog, grants, redemptions, op, call>>

CreateRedemption(r) ==
    LET selfServe == call[r].kind = "self_serve"
    IN  /\ pc[r] = "create"
        /\ redemptions' = [redemptions EXCEPT ![r] =
               [member |-> call[r].member, reward |-> call[r].reward,
                points |-> call[r].points,
                status |-> IF selfServe THEN "approved" ELSE "pending",
                grant |-> None]]
        /\ Goto(r, IF selfServe THEN "debit" ELSE "done")
        /\ UNCHANGED <<catalog, grants, op, call>>

\* PointsService.Grant for the debit, in Redeem and in ApproveRedemption.
DebitGrant(r) ==
    /\ pc[r] = "debit"
    /\ grants' = grants \cup
           {[by |-> r, member |-> call[r].member, points |-> -call[r].points]}
    /\ Goto(r, "link")
    /\ UNCHANGED <<catalog, redemptions, op, call>>

\* Mutant: the row keeps its old grant_id.
LinkGrantDropped(r) ==
    /\ pc[r] = "link"
    /\ redemptions' = [redemptions EXCEPT ![call[r].red].status = "approved"]
    /\ Goto(r, "done")
    /\ UNCHANGED <<catalog, grants, op, call>>

\* SetRedemptionStatus to approved with the grant's id: WHERE names only the id,
\* so whatever the status has become is overwritten.
LinkGrant(r) ==
    /\ pc[r] = "link"
    /\ redemptions' = [redemptions EXCEPT ![call[r].red].status = "approved",
                                          ![call[r].red].grant = r]
    /\ Goto(r, "done")
    /\ UNCHANGED <<catalog, grants, op, call>>

-----------------------------------------------------------------------------
(***************************************************************************)
(* ApproveRedemption, DeclineRedemption, FulfillRedemption                 *)
(***************************************************************************)

Is(x, status) == redemptions[x] # None /\ redemptions[x].status = status

\* Mutant: the reward's present cost is charged.
BeginApproveAtCurrentCost(r, x) ==
    /\ Is(x, "pending")
    /\ Arrive(r, "approve",
              [red |-> x, member |-> redemptions[x].member,
               points |-> rewards[redemptions[x].reward].cost],
              "debit")
    /\ UNCHANGED <<catalog, grants, redemptions>>

\* Mutant: an approved redemption can be approved again.
BeginApproveUnchecked(r, x) ==
    /\ redemptions[x] # None
    /\ Arrive(r, "approve",
              [red |-> x, member |-> redemptions[x].member,
               points |-> redemptions[x].points],
              "debit")
    /\ UNCHANGED <<catalog, grants, redemptions>>

\* GetRedemption and the check that it is pending.  The reward is read for its
\* name only, and the balance is not looked at.
BeginApprove(r, x) ==
    /\ Is(x, "pending")
    /\ Arrive(r, "approve",
              [red |-> x, member |-> redemptions[x].member,
               points |-> redemptions[x].points],
              "debit")
    /\ UNCHANGED <<catalog, grants, redemptions>>

BeginDecline(r, x) ==
    /\ Is(x, "pending")
    /\ Arrive(r, "decline", [red |-> x, to |-> "declined"], "decide")
    /\ UNCHANGED <<catalog, grants, redemptions>>

BeginFulfill(r, x) ==
    /\ Is(x, "approved")
    /\ Arrive(r, "fulfill", [red |-> x, to |-> "fulfilled"], "decide")
    /\ UNCHANGED <<catalog, grants, redemptions>>

\* SetRedemptionStatus, as unguarded as in LinkGrant; grant_id is kept.
SetRedemptionStatus(r) ==
    /\ pc[r] = "decide"
    /\ redemptions' = [redemptions EXCEPT ![call[r].red].status = call[r].to]
    /\ Goto(r, "done")
    /\ UNCHANGED <<catalog, grants, op, call>>

-----------------------------------------------------------------------------
Begin(r) ==
    \/ \E m \in Members, p \in Amounts : GrantPoints(r, m, p)
    \/ \E m \in Members, w \in Rewards : BeginRedeem(r, m, w)
    \/ \E x \in Requests : BeginApprove(r, x) \/ BeginDecline(r, x) \/ BeginFulfill(r, x)

Step(r) ==
    \/ EffectiveCostFor(r) \/ CheckBalance(r) \/ CreateRedemption(r)
    \/ DebitGrant(r) \/ LinkGrant(r) \/ SetRedemptionStatus(r)

Next == Configure \/ \E r \in Requests : Begin(r) \/ Step(r) \/ Fail(r)

Spec == Init /\ [][Next]_vars

-----------------------------------------------------------------------------
(***************************************************************************)
(* Properties that hold.                                                   *)
(***************************************************************************)

Charging(r) == op[r] \in {"redeem", "approve"}

\* The grants that were written to pay for redemption x.
Debits(x) == {g \in grants : Charging(g.by) /\ call[g.by].red = x}

\* A redemption's grant_id names a debit that was written for it, of the same
\* member, over exactly the points recorded when it was requested: price edits
\* and cost adjustments made between the request and its approval, and other
\* decisions that race with it, never change what is charged (reward.go, Redeem
\* and ApproveRedemption).
GrantLinked ==
    \A x \in Requests :
        LET row == redemptions[x]
        IN  row # None /\ row.grant # None =>
                [by |-> row.grant, member |-> row.member, points |-> -row.points]
                    \in Debits(x)

\* The requests that work on redemption x.
About(x) == {r \in Requests : op[r] \in OpNames \ {"grant"} /\ call[r].red = x}

\* Once every request about a redemption has ended normally, whatever the order
\* of their statements, a pending redemption has cost nothing and an approved or
\* fulfilled one names the grant that paid for it (reward.go).  It is silent on a
\* declined one, which an approval that overlapped the refusal may have debited,
\* and on one that two overlapping approvals have debited twice.
SettledIsCharged ==
    \A x \in Requests :
        redemptions[x] # None /\ (\A r \in About(x) : pc[r] = "done") =>
            /\ Is(x, "pending") => Debits(x) = {}
            /\ Is(x, "approved") \/ Is(x, "fulfilled") => redemptions[x].grant # None

\* No two requests about the same redemption overlap.
OneAtATime ==
    \A r, s \in Requests :
        /\ {pc[r], pc[s]} \subseteq Busy
        /\ {op[r], op[s]} \subseteq OpNames \ {"grant"}
        /\ call[r].red = call[s].red
        => r = s
OneAtATimeSpec == Init /\ [][Next /\ OneAtATime']_vars

\* A self-serve redemption counts, and a debit counts, from the statement on that
\* links the two.
Buying(x) == pc[x] \in {"debit", "link"} /\ op[x] = "redeem"
StatusOf(x) ==
    IF redemptions[x] = None \/ Buying(x) THEN "none" ELSE redemptions[x].status
Paid(x) == {r \in Requests : pc[r] # "link" /\ \E g \in Debits(x) : g.by = r}
Lifecycle == INSTANCE RedemptionLifecycle WITH
    Ids <- Requests, Grants <- Requests,
    status <- [x \in Requests |-> StatusOf(x)],
    debits <- [x \in Requests |-> Paid(x)]

\* As long as no two requests about the same redemption overlap and none fails,
\* the statements of reward.go implement RedemptionLifecycle: a redemption is
\* decided once and debited exactly once, in the step that approves it.  The code
\* does not keep them apart: two that overlap can both debit, or debit and decline.
ImplementsLifecycle == Lifecycle!Spec

-----------------------------------------------------------------------------
(***************************************************************************)
(* The inductive invariant behind GrantLinked and SettledIsCharged.        *)
(***************************************************************************)

\* Which request stands where.
CallsOK ==
    \A r \in Requests :
        /\ pc[r] \in {"cost", "balance", "create", "refused"} => op[r] = "redeem"
        /\ pc[r] \in {"debit", "link"} => Charging(r)
        /\ pc[r] = "decide" => op[r] \in {"decline", "fulfill"}
        /\ pc[r] = "new" => op[r] = None
        /\ op[r] = "redeem" => call[r].red = r
        /\ op[r] = "decline" => call[r].to = "declined"
        /\ op[r] = "fulfill" => call[r].to = "fulfilled"

\* A redemption belongs to the Redeem request that created it and keeps the
\* member and the points it was created with: what a request that will charge
\* for it has read is never stale.
RowsOK ==
    /\ \A x \in Requests :
          redemptions[x] # None => op[x] = "redeem" /\ pc[x] \in {"debit", "link", "done", "failed"}
    /\ \A r \in Requests :
          /\ pc[r] \in {"debit", "link"} =>
                /\ redemptions[call[r].red] # None
                /\ redemptions[call[r].red].member = call[r].member
                /\ redemptions[call[r].red].points = call[r].points
          /\ op[r] \in {"approve", "decline", "fulfill"} => redemptions[call[r].red] # None

DebitOf(r) == [by |-> r, member |-> call[r].member, points |-> -call[r].points]

\* A request writes its debit once, between `debit' and `link'.
GrantsOK ==
    /\ \A g \in grants : pc[g.by] # "new"
    /\ \A g \in grants : Charging(g.by) =>
          g = DebitOf(g.by) /\ pc[g.by] \in {"link", "done", "failed"}
    /\ \A r \in Requests : pc[r] = "link" => DebitOf(r) \in grants

\* A redemption that has been charged or approved stays so: the grant may only
\* be missing while the Redeem that created the row is under way, or after it
\* failed.
Unlinked(x) == redemptions[x].grant = None /\ pc[x] \notin {"debit", "link", "failed"}
ChargesOK ==
    /\ \A g \in grants : Charging(g.by) /\ pc[g.by] = "done" => ~Is(call[g.by].red, "pending")
    /\ \A x \in Requests : op[x] = "redeem" /\ pc[x] \in {"debit", "link"} => ~Is(x, "pending")
    /\ \A x \in Requests : Is(x, "approved") \/ Is(x, "fulfilled") => ~Unlinked(x)
    /\ \A r \in Requests : op[r] = "fulfill" => ~Unlinked(call[r].red)

Accounted == CallsOK /\ RowsOK /\ GrantsOK /\ ChargesOK /\ GrantLinked
=============================================================================
