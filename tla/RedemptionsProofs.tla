-------------------------- MODULE RedemptionsProofs -------------------------
(***************************************************************************)
(* Proofs about Redemptions, for every instance of its constants: any      *)
(* number of members, rewards, adjustments and concurrent requests, any    *)
(* prices, statements failing or not.                                      *)
(***************************************************************************)
EXTENDS Redemptions, TLAPS

Inv == TypeOK /\ Accounted

\* No request has begun and there is no row.
LEMMA InitInv == Init => Inv
  BY SetsAssumption, NoneAssumption
  DEF Init, Inv, Accounted, TypeOK, CallsOK, RowsOK, GrantsOK, ChargesOK, GrantLinked,
      Charging, Is, OpNames

\* The catalog's rows matter to the type invariant only: every other conjunct is
\* about grants, redemptions and requests, which the admin's edits leave alone.
LEMMA ConfigureInv == Inv /\ Configure => Inv'
<1> SUFFICES ASSUME Inv, Configure PROVE Inv'
  OBVIOUS
<1>1. UNCHANGED <<grants, redemptions, pc, op, call>>
  BY DEF Configure, CreateReward, UpdateReward, ArchiveReward, CreateCostAdjustment,
         DeleteCostAdjustment, Expire
<1>2. rewards' \in [Rewards -> Reward \cup {None}]
  BY DEF Configure, CreateReward, UpdateReward, ArchiveReward, CreateCostAdjustment,
         DeleteCostAdjustment, Expire, Inv, TypeOK, Reward
<1>a. adjustments' \in [Adjustments -> Adjustment \cup {None}]
  BY DEF Configure, CreateReward, UpdateReward, ArchiveReward, CreateCostAdjustment,
         DeleteCostAdjustment, Expire, Inv, TypeOK, Adjustment
<1>3. TypeOK'
  BY <1>1, <1>2, <1>a DEF Inv, TypeOK
<1>4. Accounted'
  BY <1>1 DEF Inv, Accounted, CallsOK, RowsOK, GrantsOK, ChargesOK, GrantLinked, Debits,
              DebitOf, Charging, Is, Unlinked
<1> QED
  BY <1>3, <1>4 DEF Inv

\* An admin's grant is not a debit.
LEMMA GrantPointsInv ==
    ASSUME Inv, NEW r \in Requests, NEW m \in Members, NEW p \in Amounts,
           GrantPoints(r, m, p)
    PROVE  Inv'
<1> USE SetsAssumption, NoneAssumption DEF Inv, Accounted, TypeOK, GrantPoints, Arrive, Goto, Charging
<1>1. TypeOK'
  BY DEF catalog, Reward, Adjustment, Grant, Redemption, Status, RedeemCall, ApproveCall, DecideCall,
      Busy, Finished, OpNames
<1>2. CallsOK'
  BY DEF CallsOK, OpNames
<1>3. RowsOK'
  BY DEF CallsOK, RowsOK, Redemption, RedeemCall, ApproveCall, DecideCall
<1>4. GrantsOK'
  BY DEF CallsOK, GrantsOK, DebitOf, Grant, RedeemCall, ApproveCall
<1>5. ChargesOK'
  BY DEF CallsOK, RowsOK, GrantsOK, ChargesOK, Is, Unlinked,
      Grant, Redemption, RedeemCall, ApproveCall, DecideCall
<1>6. GrantLinked'
  BY DEF CallsOK, RowsOK, GrantsOK, GrantLinked, Debits, DebitOf, Grant,
      Redemption, RedeemCall, ApproveCall, DecideCall
<1> QED
  BY <1>1, <1>2, <1>3, <1>4, <1>5, <1>6

\* A Redeem that begins has no row and no debit yet.
LEMMA BeginRedeemInv ==
    ASSUME Inv, NEW r \in Requests, NEW m \in Members, NEW w \in Rewards,
           BeginRedeem(r, m, w)
    PROVE  Inv'
<1> USE SetsAssumption, NoneAssumption DEF Inv, Accounted, TypeOK, BeginRedeem, Arrive, Goto, Charging
<1>1. TypeOK'
  BY DEF catalog, Reward, Adjustment, Grant, Redemption, Status, RedeemCall, ApproveCall, DecideCall,
      Busy, Finished, OpNames
<1>2. CallsOK'
  BY DEF CallsOK, OpNames
<1>3. RowsOK'
  BY DEF CallsOK, RowsOK, Redemption, RedeemCall, ApproveCall, DecideCall
<1>4. GrantsOK'
  BY DEF CallsOK, GrantsOK, DebitOf, Grant, RedeemCall, ApproveCall
<1>5. ChargesOK'
  BY DEF CallsOK, RowsOK, GrantsOK, ChargesOK, Is, Unlinked,
      Grant, Redemption, RedeemCall, ApproveCall, DecideCall
<1>6. GrantLinked'
  BY DEF CallsOK, RowsOK, GrantsOK, GrantLinked, Debits, DebitOf, Grant,
      Redemption, RedeemCall, ApproveCall, DecideCall
<1> QED
  BY <1>1, <1>2, <1>3, <1>4, <1>5, <1>6

\* An approval copies the member and the points of the row it will charge for.
LEMMA BeginApproveInv ==
    ASSUME Inv, NEW r \in Requests, NEW x \in Requests,
           BeginApprove(r, x)
    PROVE  Inv'
<1> USE SetsAssumption, NoneAssumption DEF Inv, Accounted, TypeOK, BeginApprove, Arrive, Goto, Is, Charging
<1>1. TypeOK'
  BY DEF catalog, Reward, Adjustment, Grant, Redemption, Status, RedeemCall, ApproveCall, DecideCall,
      Busy, Finished, OpNames
<1>2. CallsOK'
  BY DEF CallsOK, OpNames
<1>3. RowsOK'
  BY DEF CallsOK, RowsOK, Redemption, RedeemCall, ApproveCall, DecideCall
<1>4. GrantsOK'
  BY DEF CallsOK, GrantsOK, DebitOf, Grant, RedeemCall, ApproveCall
<1>5. ChargesOK'
  BY DEF CallsOK, RowsOK, GrantsOK, ChargesOK, Is, Unlinked,
      Grant, Redemption, RedeemCall, ApproveCall, DecideCall
<1>6. GrantLinked'
  BY DEF CallsOK, RowsOK, GrantsOK, GrantLinked, Debits, DebitOf, Grant,
      Redemption, RedeemCall, ApproveCall, DecideCall
<1> QED
  BY <1>1, <1>2, <1>3, <1>4, <1>5, <1>6

\* A fulfilment begins on an approved row, so on one that is linked or being bought.
LEMMA BeginDecideInv ==
    ASSUME Inv, NEW r \in Requests, NEW x \in Requests,
           BeginDecline(r, x) \/ BeginFulfill(r, x)
    PROVE  Inv'
<1> USE SetsAssumption, NoneAssumption DEF Inv, Accounted, TypeOK, BeginDecline, BeginFulfill, Arrive, Goto, Is, Charging
<1>1. TypeOK'
  BY DEF catalog, Reward, Adjustment, Grant, Redemption, Status, RedeemCall, ApproveCall, DecideCall,
      Busy, Finished, OpNames
<1>2. CallsOK'
  BY DEF CallsOK, OpNames
<1>3. RowsOK'
  BY DEF CallsOK, RowsOK, Redemption, RedeemCall, ApproveCall, DecideCall
<1>4. GrantsOK'
  BY DEF CallsOK, GrantsOK, DebitOf, Grant, RedeemCall, ApproveCall
<1>5. ChargesOK'
  BY DEF CallsOK, RowsOK, GrantsOK, ChargesOK, Is, Unlinked,
      Grant, Redemption, RedeemCall, ApproveCall, DecideCall
<1>6. GrantLinked'
  BY DEF CallsOK, RowsOK, GrantsOK, GrantLinked, Debits, DebitOf, Grant,
      Redemption, RedeemCall, ApproveCall, DecideCall
<1> QED
  BY <1>1, <1>2, <1>3, <1>4, <1>5, <1>6

\* The points are only written before the row exists and before any debit.
LEMMA EffectiveCostForInv ==
    ASSUME Inv, NEW r \in Requests,
           EffectiveCostFor(r)
    PROVE  Inv'
<1> USE SetsAssumption, NoneAssumption DEF Inv, Accounted, TypeOK, EffectiveCostFor, Goto, Charging
<1>0. call[r] \in RedeemCall
  BY DEF CallsOK
<1>p. PriceOf(call[r].base, ActiveDeltas(call[r].member, call[r].reward)) \in Nat
  <2> DEFINE active == {a \in Adjustments : /\ adjustments[a] # None
                                            /\ adjustments[a].member = call[r].member
                                            /\ adjustments[a].reward = call[r].reward
                                            /\ ~adjustments[a].expired}
  <2>1. ActiveDeltas(call[r].member, call[r].reward) \in [active -> Deltas]
    BY DEF ActiveDeltas, Adjustment
  <2>2. active \in SUBSET Adjustments /\ call[r].base \in Costs
    BY <1>0 DEF RedeemCall
  <2> QED
    BY <2>1, <2>2, PriceAssumption
<1>1. TypeOK'
  BY <1>0, <1>p DEF catalog, CallsOK, Reward, Adjustment, Grant, Redemption, Status, RedeemCall, ApproveCall, DecideCall,
      Busy, Finished, OpNames
<1>2. CallsOK'
  BY DEF CallsOK, OpNames
<1>3. RowsOK'
  BY DEF CallsOK, RowsOK, Redemption, RedeemCall, ApproveCall, DecideCall
<1>4. GrantsOK'
  BY DEF CallsOK, GrantsOK, DebitOf, Grant, RedeemCall, ApproveCall
<1>5. ChargesOK'
  BY DEF CallsOK, RowsOK, GrantsOK, ChargesOK, Is, Unlinked,
      Grant, Redemption, RedeemCall, ApproveCall, DecideCall
<1>6. GrantLinked'
  BY DEF CallsOK, RowsOK, GrantsOK, GrantLinked, Debits, DebitOf, Grant,
      Redemption, RedeemCall, ApproveCall, DecideCall
<1> QED
  BY <1>1, <1>2, <1>3, <1>4, <1>5, <1>6

\* Only the position of the request changes.
LEMMA CheckBalanceInv ==
    ASSUME Inv, NEW r \in Requests,
           CheckBalance(r)
    PROVE  Inv'
<1> USE SetsAssumption, NoneAssumption DEF Inv, Accounted, TypeOK, CheckBalance, Goto, Charging
<1>1. TypeOK'
  BY DEF catalog, Reward, Adjustment, Grant, Redemption, Status, RedeemCall, ApproveCall, DecideCall,
      Busy, Finished, OpNames
<1>2. CallsOK'
  BY DEF CallsOK, OpNames
<1>3. RowsOK'
  BY DEF CallsOK, RowsOK, Redemption, RedeemCall, ApproveCall, DecideCall
<1>4. GrantsOK'
  BY DEF CallsOK, GrantsOK, DebitOf, Grant, RedeemCall, ApproveCall
<1>5. ChargesOK'
  BY DEF CallsOK, RowsOK, GrantsOK, ChargesOK, Is, Unlinked,
      Grant, Redemption, RedeemCall, ApproveCall, DecideCall
<1>6. GrantLinked'
  BY DEF CallsOK, RowsOK, GrantsOK, GrantLinked, Debits, DebitOf, Grant,
      Redemption, RedeemCall, ApproveCall, DecideCall
<1> QED
  BY <1>1, <1>2, <1>3, <1>4, <1>5, <1>6

\* Nobody else can have read the new row.
LEMMA CreateRedemptionInv ==
    ASSUME Inv, NEW r \in Requests,
           CreateRedemption(r)
    PROVE  Inv'
<1> USE SetsAssumption, NoneAssumption DEF Inv, Accounted, TypeOK, Charging
<1> DEFINE x == r
           row == [member |-> call[r].member, reward |-> call[r].reward,
                   points |-> call[r].points,
                   status |-> IF call[r].kind = "self_serve" THEN "approved" ELSE "pending",
                   grant |-> None]
<1>1. /\ x \in Requests /\ redemptions[x] = None
      /\ pc[r] = "create" /\ op[r] = "redeem" /\ call[r] \in RedeemCall
  BY DEF CallsOK, RowsOK, CreateRedemption
<1>2. row \in Redemption /\ row # None
      /\ row.member = call[r].member /\ row.points = call[r].points
      /\ row.grant = None
      /\ row.status = IF call[r].kind = "self_serve" THEN "approved" ELSE "pending"
  BY <1>1 DEF Redemption, Status, RedeemCall
<1>3. /\ redemptions' \in [Requests -> Redemption \cup {None}]
      /\ redemptions'[x] = row
      /\ \A y \in Requests \ {x} : redemptions'[y] = redemptions[y]
  BY <1>1, <1>2 DEF CreateRedemption
<1>4. /\ pc' = [pc EXCEPT ![r] = IF call[r].kind = "self_serve" THEN "debit" ELSE "done"]
      /\ UNCHANGED <<rewards, adjustments, grants, op, call>>
  BY DEF CreateRedemption, Goto, catalog
<1> HIDE DEF row
<1>5. TypeOK'
  BY <1>3, <1>4 DEF Busy, Finished
<1>6. CallsOK'
  BY <1>1, <1>4 DEF CallsOK
<1>7. RowsOK'
  BY <1>1, <1>2, <1>3, <1>4 DEF CallsOK, RowsOK, RedeemCall, ApproveCall, DecideCall
<1>8. GrantsOK'
  BY <1>1, <1>4 DEF CallsOK, GrantsOK, DebitOf, Grant
<1>9. ChargesOK'
  BY <1>1, <1>2, <1>3, <1>4
  DEF CallsOK, RowsOK, GrantsOK, ChargesOK, Is, Unlinked, Grant, RedeemCall, ApproveCall,
      DecideCall
<1>10. GrantLinked'
  BY <1>1, <1>2, <1>3, <1>4
  DEF CallsOK, RowsOK, GrantsOK, GrantLinked, Debits, DebitOf, Grant
<1> QED
  BY <1>5, <1>6, <1>7, <1>8, <1>9, <1>10

\* The debit is the request's own, for the row it has read.
LEMMA DebitGrantInv ==
    ASSUME Inv, NEW r \in Requests,
           DebitGrant(r)
    PROVE  Inv'
<1> USE SetsAssumption, NoneAssumption DEF Inv, Accounted, TypeOK, DebitGrant, Goto, Charging
<1>0. call[r].member \in Members /\ call[r].points \in Nat
  BY DEF CallsOK, RedeemCall, ApproveCall
<1>1. TypeOK'
  BY <1>0 DEF catalog, Grant, Busy
<1>2. CallsOK'
  BY DEF CallsOK, OpNames
<1>3. RowsOK'
  BY DEF CallsOK, RowsOK, Redemption, RedeemCall, ApproveCall, DecideCall
<1>4. GrantsOK'
  BY DEF CallsOK, GrantsOK, DebitOf, Grant, RedeemCall, ApproveCall
<1>5. ChargesOK'
  BY DEF CallsOK, RowsOK, GrantsOK, ChargesOK, Is, Unlinked,
      Grant, Redemption, RedeemCall, ApproveCall, DecideCall
<1>6. GrantLinked'
  BY DEF CallsOK, RowsOK, GrantsOK, GrantLinked, Debits, DebitOf, Grant,
      Redemption, RedeemCall, ApproveCall, DecideCall
<1> QED
  BY <1>1, <1>2, <1>3, <1>4, <1>5, <1>6

\* The row is linked to the debit that was just written; its member and points
\* are still the ones that were charged.
LEMMA LinkGrantInv ==
    ASSUME Inv, NEW r \in Requests,
           LinkGrant(r)
    PROVE  Inv'
<1> USE SetsAssumption, NoneAssumption DEF Inv, Accounted, TypeOK, Charging
<1> DEFINE x == call[r].red
           row == [redemptions[x] EXCEPT !.status = "approved", !.grant = r]
<1>1. /\ x \in Requests /\ redemptions[x] \in Redemption
      /\ pc[r] = "link"
  BY DEF CallsOK, RowsOK, RedeemCall, ApproveCall, DecideCall, LinkGrant
<1>2. row \in Redemption /\ row # None
      /\ row.member = redemptions[x].member /\ row.points = redemptions[x].points
      /\ row.status = "approved" /\ row.grant = r
  BY <1>1 DEF Redemption, Status
<1>3. /\ redemptions' \in [Requests -> Redemption \cup {None}]
      /\ redemptions'[x] = row
      /\ \A y \in Requests \ {x} : redemptions'[y] = redemptions[y]
  BY <1>1, <1>2 DEF LinkGrant
<1>4. /\ pc' = [pc EXCEPT ![r] = "done"]
      /\ UNCHANGED <<rewards, adjustments, grants, op, call>>
  BY DEF LinkGrant, Goto, catalog
<1> HIDE DEF row
<1>5. TypeOK'
  BY <1>3, <1>4 DEF Busy, Finished
<1>6. CallsOK'
  BY <1>1, <1>4 DEF CallsOK
<1>7. RowsOK'
  BY <1>1, <1>2, <1>3, <1>4 DEF CallsOK, RowsOK, RedeemCall, ApproveCall, DecideCall
<1>8. GrantsOK'
  BY <1>1, <1>4 DEF CallsOK, GrantsOK, DebitOf, Grant
<1>9. ChargesOK'
  BY <1>1, <1>2, <1>3, <1>4
  DEF CallsOK, RowsOK, GrantsOK, ChargesOK, Is, Unlinked, Grant, RedeemCall, ApproveCall,
      DecideCall
<1>10. GrantLinked'
  BY <1>1, <1>2, <1>3, <1>4
  DEF CallsOK, RowsOK, GrantsOK, GrantLinked, Debits, DebitOf, Grant
<1> QED
  BY <1>5, <1>6, <1>7, <1>8, <1>9, <1>10

\* Whatever the status was, the row keeps its grant, and it does not become
\* pending; it becomes fulfilled only if it was approved when the request began.
LEMMA SetRedemptionStatusInv ==
    ASSUME Inv, NEW r \in Requests,
           SetRedemptionStatus(r)
    PROVE  Inv'
<1> USE SetsAssumption, NoneAssumption DEF Inv, Accounted, TypeOK, Charging
<1> DEFINE x == call[r].red
           row == [redemptions[x] EXCEPT !.status = call[r].to]
<1>1. /\ x \in Requests /\ redemptions[x] \in Redemption
      /\ pc[r] = "decide"
      /\ \/ op[r] = "decline" /\ call[r].to = "declined"
         \/ op[r] = "fulfill" /\ call[r].to = "fulfilled"
  BY DEF CallsOK, RowsOK, RedeemCall, ApproveCall, DecideCall, SetRedemptionStatus
<1>2. row \in Redemption /\ row # None
      /\ row.member = redemptions[x].member /\ row.points = redemptions[x].points
      /\ row.status = call[r].to /\ row.grant = redemptions[x].grant
  BY <1>1 DEF Redemption, Status
<1>3. /\ redemptions' \in [Requests -> Redemption \cup {None}]
      /\ redemptions'[x] = row
      /\ \A y \in Requests \ {x} : redemptions'[y] = redemptions[y]
  BY <1>1, <1>2 DEF SetRedemptionStatus
<1>4. /\ pc' = [pc EXCEPT ![r] = "done"]
      /\ UNCHANGED <<rewards, adjustments, grants, op, call>>
  BY DEF SetRedemptionStatus, Goto, catalog
<1> HIDE DEF row
<1>5. TypeOK'
  BY <1>3, <1>4 DEF Busy, Finished
<1>6. CallsOK'
  BY <1>1, <1>4 DEF CallsOK
<1>7. RowsOK'
  BY <1>1, <1>2, <1>3, <1>4 DEF CallsOK, RowsOK, RedeemCall, ApproveCall, DecideCall
<1>8. GrantsOK'
  BY <1>1, <1>4 DEF CallsOK, GrantsOK, DebitOf, Grant
<1>9. ChargesOK'
  BY <1>1, <1>2, <1>3, <1>4
  DEF CallsOK, RowsOK, GrantsOK, ChargesOK, Is, Unlinked, Grant, RedeemCall, ApproveCall,
      DecideCall
<1>10. GrantLinked'
  BY <1>1, <1>2, <1>3, <1>4
  DEF CallsOK, RowsOK, GrantsOK, GrantLinked, Debits, DebitOf, Grant
<1> QED
  BY <1>5, <1>6, <1>7, <1>8, <1>9, <1>10

\* A request that stops leaves the rows as they are.
LEMMA FailInv ==
    ASSUME Inv, NEW r \in Requests,
           Fail(r)
    PROVE  Inv'
<1> USE SetsAssumption, NoneAssumption DEF Inv, Accounted, TypeOK, Fail, Goto, Charging
<1>1. TypeOK'
  BY DEF catalog, Reward, Adjustment, Grant, Redemption, Status, RedeemCall, ApproveCall, DecideCall,
      Busy, Finished, OpNames
<1>2. CallsOK'
  BY DEF CallsOK, OpNames
<1>3. RowsOK'
  BY DEF CallsOK, RowsOK, Redemption, RedeemCall, ApproveCall, DecideCall
<1>4. GrantsOK'
  BY DEF CallsOK, GrantsOK, DebitOf, Grant, RedeemCall, ApproveCall
<1>5. ChargesOK'
  BY DEF CallsOK, RowsOK, GrantsOK, ChargesOK, Is, Unlinked,
      Grant, Redemption, RedeemCall, ApproveCall, DecideCall
<1>6. GrantLinked'
  BY DEF CallsOK, RowsOK, GrantsOK, GrantLinked, Debits, DebitOf, Grant,
      Redemption, RedeemCall, ApproveCall, DecideCall
<1> QED
  BY <1>1, <1>2, <1>3, <1>4, <1>5, <1>6

\* Every step keeps the invariant.
LEMMA NextInv == Inv /\ [Next]_vars => Inv'
<1> SUFFICES ASSUME Inv, [Next]_vars PROVE Inv'
  OBVIOUS
<1>1. CASE Configure
  BY <1>1, ConfigureInv
<1>2. ASSUME NEW r \in Requests, Begin(r) PROVE Inv'
  BY <1>2, GrantPointsInv, BeginRedeemInv, BeginApproveInv, BeginDecideInv DEF Begin
<1>3. ASSUME NEW r \in Requests, Step(r) PROVE Inv'
  BY <1>3, EffectiveCostForInv, CheckBalanceInv, CreateRedemptionInv, DebitGrantInv,
     LinkGrantInv, SetRedemptionStatusInv DEF Step
<1>4. ASSUME NEW r \in Requests, Fail(r) PROVE Inv'
  BY <1>4, FailInv
<1>5. CASE UNCHANGED vars
  BY <1>5 DEF vars, catalog, Inv, Accounted, TypeOK, CallsOK, RowsOK, GrantsOK, ChargesOK,
              GrantLinked, Debits, DebitOf, Charging, Is, Unlinked
<1> QED
  BY <1>1, <1>2, <1>3, <1>4, <1>5 DEF Next

\* The inductive invariant holds in every reachable state.
THEOREM AccountedHolds == Spec => []Inv
<1> QED
  BY InitInv, NextInv, PTL DEF Spec

\* The tables and the requests' local variables keep their types; in particular a
\* price never goes below zero, whatever the cost adjustments.
THEOREM TypeCorrect == Spec => []TypeOK
<1> QED
  BY AccountedHolds, PTL DEF Inv

\* Whatever requests, edits and failures interleave, the grant a redemption names
\* is a debit of its own member over the points recorded at the request.
THEOREM GrantLinkedHolds == Spec => []GrantLinked
<1> QED
  BY AccountedHolds, PTL DEF Inv, Accounted

\* When every request about a redemption has ended normally, a pending one has
\* cost nothing and an approved or fulfilled one names the grant that paid.
THEOREM SettledIsChargedHolds == Spec => []SettledIsCharged
<1>1. Inv => SettledIsCharged
  <2> SUFFICES ASSUME Inv, NEW x \in Requests, redemptions[x] # None,
                      \A r \in About(x) : pc[r] = "done"
               PROVE  /\ Is(x, "pending") => Debits(x) = {}
                      /\ Is(x, "approved") \/ Is(x, "fulfilled") => redemptions[x].grant # None
    BY DEF SettledIsCharged
  <2>1. x \in About(x)
    BY DEF Inv, Accounted, RowsOK, CallsOK, About, OpNames
  <2>2. ASSUME NEW g \in Debits(x) PROVE ~Is(x, "pending")
    <3>1. g.by \in About(x)
      BY DEF Debits, About, Charging, OpNames, Inv, TypeOK, Grant
    <3> QED
      BY <3>1 DEF Debits, Inv, Accounted, ChargesOK
  <2>3. Is(x, "approved") \/ Is(x, "fulfilled") => redemptions[x].grant # None
    BY <2>1 DEF Inv, Accounted, ChargesOK, Unlinked
  <2> QED
    BY <2>2, <2>3
<1> QED
  BY <1>1, AccountedHolds, PTL
=============================================================================
