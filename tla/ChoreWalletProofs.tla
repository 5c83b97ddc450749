-------------------------- MODULE ChoreWalletProofs --------------------------
(***************************************************************************)
(* Proofs about ChoreWallet for every household: any members, chores,      *)
(* dates, tasks and requests, any prices, with and without failures.       *)
(*                                                                         *)
(* Inv is the inductive invariant: the types, and ExactlyOnce.  One lemma  *)
(* per action shows that the action preserves it; the theorems about the   *)
(* specification follow.  PaidDays, on top of it, counts the payouts of a  *)
(* day, and the sum of the posted rows is taken with FiniteFacts.          *)
(***************************************************************************)
EXTENDS ChoreWallet, FiniteFacts

Inv == TypeOK /\ ExactlyOnce

USE SetsAssumption, TablesAssumption, PriceAssumption
    DEF tables, money, Goto, At, CreditSteps, Busy, Finished

\* ListChores returns a member's active chores with settings of the table: what
\* PriceCompletion divides by and the batch walks over.
LEMMA ActiveChoresType ==
    ASSUME TypeOK, NEW m
    PROVE  ActiveChores(m) \in Siblings
<1> DEFINE S == {c \in Chores : ChoreMember[c] = m /\ chores[c].status = "active"}
<1>1. S \in SUBSET Chores
  OBVIOUS
<1>2. ActiveChores(m) \in [S -> Settings]
  BY DEF ActiveChores, TypeOK
<1> HIDE DEF S
<1> QED
  BY <1>1, <1>2 DEF Siblings

\* GetOrCreateWallet preserves the invariant.
LEMMA GetOrCreateWalletInv ==
    ASSUME NEW r \in Requests, Inv, GetOrCreateWallet(r)
    PROVE  Inv'
<1> USE DEF Inv, ExactlyOnce, GetOrCreateWallet
<1>1. entry[r] \in Row /\ entry[r].by = r
  BY DEF EntriesOK
<1>2. entry[r].member \in Members /\ entry[r].amount \in Int
  BY <1>1 DEF Row
<1>3. TypeOK'
  BY <1>1, <1>2 DEF TypeOK, CallsOK, EntriesOK, BatchOK
<1>4. CallsOK'
  BY <1>1, <1>2 DEF TypeOK, CallsOK
<1>5. EntriesOK'
  BY <1>1, <1>2 DEF TypeOK, CallsOK, EntriesOK, BatchOK, SingleCredit
<1>6. SingleCredit'
  BY <1>1, <1>2 DEF TypeOK, CallsOK, EntriesOK, SingleCredit
<1>7. BatchOK'
  BY <1>1, <1>2 DEF TypeOK, CallsOK, EntriesOK, BatchOK, SingleCredit
<1>8. TasksOK'
  BY <1>1, <1>2 DEF TypeOK, CallsOK, EntriesOK, SingleCredit, TasksOK
<1> QED
  BY <1>3, <1>4, <1>5, <1>6, <1>7, <1>8

\* CreateWalletTransaction preserves the invariant.
LEMMA CreateWalletTransactionInv ==
    ASSUME NEW r \in Requests, Inv, CreateWalletTransaction(r)
    PROVE  Inv'
<1> USE DEF Inv, ExactlyOnce, CreateWalletTransaction, PayoutIndexAdmits
<1>1. entry[r] \in Row /\ entry[r].by = r
  BY DEF EntriesOK
<1>2. pc[r] = "txn" /\ pc' \in [Requests -> {"new"} \cup Busy \cup Finished] /\ pc' = [pc EXCEPT ![r] = pc'[r]] /\ pc'[r] \in {"adjust", "failed"}
  BY DEF TypeOK
<1>3. ledger' \subseteq ledger \cup {entry[r]} /\ ledger \subseteq ledger'
  OBVIOUS
<1>4. TypeOK'
  BY <1>1, <1>2, <1>3 DEF TypeOK, CallsOK, EntriesOK, BatchOK
<1>5. CallsOK'
  BY <1>1, <1>2, <1>3 DEF TypeOK, CallsOK
<1>6. EntriesOK'
  BY <1>1, <1>2, <1>3 DEF TypeOK, CallsOK, EntriesOK, BatchOK, SingleCredit
<1>7. SingleCredit'
  <2>1. SUFFICES ASSUME NEW e \in ledger'
                 PROVE  /\ pc'[e.by] \notin {"new", "allowance", "siblings", "insert", "refetch"}
                        /\ op[e.by] # "batch" => e = entry[e.by]
    BY DEF SingleCredit
  <2>2. CASE e = entry[r]
    BY <1>1, <1>2, <2>2
  <2>3. CASE e \in ledger /\ e # entry[r]
    BY <1>2, <2>3 DEF SingleCredit, TypeOK, Row
  <2> QED
    BY <1>3, <2>1, <2>2, <2>3
<1>8. BatchOK'
  BY <1>1, <1>2, <1>3 DEF TypeOK, CallsOK, EntriesOK, BatchOK, SingleCredit
<1>9. TasksOK'
  BY <1>1, <1>2, <1>3 DEF TypeOK, CallsOK, EntriesOK, SingleCredit, TasksOK
<1> QED
  BY <1>4, <1>5, <1>6, <1>7, <1>8, <1>9

\* AdjustWalletBalance preserves the invariant.
LEMMA AdjustWalletBalanceInv ==
    ASSUME NEW r \in Requests, Inv, AdjustWalletBalance(r)
    PROVE  Inv'
<1> USE DEF Inv, ExactlyOnce, AdjustWalletBalance
<1>1. entry[r] \in Row /\ entry[r].by = r
  BY DEF EntriesOK
<1>2. entry[r].member \in Members /\ entry[r].amount \in Int
  BY <1>1 DEF Row
<1>3. AfterCredit(op[r]) \in {"delete", "bonus", "done"}
  BY DEF AfterCredit
<1>4. /\ AfterCredit(op[r]) = "delete" => op[r] = "undo"
      /\ AfterCredit(op[r]) = "bonus" <=> op[r] = "batch"
  BY DEF AfterCredit, TypeOK, OpNames
<1>5. TypeOK'
  <2>1. balance' \in [Members -> Int]
    BY <1>2 DEF TypeOK
  <2>2. pc' \in [Requests -> {"new"} \cup Busy \cup Finished]
    BY <1>3 DEF TypeOK
  <2> QED
    BY <2>1, <2>2 DEF TypeOK
<1>6. CallsOK'
  BY <1>1, <1>2, <1>3, <1>4 DEF TypeOK, CallsOK
<1>7. EntriesOK'
  BY <1>1, <1>2, <1>3, <1>4 DEF TypeOK, CallsOK, EntriesOK, BatchOK, SingleCredit
<1>8. SingleCredit'
  BY <1>1, <1>2, <1>3, <1>4 DEF TypeOK, CallsOK, EntriesOK, SingleCredit
<1>9. BatchOK'
  BY <1>1, <1>2, <1>3, <1>4 DEF TypeOK, CallsOK, EntriesOK, BatchOK, SingleCredit
<1>10. TasksOK'
  BY <1>1, <1>2, <1>3, <1>4 DEF TypeOK, CallsOK, EntriesOK, SingleCredit, TasksOK
<1> QED
  BY <1>5, <1>6, <1>7, <1>8, <1>9, <1>10

\* GetActiveAllowance preserves the invariant.
LEMMA GetActiveAllowanceInv ==
    ASSUME NEW r \in Requests, Inv, GetActiveAllowance(r)
    PROVE  Inv'
<1> USE DEF Inv, ExactlyOnce, GetActiveAllowance
<1>1. call[r] \in CompleteCall
  BY DEF CallsOK
<1>2. call' \in [Requests -> CompleteCall \cup UndoCall \cup ApproveCall \cup BatchCall \cup {None}]
       /\ call'[r] \in CompleteCall /\ \A s \in Requests \ {r} : call'[s] = call[s]
  <2>1. PICK a \in Allowances \cup {0} : call' = [call EXCEPT ![r].allowance = a]
    BY <1>1 DEF TypeOK, CompleteCall
  <2>2. [call[r] EXCEPT !.allowance = a] \in CompleteCall
    BY <1>1 DEF CompleteCall
  <2>3. call' = [call EXCEPT ![r] = [call[r] EXCEPT !.allowance = a]]
    BY <2>1
  <2> QED
    BY <2>2, <2>3 DEF TypeOK
<1>3. TypeOK'
  BY <1>1, <1>2 DEF TypeOK, CallsOK, EntriesOK, BatchOK
<1>4. CallsOK'
  BY <1>1, <1>2 DEF TypeOK, CallsOK
<1>5. EntriesOK'
  BY <1>1, <1>2 DEF TypeOK, CallsOK, EntriesOK, BatchOK, SingleCredit
<1>6. SingleCredit'
  BY <1>1, <1>2 DEF TypeOK, CallsOK, EntriesOK, SingleCredit
<1>7. BatchOK'
  BY <1>1, <1>2 DEF TypeOK, CallsOK, EntriesOK, BatchOK, SingleCredit
<1>8. TasksOK'
  BY <1>1, <1>2 DEF TypeOK, CallsOK, EntriesOK, SingleCredit, TasksOK
<1> QED
  BY <1>3, <1>4, <1>5, <1>6, <1>7, <1>8

\* PriceCompletion preserves the invariant.
LEMMA PriceCompletionInv ==
    ASSUME NEW r \in Requests, Inv, PriceCompletion(r)
    PROVE  Inv'
<1> USE DEF Inv, ExactlyOnce, PriceCompletion
<1>1. call[r] \in CompleteCall
  BY DEF CallsOK
<1>2. call' \in [Requests -> CompleteCall \cup UndoCall \cup ApproveCall \cup BatchCall \cup {None}]
       /\ call'[r] \in CompleteCall /\ \A s \in Requests \ {r} : call'[s] = call[s]
  <2> DEFINE p == PayoutCents(call[r].allowance, call[r].weight,
                              ActiveChores(ChoreMember[call[r].chore]))
  <2>1. ActiveChores(ChoreMember[call[r].chore]) \in Siblings
    BY ActiveChoresType
  <2>a. call[r].allowance \in Allowances \cup {0} /\ call[r].weight \in Weights
    BY <1>1 DEF CompleteCall
  <2>b. \A a \in Allowances \cup {0}, w \in Weights, f \in Siblings : PayoutCents(a, w, f) \in Payouts
    <3> SUFFICES ASSUME NEW a \in Allowances \cup {0}, NEW w \in Weights, NEW f \in Siblings
                 PROVE  PayoutCents(a, w, f) \in Payouts
      OBVIOUS
    <3>1. PayoutCents(a, w, f) \in
             {PayoutCents(b, v, g) : b \in Allowances \cup {0}, v \in Weights, g \in Siblings}
      OBVIOUS
    <3> QED
      BY <3>1 DEF Payouts
  <2>2. p \in Payouts
    BY <2>1, <2>a, <2>b, Zenon
  <2> HIDE DEF p
  <2>3. [call[r] EXCEPT !.payout = p] \in CompleteCall
    BY <1>1, <2>2 DEF CompleteCall
  <2>4. call' = [call EXCEPT ![r] = [call[r] EXCEPT !.payout = p]]
    BY DEF p
  <2> QED
    BY <2>3, <2>4 DEF TypeOK
<1>3. TypeOK'
  BY <1>1, <1>2 DEF TypeOK, CallsOK, EntriesOK, BatchOK
<1>4. CallsOK'
  BY <1>1, <1>2 DEF TypeOK, CallsOK
<1>5. EntriesOK'
  BY <1>1, <1>2 DEF TypeOK, CallsOK, EntriesOK, BatchOK, SingleCredit
<1>6. SingleCredit'
  BY <1>1, <1>2 DEF TypeOK, CallsOK, EntriesOK, SingleCredit
<1>7. BatchOK'
  BY <1>1, <1>2 DEF TypeOK, CallsOK, EntriesOK, BatchOK, SingleCredit
<1>8. TasksOK'
  BY <1>1, <1>2 DEF TypeOK, CallsOK, EntriesOK, SingleCredit, TasksOK
<1> QED
  BY <1>3, <1>4, <1>5, <1>6, <1>7, <1>8

\* InsertCompletion preserves the invariant.
LEMMA InsertCompletionInv ==
    ASSUME NEW r \in Requests, Inv, InsertCompletion(r)
    PROVE  Inv'
<1> USE DEF Inv, ExactlyOnce, InsertCompletion
<1>1. call[r] \in CompleteCall
  BY DEF CallsOK
<1>2. call[r].payout \in Nat /\ ChoreMember[call[r].chore] \in Members
  BY <1>1 DEF CompleteCall
<1>3. Entry(r, ChoreMember[call[r].chore], call[r].payout, "chore_payout", r) \in Row
  BY <1>2 DEF Entry, Row, Kinds
<1>4. \A e \in ledger : e.by # r
  BY DEF SingleCredit
<1>5. \/ entry' = entry /\ pc' = [pc EXCEPT ![r] = "done"]
      \/ /\ pc' = [pc EXCEPT ![r] = "wallet"]
         /\ entry' = [entry EXCEPT ![r] =
              Entry(r, ChoreMember[call[r].chore], call[r].payout, "chore_payout", r)]
  OBVIOUS
<1>6. TypeOK'
  <2>1. [id |-> r, chore |-> call[r].chore, date |-> call[r].date, approved |-> call[r].auto,
         payout |-> call[r].payout, closed |-> FALSE] \in Completion
    BY <1>1 DEF Completion, CompleteCall
  <2>2. completions' \subseteq Completion
    BY <2>1 DEF TypeOK
  <2> QED
    BY <1>3, <1>5, <2>2 DEF TypeOK
<1>7. CallsOK'
  BY <1>1, <1>2, <1>3, <1>4, <1>5 DEF TypeOK, CallsOK
<1>8. EntriesOK'
  BY <1>3, <1>4, <1>5 DEF TypeOK, CallsOK, EntriesOK, Entry
<1>9. SingleCredit'
  BY <1>4, <1>5 DEF TypeOK, SingleCredit, Row
<1>10. BatchOK'
  BY <1>1, <1>2, <1>3, <1>4, <1>5 DEF TypeOK, CallsOK, EntriesOK, BatchOK, SingleCredit
<1>11. TasksOK'
  BY <1>1, <1>2, <1>3, <1>4, <1>5 DEF TypeOK, CallsOK, EntriesOK, SingleCredit, TasksOK
<1> QED
  BY <1>6, <1>7, <1>8, <1>9, <1>10, <1>11

\* CompletionConflicts preserves the invariant.
LEMMA CompletionConflictsInv ==
    ASSUME NEW r \in Requests, Inv, CompletionConflicts(r)
    PROVE  Inv'
<1> USE DEF Inv, ExactlyOnce, CompletionConflicts
<1>1. TypeOK'
  BY DEF TypeOK, CallsOK, EntriesOK, BatchOK
<1>2. CallsOK'
  BY DEF TypeOK, CallsOK
<1>3. EntriesOK'
  BY DEF TypeOK, CallsOK, EntriesOK, BatchOK, SingleCredit
<1>4. SingleCredit'
  BY DEF TypeOK, CallsOK, EntriesOK, SingleCredit
<1>5. BatchOK'
  BY DEF TypeOK, CallsOK, EntriesOK, BatchOK, SingleCredit
<1>6. TasksOK'
  BY DEF TypeOK, CallsOK, EntriesOK, SingleCredit, TasksOK
<1> QED
  BY <1>1, <1>2, <1>3, <1>4, <1>5, <1>6

\* RefetchCompletion preserves the invariant.
LEMMA RefetchCompletionInv ==
    ASSUME NEW r \in Requests, Inv, RefetchCompletion(r)
    PROVE  Inv'
<1> USE DEF Inv, ExactlyOnce, RefetchCompletion
<1>1. TypeOK'
  BY DEF TypeOK, CallsOK, EntriesOK, BatchOK
<1>2. CallsOK'
  BY DEF TypeOK, CallsOK
<1>3. EntriesOK'
  BY DEF TypeOK, CallsOK, EntriesOK, BatchOK, SingleCredit
<1>4. SingleCredit'
  BY DEF TypeOK, CallsOK, EntriesOK, SingleCredit
<1>5. BatchOK'
  BY DEF TypeOK, CallsOK, EntriesOK, BatchOK, SingleCredit
<1>6. TasksOK'
  BY DEF TypeOK, CallsOK, EntriesOK, SingleCredit, TasksOK
<1> QED
  BY <1>1, <1>2, <1>3, <1>4, <1>5, <1>6

\* DeleteChoreCompletion preserves the invariant.
LEMMA DeleteChoreCompletionInv ==
    ASSUME NEW r \in Requests, Inv, DeleteChoreCompletion(r)
    PROVE  Inv'
<1> USE DEF Inv, ExactlyOnce, DeleteChoreCompletion
<1>1. TypeOK'
  BY DEF TypeOK, CallsOK, EntriesOK, BatchOK
<1>2. CallsOK'
  BY DEF TypeOK, CallsOK
<1>3. EntriesOK'
  BY DEF TypeOK, CallsOK, EntriesOK, BatchOK, SingleCredit
<1>4. SingleCredit'
  BY DEF TypeOK, CallsOK, EntriesOK, SingleCredit
<1>5. BatchOK'
  BY DEF TypeOK, CallsOK, EntriesOK, BatchOK, SingleCredit
<1>6. TasksOK'
  BY DEF TypeOK, CallsOK, EntriesOK, SingleCredit, TasksOK
<1> QED
  BY <1>1, <1>2, <1>3, <1>4, <1>5, <1>6

\* NextMember preserves the invariant.
LEMMA NextMemberInv ==
    ASSUME NEW r \in Requests, Inv, NextMember(r)
    PROVE  Inv'
<1> USE DEF Inv, ExactlyOnce, NextMember
<1>1. call[r] \in BatchCall /\ op[r] = "batch"
  BY DEF CallsOK
<1>2. PICK m \in call[r].left :
        call' = [call EXCEPT ![r].left = @ \ {m}, ![r].who = m, ![r].snap = ActiveChores(m)]
  OBVIOUS
<1> DEFINE k == [left |-> call[r].left \ {m}, who |-> m,
                 snap |-> ActiveChores(m), dues |-> call[r].dues]
<1>3. m \in Members /\ ActiveChores(m) \in Siblings
  BY <1>1, ActiveChoresType DEF BatchCall
<1>4. k \in BatchCall
  BY <1>1, <1>3 DEF BatchCall
<1>5. call' = [call EXCEPT ![r] = k]
  BY <1>1, <1>2 DEF BatchCall
<1>6. /\ k.left = call[r].left \ {m}
      /\ k.who = m
      /\ k.dues = call[r].dues
  OBVIOUS
<1> HIDE DEF k
<1>7. call' \in [Requests -> CompleteCall \cup UndoCall \cup ApproveCall \cup BatchCall \cup {None}]
      /\ call'[r] = k /\ \A s \in Requests \ {r} : call'[s] = call[s]
  BY <1>4, <1>5 DEF TypeOK
<1>8. TypeOK'
  BY <1>7 DEF TypeOK
<1>9. CallsOK'
  BY <1>1, <1>4, <1>7 DEF TypeOK, CallsOK
<1>10. EntriesOK'
  BY <1>1, <1>7 DEF TypeOK, CallsOK, EntriesOK
<1>11. SingleCredit'
  BY <1>1, <1>7 DEF TypeOK, SingleCredit, Row
<1>12. BatchOK'
  <2> SUFFICES ASSUME NEW s \in Requests, op[s] = "batch"
               PROVE  BatchOK!(s)'
    BY DEF BatchOK
  <2>1. CASE s = r
    <3>1. pc[r] = "members" /\ pc'[r] = "completions"
      BY DEF TypeOK
    <3>2. call[r].dues = {} /\ \A e \in ledger : e.by = r => e.member \notin call[r].left
      BY <1>1, <3>1 DEF BatchOK
    <3> QED
      BY <1>3, <1>6, <1>7, <2>1, <3>1, <3>2
  <2>2. CASE s # r
    BY <1>7, <2>2 DEF TypeOK, BatchOK
  <2> QED
    BY <2>1, <2>2
<1>13. TasksOK'
  BY <1>1, <1>7 DEF TypeOK, TasksOK, Row
<1> QED
  BY <1>8, <1>9, <1>10, <1>11, <1>12, <1>13

\* ListWeekCompletions preserves the invariant.
LEMMA ListWeekCompletionsInv ==
    ASSUME NEW r \in Requests, Inv, ListWeekCompletions(r)
    PROVE  Inv'
<1> USE DEF Inv, ExactlyOnce
<1> DEFINE full == {c \in DOMAIN call[r].snap :
                      /\ call[r].snap[c].freq > 0
                      /\ Cardinality(DoneDates(c)) >= call[r].snap[c].freq
                      /\ BonusCents(Earned(c)) > 0}
           dues == {Entry(r, call[r].who, BonusCents(Earned(c)), "streak_bonus", c) : c \in full}
           k == [call[r] EXCEPT !.dues = dues]
<1>1. /\ call[r] \in BatchCall /\ op[r] = "batch" /\ pc[r] = "completions"
      /\ call[r].who \in Members /\ call[r].who \notin call[r].left
  BY DEF CallsOK, BatchOK, ListWeekCompletions
<1>2. /\ call' = [call EXCEPT ![r].dues = dues]
      /\ pc' = [pc EXCEPT ![r] = "bonus"]
      /\ UNCHANGED <<tables, money, op, entry>>
  BY DEF ListWeekCompletions
<1>3. \A c : Earned(c) \in [Week -> Payouts]
  <2> SUFFICES ASSUME NEW c, NEW d \in Week, Find(c, d) # {}
               PROVE  (CHOOSE x \in Find(c, d) : TRUE).payout \in Payouts
    BY DEF Earned, Payouts
  <2>1. (CHOOSE x \in Find(c, d) : TRUE) \in Find(c, d)
    OBVIOUS
  <2> QED
    BY <2>1 DEF Find, TypeOK, Completion
<1>4. \A c : BonusCents(Earned(c)) \in Int
  BY <1>3
<1>5. full \subseteq Chores
  BY <1>1 DEF BatchCall, Siblings
<1>6. \A e \in dues : /\ e \in Row /\ e.by = r
                      /\ e.member = call[r].who
                      /\ e.kind = "streak_bonus"
  <2> SUFFICES ASSUME NEW c \in full
               PROVE  LET e == Entry(r, call[r].who, BonusCents(Earned(c)), "streak_bonus", c)
                      IN  /\ e \in Row /\ e.by = r
                          /\ e.member = call[r].who
                          /\ e.kind = "streak_bonus"
    OBVIOUS
  <2> HIDE DEF full
  <2> QED
    BY <1>1, <1>4, <1>5 DEF Entry, Row, Kinds
<1> HIDE DEF dues, full
<1>7. k \in BatchCall /\ k.left = call[r].left /\ k.who = call[r].who /\ k.dues = dues
  BY <1>1, <1>6 DEF BatchCall
<1>8. call' = [call EXCEPT ![r] = k]
  BY <1>2
<1> HIDE DEF k
<1>9. call' \in [Requests -> CompleteCall \cup UndoCall \cup ApproveCall \cup BatchCall \cup {None}]
      /\ call'[r] = k /\ \A s \in Requests \ {r} : call'[s] = call[s]
  BY <1>7, <1>8 DEF TypeOK
<1>10. TypeOK'
  BY <1>2, <1>9 DEF TypeOK
<1>11. CallsOK'
  BY <1>1, <1>2, <1>7, <1>9 DEF TypeOK, CallsOK
<1>12. EntriesOK'
  BY <1>1, <1>2, <1>9 DEF TypeOK, CallsOK, EntriesOK
<1>13. SingleCredit'
  BY <1>1, <1>2, <1>9 DEF TypeOK, SingleCredit, Row
<1>14. BatchOK'
  <2> SUFFICES ASSUME NEW s \in Requests, op[s] = "batch"
               PROVE  BatchOK!(s)'
    BY <1>2 DEF BatchOK
  <2>1. CASE s = r
    <3>1. \A e \in ledger : e.by = r => e.member # call[r].who
      BY <1>1 DEF BatchOK
    <3>2. \A e \in dues : e \notin ledger
      BY <1>6, <3>1
    <3> QED
      BY <1>1, <1>2, <1>6, <1>7, <1>9, <2>1, <3>2 DEF TypeOK, BatchOK
  <2>2. CASE s # r
    BY <1>2, <1>9, <2>2 DEF TypeOK, BatchOK
  <2> QED
    BY <2>1, <2>2
<1>15. TasksOK'
  BY <1>1, <1>2, <1>9 DEF TypeOK, TasksOK, Row
<1> QED
  BY <1>10, <1>11, <1>12, <1>13, <1>14, <1>15

\* PayStreakBonus preserves the invariant.
LEMMA PayStreakBonusInv ==
    ASSUME NEW r \in Requests, Inv, PayStreakBonus(r)
    PROVE  Inv'
<1> USE DEF Inv, ExactlyOnce
<1>1. call[r] \in BatchCall /\ op[r] = "batch" /\ pc[r] = "bonus"
  BY DEF CallsOK, PayStreakBonus
<1>2. PICK e \in call[r].dues : /\ entry' = [entry EXCEPT ![r] = e]
                                /\ call' = [call EXCEPT ![r].dues = @ \ {e}]
  BY DEF PayStreakBonus
<1>3. pc' = [pc EXCEPT ![r] = "wallet"] /\ UNCHANGED <<tables, money, op>>
  BY DEF PayStreakBonus
<1>4. e \in Row /\ e.by = r /\ e.member = call[r].who /\ e.kind = "streak_bonus" /\ e \notin ledger
  BY <1>1 DEF BatchOK, BatchCall
<1> DEFINE k == [call[r] EXCEPT !.dues = @ \ {e}]
<1>5. /\ k \in BatchCall /\ k.left = call[r].left
      /\ k.who = call[r].who /\ k.dues = call[r].dues \ {e}
  BY <1>1 DEF BatchCall
<1>6. call' = [call EXCEPT ![r] = k]
  BY <1>2
<1> HIDE DEF k
<1>7. call' \in [Requests -> CompleteCall \cup UndoCall \cup ApproveCall \cup BatchCall \cup {None}]
      /\ call'[r] = k /\ \A s \in Requests \ {r} : call'[s] = call[s]
  BY <1>5, <1>6 DEF TypeOK
<1>8. entry' \in [Requests -> Row \cup {None}]
      /\ entry'[r] = e /\ \A s \in Requests \ {r} : entry'[s] = entry[s]
  BY <1>2, <1>4 DEF TypeOK
<1>9. TypeOK'
  BY <1>3, <1>7, <1>8 DEF TypeOK
<1>10. CallsOK'
  BY <1>1, <1>3, <1>5, <1>7 DEF TypeOK, CallsOK
<1>11. EntriesOK'
  BY <1>1, <1>3, <1>4, <1>7, <1>8 DEF TypeOK, EntriesOK
<1>12. SingleCredit'
  BY <1>1, <1>3, <1>8 DEF TypeOK, SingleCredit, Row
<1>13. BatchOK'
  <2> SUFFICES ASSUME NEW s \in Requests, op[s] = "batch"
               PROVE  BatchOK!(s)'
    BY <1>3 DEF BatchOK
  <2>1. CASE s = r
    BY <1>1, <1>3, <1>4, <1>5, <1>7, <1>8, <2>1 DEF TypeOK, BatchOK
  <2>2. CASE s # r
    BY <1>3, <1>7, <1>8, <2>2 DEF TypeOK, BatchOK
  <2> QED
    BY <2>1, <2>2
<1>14. TasksOK'
  <2>1. \A s \in Requests : op[s] = "approve" => call'[s] = call[s]
    BY <1>1, <1>7
  <2>2. \A f \in ledger : f.by \in Requests
    BY DEF TypeOK, Row
  <2> QED
    BY <1>3, <2>1, <2>2 DEF TasksOK
<1> QED
  BY <1>9, <1>10, <1>11, <1>12, <1>13, <1>14

\* CloseWeek preserves the invariant.
LEMMA CloseWeekInv ==
    ASSUME NEW r \in Requests, Inv, CloseWeek(r)
    PROVE  Inv'
<1> USE DEF Inv, ExactlyOnce, CloseWeek
<1>1. TypeOK'
  <2>1. \A x \in Completion : [x EXCEPT !.closed = TRUE] \in Completion
    BY DEF Completion
  <2>2. completions' \subseteq Completion
    BY <2>1 DEF TypeOK
  <2> QED
    BY <2>2 DEF TypeOK
<1>2. CallsOK'
  BY DEF TypeOK, CallsOK
<1>3. EntriesOK'
  BY DEF TypeOK, CallsOK, EntriesOK
<1>4. SingleCredit'
  BY DEF TypeOK, SingleCredit, Row
<1>5. BatchOK'
  BY DEF TypeOK, CallsOK, BatchOK
<1>6. TasksOK'
  BY DEF TypeOK, TasksOK
<1> QED
  BY <1>1, <1>2, <1>3, <1>4, <1>5, <1>6

\* UpsertWeeklySummary preserves the invariant.
LEMMA UpsertWeeklySummaryInv ==
    ASSUME NEW r \in Requests, Inv, UpsertWeeklySummary(r)
    PROVE  Inv'
<1> USE DEF Inv, ExactlyOnce, UpsertWeeklySummary
<1>1. TypeOK'
  BY DEF TypeOK, CallsOK, EntriesOK, BatchOK
<1>2. CallsOK'
  BY DEF TypeOK, CallsOK
<1>3. EntriesOK'
  BY DEF TypeOK, CallsOK, EntriesOK, BatchOK, SingleCredit
<1>4. SingleCredit'
  BY DEF TypeOK, CallsOK, EntriesOK, SingleCredit
<1>5. BatchOK'
  BY DEF TypeOK, CallsOK, EntriesOK, BatchOK, SingleCredit
<1>6. TasksOK'
  BY DEF TypeOK, CallsOK, EntriesOK, SingleCredit, TasksOK
<1> QED
  BY <1>1, <1>2, <1>3, <1>4, <1>5, <1>6

\* EndBatch preserves the invariant.
LEMMA EndBatchInv ==
    ASSUME NEW r \in Requests, Inv, EndBatch(r)
    PROVE  Inv'
<1> USE DEF Inv, ExactlyOnce, EndBatch
<1>1. TypeOK'
  BY DEF TypeOK, CallsOK, EntriesOK, BatchOK
<1>2. CallsOK'
  BY DEF TypeOK, CallsOK
<1>3. EntriesOK'
  BY DEF TypeOK, CallsOK, EntriesOK, BatchOK, SingleCredit
<1>4. SingleCredit'
  BY DEF TypeOK, CallsOK, EntriesOK, SingleCredit
<1>5. BatchOK'
  BY DEF TypeOK, CallsOK, EntriesOK, BatchOK, SingleCredit
<1>6. TasksOK'
  BY DEF TypeOK, CallsOK, EntriesOK, SingleCredit, TasksOK
<1> QED
  BY <1>1, <1>2, <1>3, <1>4, <1>5, <1>6

\* A statement that fails preserves the invariant: the request stands where it
\* stood, with everything before the statement committed.
LEMMA FailInv ==
    ASSUME NEW r \in Requests, Inv, Fail(r)
    PROVE  Inv'
<1> USE DEF Inv, ExactlyOnce
<1>1. /\ pc[r] \in Busy
      /\ pc' = [pc EXCEPT ![r] = IF pc[r] = "adjust" THEN "lost" ELSE "failed"]
      /\ UNCHANGED <<tables, money, op, call, entry>>
  BY DEF Fail
<1>2. /\ pc' \in [Requests -> {"new"} \cup Busy \cup Finished]
      /\ pc'[r] = IF pc[r] = "adjust" THEN "lost" ELSE "failed"
      /\ \A s \in Requests \ {r} : pc'[s] = pc[s]
  BY <1>1 DEF TypeOK
<1>3. TypeOK'
  BY <1>1, <1>2 DEF TypeOK
<1>4. CallsOK'
  BY <1>1, <1>2 DEF CallsOK
<1>5. EntriesOK'
  BY <1>1, <1>2 DEF EntriesOK
<1>6. SingleCredit'
  BY <1>1, <1>2 DEF TypeOK, SingleCredit, Row
<1>7. BatchOK'
  BY <1>1, <1>2 DEF BatchOK
<1>8. TasksOK'
  BY <1>1 DEF TasksOK
<1> QED
  BY <1>3, <1>4, <1>5, <1>6, <1>7, <1>8

\* Configuration preserves the invariant: it moves no money, touches no request
\* and takes no task out of the approved state.
LEMMA ConfigureInv ==
    ASSUME Inv, Configure
    PROVE  Inv'
<1> USE DEF Inv, ExactlyOnce
<1>1. UNCHANGED <<completions, summaries, money, pc, op, call, entry>>
  BY DEF Configure, CreateChore, UpdateChore, ArchiveChore, SetChore, SetAllowance,
         CreateAdHocTask, CompleteAdHocTask, DeclineAdHocTask
<1> DEFINE ChoreTable == [Chores -> [status : {"absent", "active", "archived"}, cfg : Settings]]
<1>2. chores' \in ChoreTable
  <2>1. ASSUME NEW c \in Chores, NEW s \in Settings,
               NEW st \in {"absent", "active", "archived"}, SetChore(c, st, s)
        PROVE  chores' \in ChoreTable
    BY <2>1 DEF SetChore, TypeOK
  <2>2. \A c \in Chores : chores[c].status \in {"absent", "active", "archived"}
                          /\ chores[c].cfg \in Settings
    BY DEF TypeOK
  <2>3. ASSUME NEW c \in Chores, NEW s \in Settings, CreateChore(c, s) \/ UpdateChore(c, s)
        PROVE  chores' \in ChoreTable
    BY <2>1, <2>2, <2>3 DEF CreateChore, UpdateChore
  <2>4. ASSUME NEW c \in Chores, ArchiveChore(c)
        PROVE  chores' \in ChoreTable
    BY <2>1, <2>2, <2>4 DEF ArchiveChore
  <2>5. CASE UNCHANGED chores
    BY <2>5 DEF TypeOK
  <2> QED
    BY <2>3, <2>4, <2>5 DEF Configure, SetAllowance, CreateAdHocTask, CompleteAdHocTask,
                            DeclineAdHocTask
<1>3. allowances' \in [Members -> SUBSET Allowances]
  BY DEF TypeOK, Configure, CreateChore, UpdateChore, ArchiveChore, SetChore, SetAllowance,
         CreateAdHocTask, CompleteAdHocTask, DeclineAdHocTask
<1>4. /\ tasks' \in [Tasks -> TaskStatus]
      /\ \A t \in Tasks : tasks[t] = "approved" => tasks'[t] = "approved"
  BY DEF TypeOK, TaskStatus, SetTask, Configure, CreateChore, UpdateChore, ArchiveChore,
         SetChore, SetAllowance, CreateAdHocTask, CompleteAdHocTask, DeclineAdHocTask
<1>5. TypeOK'
  BY <1>1, <1>2, <1>3, <1>4 DEF TypeOK
<1>6. CallsOK' /\ EntriesOK' /\ SingleCredit' /\ BatchOK'
  BY <1>1 DEF CallsOK, EntriesOK, SingleCredit, BatchOK
<1>7. TasksOK'
  BY <1>1, <1>4 DEF TasksOK, CallsOK, ApproveCall
<1> QED
  BY <1>5, <1>6, <1>7

\* A request that arrives preserves the invariant: it has written no ledger row
\* yet, so the row it is about to credit, if any, is new; and a task it approves
\* was pending, so that no earlier request approved it.
LEMMA ArriveInv ==
    ASSUME Inv, NEW r \in Requests, NEW o \in OpNames, NEW args, NEW label,
           NEW e \in Row \cup {None},
           Arrive(r, o, args, label),
           entry' = [entry EXCEPT ![r] = e],
           UNCHANGED <<chores, allowances, completions, summaries, money>>,
           tasks' \in [Tasks -> TaskStatus],
           \A t \in Tasks : tasks[t] = "approved" => tasks'[t] = "approved",
           o = "complete" => args \in CompleteCall,
           o = "undo" => args \in UndoCall,
           o = "approve" => /\ args \in ApproveCall
                            /\ tasks[args.task] = "pending"
                            /\ tasks'[args.task] = "approved",
           o = "batch" => args \in BatchCall /\ args.dues = {} /\ label = "members",
           o \in {"tip", "cash_out", "adjust"} => args = None,
           label \in {"wallet", "allowance", "delete", "members", "done", "failed"},
           label = "allowance" => o = "complete",
           label = "delete" => o = "undo",
           label = "members" => o = "batch",
           label = "wallet" => /\ e \in Row /\ e.by = r
                               /\ e.kind = "ad_hoc" => o = "approve" /\ e.ref = args.task
    PROVE  Inv'
<1> USE DEF Inv, ExactlyOnce
<1>1. /\ pc[r] = "new"
      /\ op' = [op EXCEPT ![r] = o]
      /\ call' = [call EXCEPT ![r] = args]
      /\ pc' = [pc EXCEPT ![r] = label]
  BY DEF Arrive
<1>2. \A f \in ledger : f.by \in Requests /\ f.by # r
  BY <1>1 DEF SingleCredit, TypeOK, Row
<1>3. e \notin ledger \/ label # "wallet"
  BY <1>2
<1>4. /\ op'[r] = o /\ call'[r] = args /\ pc'[r] = label /\ entry'[r] = e
      /\ \A s \in Requests \ {r} : /\ op'[s] = op[s] /\ call'[s] = call[s]
                                   /\ pc'[s] = pc[s] /\ entry'[s] = entry[s]
  BY <1>1 DEF TypeOK
<1>5. args \in CompleteCall \cup UndoCall \cup ApproveCall \cup BatchCall \cup {None}
  BY DEF OpNames
<1>6. TypeOK'
  <2>1. pc' \in [Requests -> {"new"} \cup Busy \cup Finished]
    BY <1>1 DEF TypeOK
  <2>2. op' \in [Requests -> OpNames \cup {None}]
    BY <1>1 DEF TypeOK
  <2>3. call' \in [Requests -> CompleteCall \cup UndoCall \cup ApproveCall \cup BatchCall \cup {None}]
    BY <1>1, <1>5 DEF TypeOK
  <2>4. entry' \in [Requests -> Row \cup {None}]
    BY DEF TypeOK
  <2> QED
    BY <2>1, <2>2, <2>3, <2>4 DEF TypeOK
<1>7. CallsOK'
  BY <1>4 DEF CallsOK
<1>8. EntriesOK'
  BY <1>3, <1>4 DEF EntriesOK
<1>9. SingleCredit'
  BY <1>2, <1>4 DEF SingleCredit
<1>10. BatchOK'
  <2> SUFFICES ASSUME NEW s \in Requests, op'[s] = "batch"
               PROVE  BatchOK!(s)'
    BY DEF BatchOK
  <2>1. CASE s = r
    BY <1>2, <1>4, <2>1
  <2>2. CASE s # r
    BY <1>4, <2>2 DEF BatchOK
  <2> QED
    BY <2>1, <2>2
<1>11. TasksOK'
  <2>1. \A s \in Requests \ {r} : op[s] = "approve" =>
            call[s].task \in Tasks /\ tasks[call[s].task] = "approved"
    BY DEF CallsOK, ApproveCall, TasksOK
  <2>2. \A s \in Requests : op'[s] = "approve" => tasks'[call'[s].task] = "approved"
    BY <1>4, <2>1
  <2>3. \A s, q \in Requests :
          op'[s] = "approve" /\ op'[q] = "approve" /\ call'[s].task = call'[q].task => s = q
    BY <1>4, <2>1 DEF TasksOK
  <2>4. \A f \in ledger : f.kind = "ad_hoc" =>
          op'[f.by] = "approve" /\ f.ref = call'[f.by].task
    BY <1>2, <1>4 DEF TasksOK
  <2> QED
    BY <2>2, <2>3, <2>4 DEF TasksOK
<1> QED
  BY <1>6, <1>7, <1>8, <1>9, <1>10, <1>11

\* Every kind of request arrives in a way that preserves the invariant.
LEMMA BeginInv ==
    ASSUME Inv, NEW r \in Requests, Begin(r)
    PROVE  Inv'
<1>1. /\ entry[r] \in Row \cup {None}
      /\ entry = [entry EXCEPT ![r] = entry[r]]
      /\ tasks \in [Tasks -> TaskStatus]
  BY DEF Inv, TypeOK
<1>2. ASSUME NEW m \in Members, NEW a \in Amounts, Tip(r, m, a) \/ CashOut(r, m, a) \/ Adjust(r, m, a)
      PROVE  Inv'
  <2>1. PICK o \in {"tip", "cash_out", "adjust"}, b \in Int, k \in {"tip", "cash_out", "adjustment"} :
          Manual(r, o, m, b, k)
    BY <1>2 DEF Tip, CashOut, Adjust
  <2> DEFINE e == Entry(r, m, b, k, None)
  <2>2. e \in Row /\ e.by = r /\ e.kind # "ad_hoc"
    BY DEF Entry, Row, Kinds
  <2>3. /\ Arrive(r, o, None, "wallet")
        /\ entry' = [entry EXCEPT ![r] = e]
        /\ UNCHANGED <<tables, money>>
    BY <2>1 DEF Manual
  <2>4. o \in OpNames /\ o \notin {"complete", "undo", "approve", "batch"}
    BY DEF OpNames
  <2>5. tasks' \in [Tasks -> TaskStatus] /\ \A t \in Tasks : tasks'[t] = tasks[t]
    BY <1>1, <2>3
  <2>6. "wallet" \in {"wallet", "allowance", "delete", "members", "done", "failed"}
    OBVIOUS
  <2> HIDE DEF e
  <2> QED
    BY <2>2, <2>3, <2>4, <2>5, <2>6, ArriveInv
<1>3. ASSUME NEW t \in Tasks, ApproveAdHocTask(r, t)
      PROVE  Inv'
  <2> DEFINE e == Entry(r, TaskMember[t], TaskPayout[t], "ad_hoc", t)
  <2>1. /\ tasks[t] = "pending"
        /\ tasks' = [tasks EXCEPT ![t] = "approved"]
        /\ UNCHANGED <<chores, allowances, completions, summaries, money>>
    BY <1>3 DEF ApproveAdHocTask, SetTask
  <2>2. /\ tasks' \in [Tasks -> TaskStatus]
        /\ tasks'[t] = "approved"
        /\ \A u \in Tasks : tasks[u] = "approved" => tasks'[u] = "approved"
    BY <1>1, <2>1 DEF TaskStatus
  <2>3. [task |-> t] \in ApproveCall /\ [task |-> t].task = t
    BY DEF ApproveCall
  <2>4. e \in Row /\ e.by = r /\ e.ref = t
    BY DEF Entry, Row, Kinds
  <2>5. \/ Arrive(r, "approve", [task |-> t], "wallet") /\ entry' = [entry EXCEPT ![r] = e]
        \/ Arrive(r, "approve", [task |-> t], "done") /\ entry' = entry
    BY <1>3 DEF ApproveAdHocTask
  <2> HIDE DEF e
  <2>6. CASE Arrive(r, "approve", [task |-> t], "wallet") /\ entry' = [entry EXCEPT ![r] = e]
    BY <2>1, <2>2, <2>3, <2>4, <2>6, ArriveInv DEF OpNames
  <2>7. CASE Arrive(r, "approve", [task |-> t], "done") /\ entry' = entry
    BY <1>1, <2>1, <2>2, <2>3, <2>7, ArriveInv DEF OpNames
  <2> QED
    BY <2>5, <2>6, <2>7
<1>4. ASSUME NEW c \in Chores, NEW d \in Dates, NEW caller \in Members, BeginComplete(r, c, d, caller)
      PROVE  Inv'
  <2> DEFINE args == [chore |-> c, date |-> d, auto |-> chores[c].cfg.auto,
                      weight |-> chores[c].cfg.weight, allowance |-> 0, payout |-> 0]
  <2>1. chores[c].cfg \in Settings
    BY DEF Inv, TypeOK
  <2>2. args \in CompleteCall
    BY <2>1 DEF CompleteCall, Weights, Payouts
  <2>3. Arrive(r, "complete", args, "allowance") /\ UNCHANGED <<tables, money, entry>>
    BY <1>4 DEF BeginComplete
  <2> HIDE DEF args
  <2> QED
    BY <1>1, <2>2, <2>3, ArriveInv DEF OpNames
<1>5. ASSUME NEW c \in Chores, NEW d \in Dates, NEW caller \in Members, BeginUndo(r, c, d, caller)
      PROVE  Inv'
  <2> DEFINE args == [chore |-> c, date |-> d]
  <2>1. PICK x \in Find(c, d) :
          \/ /\ Arrive(r, "undo", args, "wallet")
             /\ entry' = [entry EXCEPT ![r] = Entry(r, ChoreMember[c], -x.payout, "adjustment", x.id)]
          \/ Arrive(r, "undo", args, "delete") /\ entry' = entry
    BY <1>5 DEF BeginUndo
  <2>2. UNCHANGED <<tables, money>>
    BY <1>5 DEF BeginUndo
  <2>3. args \in UndoCall
    BY DEF UndoCall
  <2> DEFINE e == Entry(r, ChoreMember[c], -x.payout, "adjustment", x.id)
  <2>4. x.payout \in Nat /\ x.id \in Requests
    BY DEF Find, Inv, TypeOK, Completion
  <2>5. e \in Row /\ e.by = r /\ e.kind # "ad_hoc"
    BY <2>4 DEF Entry, Row, Kinds
  <2> HIDE DEF e, args
  <2>6. CASE Arrive(r, "undo", args, "wallet") /\ entry' = [entry EXCEPT ![r] = e]
    BY <1>1, <2>2, <2>3, <2>5, <2>6, ArriveInv DEF OpNames
  <2>7. CASE Arrive(r, "undo", args, "delete") /\ entry' = entry
    BY <1>1, <2>2, <2>3, <2>7, ArriveInv DEF OpNames
  <2> QED
    BY <2>1, <2>6, <2>7 DEF e
<1>6. ASSUME NEW c \in Chores, NEW d \in Dates, RefuseUndo(r, c, d)
      PROVE  Inv'
  <2> DEFINE args == [chore |-> c, date |-> d]
  <2>1. args \in UndoCall
    BY DEF UndoCall
  <2>2. Arrive(r, "undo", args, "failed") /\ UNCHANGED <<tables, money, entry>>
    BY <1>6 DEF RefuseUndo
  <2> HIDE DEF args
  <2> QED
    BY <1>1, <2>1, <2>2, ArriveInv DEF OpNames
<1>7. CASE BeginBatch(r)
  <2> DEFINE args == [left |-> Members, who |-> None, snap |-> [c \in {} |-> None], dues |-> {}]
  <2>1. [c \in {} |-> None] \in Siblings
    <3>1. [c \in {} |-> None] \in [{} -> Settings] /\ {} \in SUBSET Chores
      OBVIOUS
    <3> QED
      BY <3>1 DEF Siblings
  <2>2. args \in BatchCall /\ args.dues = {}
    BY <2>1 DEF BatchCall
  <2>3. Arrive(r, "batch", args, "members") /\ UNCHANGED <<tables, money, entry>>
    BY <1>7 DEF BeginBatch
  <2> HIDE DEF args
  <2> QED
    BY <1>1, <2>2, <2>3, ArriveInv DEF OpNames
<1> QED
  BY <1>2, <1>3, <1>4, <1>5, <1>6, <1>7 DEF Begin

\* The statements of a request preserve the invariant.
LEMMA StepInv ==
    ASSUME Inv, NEW r \in Requests, Step(r)
    PROVE  Inv'
  BY GetOrCreateWalletInv, CreateWalletTransactionInv, AdjustWalletBalanceInv,
     GetActiveAllowanceInv, PriceCompletionInv, InsertCompletionInv, CompletionConflictsInv,
     RefetchCompletionInv, DeleteChoreCompletionInv, NextMemberInv, ListWeekCompletionsInv,
     PayStreakBonusInv, CloseWeekInv, UpsertWeeklySummaryInv, EndBatchInv DEF Step

\* The tables are typed and no ledger row is credited twice, in every state of
\* every household, wherever its requests interleave and stop.
THEOREM ExactlyOnceHolds == Spec => [](TypeOK /\ ExactlyOnce)
<1>1. Init => Inv
  BY DEF Init, Inv, TypeOK, ExactlyOnce, CallsOK, EntriesOK, SingleCredit, BatchOK, TasksOK,
         TaskStatus, OpNames
<1>2. Inv /\ [Next]_vars => Inv'
  <2> SUFFICES ASSUME Inv, [Next]_vars
               PROVE  Inv'
    OBVIOUS
  <2>1. CASE Configure
    BY <2>1, ConfigureInv
  <2>2. ASSUME NEW r \in Requests, Begin(r) \/ Step(r) \/ Fail(r)
        PROVE  Inv'
    BY <2>2, BeginInv, StepInv, FailInv
  <2>3. CASE UNCHANGED vars
    BY <2>3 DEF vars, Inv, TypeOK, ExactlyOnce, CallsOK, EntriesOK, SingleCredit, BatchOK, TasksOK
  <2> QED
    BY <2>1, <2>2, <2>3 DEF Next
<1> QED
  BY <1>1, <1>2, PTL DEF Spec, Inv

\* The tables and the requests' local variables keep their types.
THEOREM TypeCorrect == Spec => []TypeOK
  BY ExactlyOnceHolds, PTL

\* An ad-hoc task pays at most once and only when it ended up approved, for any
\* number of concurrent approvals, declines and failures.
THEOREM TaskPaidOnceHolds == Spec => []TaskPaidOnce
<1>1. TypeOK /\ ExactlyOnce => TaskPaidOnce
  <2> SUFFICES ASSUME TypeOK, ExactlyOnce, NEW e \in ledger, NEW f \in ledger,
                      e.kind = "ad_hoc", f.kind = "ad_hoc", e.ref = f.ref
               PROVE  e = f /\ tasks[e.ref] = "approved"
    BY DEF TaskPaidOnce
  <2>1. e.by \in Requests /\ f.by \in Requests
    BY DEF TypeOK, Row
  <2>2. op[e.by] = "approve" /\ op[f.by] = "approve"
        /\ call[e.by].task = call[f.by].task /\ e.ref = call[e.by].task
    BY DEF ExactlyOnce, TasksOK
  <2>3. e.by = f.by /\ tasks[e.ref] = "approved"
    BY <2>1, <2>2 DEF ExactlyOnce, TasksOK
  <2>4. e = entry[e.by] /\ f = entry[f.by]
    BY <2>2 DEF ExactlyOnce, SingleCredit
  <2> QED
    BY <2>3, <2>4
<1> QED
  BY <1>1, ExactlyOnceHolds, PTL

\* What a step may do to the completions: only DeleteChoreCompletion and CloseWeek
\* take a row away, and neither takes one that is closed.
LEMMA ClosedStep ==
    ASSUME TypeOK, [Next]_vars
    PROVE  \A x \in completions : x.closed => x \in completions'
<1>1. CASE Configure
  BY <1>1 DEF Configure, CreateChore, UpdateChore, ArchiveChore, SetChore, SetAllowance,
              CreateAdHocTask, CompleteAdHocTask, DeclineAdHocTask
<1>2. ASSUME NEW r \in Requests, Begin(r) \/ Fail(r)
      PROVE  UNCHANGED completions
  BY <1>2 DEF Begin, Tip, CashOut, Adjust, Manual, ApproveAdHocTask, BeginComplete, BeginUndo,
              RefuseUndo, BeginBatch, Fail
<1>3. ASSUME NEW r \in Requests, Step(r), NEW x \in completions, x.closed
      PROVE  x \in completions'
  <2>1. CASE DeleteChoreCompletion(r)
    BY <1>3, <2>1 DEF DeleteChoreCompletion
  <2>2. CASE CloseWeek(r)
    <3>1. x \in Completion
      BY DEF TypeOK
    <3>2. [x EXCEPT !.closed = TRUE] = x
      BY <1>3, <3>1 DEF Completion
    <3> QED
      BY <2>2, <3>2 DEF CloseWeek
  <2>3. CASE InsertCompletion(r)
    BY <2>3 DEF InsertCompletion
  <2>4. CASE UNCHANGED completions
    BY <2>4
  <2> QED
    BY <1>3, <2>1, <2>2, <2>3, <2>4
       DEF Step, GetOrCreateWallet, CreateWalletTransaction, AdjustWalletBalance,
           GetActiveAllowance, PriceCompletion, CompletionConflicts, RefetchCompletion,
           NextMember, ListWeekCompletions, PayStreakBonus, UpsertWeeklySummary, EndBatch
<1> QED
  BY <1>1, <1>2, <1>3 DEF Next, vars

\* A completion the week-end batch has closed is never deleted or changed again,
\* whatever Undo requests were already past their own check.
THEOREM ClosedStaysHolds == Spec => ClosedStays
<1>1. TypeOK /\ [Next]_vars => [\A x \in completions : x.closed => x \in completions']_vars
  BY ClosedStep
<1> QED
  BY <1>1, TypeCorrect, PTL DEF Spec, ClosedStays

\* A request that neither stands nor stopped between its ledger row and its
\* balance, before and after a step, moves no row in or out of Posted.
LEMMA PostedUnchanged ==
    ASSUME TypeOK, NEW r \in Requests, ledger' = ledger,
           pc[r] \notin {"adjust", "lost"}, pc'[r] \notin {"adjust", "lost"},
           \A s \in Requests \ {r} : pc'[s] = pc[s] /\ entry'[s] = entry[s]
    PROVE  Posted' = Posted
<1>1. \A e \in ledger : e.by \in Requests
  BY DEF TypeOK, Row
<1>2. \A e \in ledger : Unposted(e)' <=> Unposted(e)
  BY <1>1 DEF Unposted
<1> QED
  BY <1>2 DEF Posted

\* A request that arrives posts nothing.
LEMMA BeginPosts ==
    ASSUME Inv, NEW r \in Requests, Begin(r)
    PROVE  Posted' = Posted /\ balance' = balance
<1>1. /\ pc[r] = "new"
      /\ \E l \in {"wallet", "allowance", "delete", "members", "done", "failed"} :
           pc' = [pc EXCEPT ![r] = l]
      /\ UNCHANGED <<ledger, balance>>
      /\ entry' = entry \/ \E e : entry' = [entry EXCEPT ![r] = e]
  BY DEF Begin, Tip, CashOut, Adjust, Manual, ApproveAdHocTask, BeginComplete, BeginUndo,
         RefuseUndo, BeginBatch, Arrive
<1>2. /\ pc'[r] \notin {"adjust", "lost"}
      /\ \A s \in Requests \ {r} : pc'[s] = pc[s] /\ entry'[s] = entry[s]
  BY <1>1 DEF Inv, TypeOK
<1> QED
  BY <1>1, <1>2, PostedUnchanged DEF Inv

\* A statement other than the two writes of Credit posts nothing.
LEMMA QuietStepPosts ==
    ASSUME Inv, NEW r \in Requests, Step(r),
           ~CreateWalletTransaction(r), ~AdjustWalletBalance(r)
    PROVE  Posted' = Posted /\ balance' = balance
<1>1. /\ pc[r] \notin {"adjust", "lost"}
      /\ \E l \in {"txn", "siblings", "insert", "wallet", "refetch", "done", "failed", "completions",
                   "bonus", "summary", "members"} :
           pc' = [pc EXCEPT ![r] = l]
      /\ UNCHANGED <<ledger, balance>>
      /\ entry' = entry \/ \E e : entry' = [entry EXCEPT ![r] = e]
  <2>1. CASE GetOrCreateWallet(r)
    BY <2>1 DEF GetOrCreateWallet
  <2>2. CASE GetActiveAllowance(r) \/ PriceCompletion(r)
    BY <2>2 DEF GetActiveAllowance, PriceCompletion
  <2>3. CASE InsertCompletion(r)
    BY <2>3 DEF InsertCompletion
  <2>4. CASE CompletionConflicts(r) \/ RefetchCompletion(r) \/ DeleteChoreCompletion(r)
    BY <2>4 DEF CompletionConflicts, RefetchCompletion, DeleteChoreCompletion
  <2>5. CASE NextMember(r) \/ ListWeekCompletions(r)
    BY <2>5 DEF NextMember, ListWeekCompletions
  <2>6. CASE PayStreakBonus(r)
    BY <2>6 DEF PayStreakBonus
  <2>7. CASE CloseWeek(r) \/ UpsertWeeklySummary(r) \/ EndBatch(r)
    BY <2>7 DEF CloseWeek, UpsertWeeklySummary, EndBatch
  <2> QED
    BY <2>1, <2>2, <2>3, <2>4, <2>5, <2>6, <2>7 DEF Step
<1>2. /\ pc'[r] \notin {"adjust", "lost"}
      /\ \A s \in Requests \ {r} : pc'[s] = pc[s] /\ entry'[s] = entry[s]
  BY <1>1 DEF Inv, TypeOK
<1> QED
  BY <1>1, <1>2, PostedUnchanged DEF Inv

\* The ledger row of Credit is not posted when it is written.
LEMMA WritingPostsNothing ==
    ASSUME Inv, NEW r \in Requests, CreateWalletTransaction(r)
    PROVE  Posted' = Posted /\ balance' = balance
<1>1. /\ pc[r] = "txn" /\ entry[r] \in Row /\ entry[r].by = r /\ entry[r] \notin ledger
      /\ UNCHANGED <<entry, balance>>
  BY DEF CreateWalletTransaction, Inv, ExactlyOnce, EntriesOK
<1>2. \A e \in ledger : e.by \in Requests
  BY DEF Inv, TypeOK, Row
<1>3. CASE ledger' = ledger /\ pc' = [pc EXCEPT ![r] = "failed"]
  BY <1>1, <1>3, PostedUnchanged DEF Inv, TypeOK
<1>4. CASE ledger' = ledger \cup {entry[r]} /\ pc' = [pc EXCEPT ![r] = "adjust"]
  <2>1. pc'[r] = "adjust" /\ \A s \in Requests \ {r} : pc'[s] = pc[s]
    BY <1>4 DEF Inv, TypeOK
  <2>2. Unposted(entry[r])'
    BY <1>1, <2>1 DEF Unposted
  <2>3. \A e \in ledger : Unposted(e)' <=> Unposted(e)
    BY <1>1, <1>2, <2>1 DEF Unposted
  <2> QED
    BY <1>1, <1>4, <2>2, <2>3 DEF Posted
<1> QED
  BY <1>3, <1>4 DEF CreateWalletTransaction

\* The balance adjustment of Credit is the step of the atomic ledger.
LEMMA AdjustPosts ==
    ASSUME Inv, NEW r \in Requests, AdjustWalletBalance(r)
    PROVE  /\ entry[r] \in Row
           /\ entry[r] \notin Posted
           /\ Posted' = Posted \cup {entry[r]}
<1>1. /\ pc[r] = "adjust" /\ entry[r] \in Row /\ entry[r].by = r /\ entry[r] \in ledger
      /\ UNCHANGED <<entry, ledger>>
  BY DEF AdjustWalletBalance, Inv, ExactlyOnce, EntriesOK
<1>2. \A e \in ledger : e.by \in Requests
  BY DEF Inv, TypeOK, Row
<1>3. AfterCredit(op[r]) \notin {"adjust", "lost"}
  BY DEF AfterCredit
<1>4. pc'[r] = AfterCredit(op[r]) /\ \A s \in Requests \ {r} : pc'[s] = pc[s]
  BY DEF AdjustWalletBalance, Inv, TypeOK
<1>5. Unposted(entry[r]) /\ ~Unposted(entry[r])'
  BY <1>1, <1>3, <1>4 DEF Unposted
<1>6. \A e \in ledger : e # entry[r] => (Unposted(e)' <=> Unposted(e))
  BY <1>1, <1>2, <1>3, <1>4 DEF Unposted
<1> QED
  BY <1>1, <1>5, <1>6 DEF Posted

\* A failing statement posts nothing: the row of a request that stops between the
\* two writes of Credit stays out of Posted.
LEMMA FailPosts ==
    ASSUME Inv, NEW r \in Requests, Fail(r)
    PROVE  Posted' = Posted /\ balance' = balance
<1>1. /\ pc' = [pc EXCEPT ![r] = IF pc[r] = "adjust" THEN "lost" ELSE "failed"]
      /\ pc[r] \in Busy
      /\ UNCHANGED <<ledger, balance, entry>>
  BY DEF Fail
<1>2. \A s \in Requests : pc'[s] \in {"adjust", "lost"} <=> pc[s] \in {"adjust", "lost"}
  BY <1>1 DEF Inv, TypeOK
<1>3. \A e \in ledger : e.by \in Requests
  BY DEF Inv, TypeOK, Row
<1>4. \A e \in ledger : Unposted(e)' <=> Unposted(e)
  BY <1>1, <1>2, <1>3 DEF Unposted
<1> QED
  BY <1>1, <1>4 DEF Posted

\* Only the second write of Credit changes what is posted.
LEMMA AbstractStep ==
    ASSUME Inv, [Next]_vars
    PROVE  \/ Posted' = Posted /\ balance' = balance
           \/ \E r \in Requests : AdjustWalletBalance(r)
<1>1. CASE Configure
  <2>1. UNCHANGED <<ledger, balance, pc, entry>>
    BY <1>1 DEF Configure, CreateChore, UpdateChore, ArchiveChore, SetChore, SetAllowance,
                CreateAdHocTask, CompleteAdHocTask, DeclineAdHocTask
  <2> QED
    BY <2>1 DEF Posted, Unposted
<1>2. ASSUME NEW r \in Requests, Begin(r) \/ Fail(r)
      PROVE  Posted' = Posted /\ balance' = balance
  BY <1>2, BeginPosts, FailPosts
<1>3. ASSUME NEW r \in Requests, Step(r), ~AdjustWalletBalance(r)
      PROVE  Posted' = Posted /\ balance' = balance
  BY <1>3, QuietStepPosts, WritingPostsNothing
<1>4. CASE UNCHANGED vars
  BY <1>4 DEF vars, Posted, Unposted
<1> QED
  BY <1>1, <1>2, <1>3, <1>4 DEF Next

\* The three statements of Credit, interleaved with every other request and with
\* failures anywhere, implement a ledger in which an entry and its balance change
\* together and no entry counts twice.
THEOREM LedgerRefinement == Spec => ImplementsAtomicLedger
<1>1. Init => Abstract!Init
  BY DEF Init, Abstract!Init, Posted
<1>2. Inv /\ [Next]_vars => [Abstract!Next]_(Abstract!vars)
  <2> SUFFICES ASSUME Inv, [Next]_vars
               PROVE  \/ \E e \in Posted' : Abstract!Post(e)
                      \/ Posted' = Posted /\ balance' = balance
    BY DEF Abstract!Next, Abstract!vars
  <2>1. ASSUME NEW r \in Requests, AdjustWalletBalance(r)
        PROVE  \E e \in Posted' : Abstract!Post(e)
    BY <2>1, AdjustPosts DEF AdjustWalletBalance, Abstract!Post
  <2> QED
    BY <2>1, AbstractStep
<1>3. Spec => []Inv
  BY ExactlyOnceHolds DEF Inv
<1> QED
  BY <1>1, <1>2, <1>3, PTL DEF Spec, ImplementsAtomicLedger, Abstract!Spec

\* A step that neither inserts nor deletes a completion of a day, and counts no new
\* paid insert and no fewer deletes, keeps the days' counts.
LEMMA DaysStay ==
    ASSUME DaysOK,
           \A c \in Chores, d \in Dates : /\ Paying(c, d)' \subseteq Paying(c, d)
                                          /\ Deleting(c, d) \subseteq Deleting(c, d)'
                                          /\ Find(c, d)' = {} <=> Find(c, d) = {}
    PROVE  DaysOK'
<1> SUFFICES ASSUME NEW c \in Chores, NEW d \in Dates
             PROVE  DaysOK!(c, d)'
  BY DEF DaysOK
<1> DEFINE P == Paying(c, d)  P1 == Paying(c, d)'  D == Deleting(c, d)  D1 == Deleting(c, d)'
<1>1. P \subseteq Requests /\ D1 \subseteq Requests
  BY DEF Paying, Deleting
<1>2. P1 \subseteq P /\ D \subseteq D1
  OBVIOUS
<1>3. Cardinality(P) <= Cardinality(D) + (IF Find(c, d) = {} THEN 0 ELSE 1)
  BY DEF DaysOK
<1>4. Find(c, d)' = {} <=> Find(c, d) = {}
  OBVIOUS
<1> HIDE DEF P, P1, D, D1
<1>5. /\ Cardinality(P) \in Nat /\ Cardinality(P1) \in Nat /\ Cardinality(P1) <= Cardinality(P)
      /\ Cardinality(D) \in Nat /\ Cardinality(D1) \in Nat /\ Cardinality(D) <= Cardinality(D1)
  <2>1. IsFiniteSet(P) /\ IsFiniteSet(D1)
    BY <1>1, FS_Subset, RequestsAssumption
  <2>2. IsFiniteSet(P1) /\ IsFiniteSet(D)
    BY <1>2, <2>1, FS_Subset
  <2> QED
    BY <1>2, <2>1, <2>2, FS_Subset, FS_CardinalityType
<1>6. Cardinality(P1) <= Cardinality(D1) + (IF Find(c, d)' = {} THEN 0 ELSE 1)
  BY <1>3, <1>4, <1>5
<1> QED
  BY <1>6 DEF P1, D1

\* A statement of r that leaves the completions, its operation, its day and its entry
\* alone, and writes at most that entry.
LocalStep(r) ==
    /\ op' = op /\ completions' = completions
    /\ \A s \in Requests \ {r} : pc'[s] = pc[s] /\ call'[s] = call[s]
    /\ entry' = entry
    /\ op[r] \in {"complete", "undo"} =>
          call'[r].chore = call[r].chore /\ call'[r].date = call[r].date
    /\ ledger' \in {ledger, ledger \cup {entry[r]}}
    /\ ledger' # ledger => entry[r] \in Row /\ entry[r].by = r
    /\ pc[r] # "new" /\ pc'[r] # "new"
    /\ pc'[r] \in {"allowance", "siblings", "insert", "refetch"} =>
          pc[r] \in {"allowance", "siblings", "insert", "refetch"}
    /\ op[r] = "undo" =>
          /\ pc[r] # "done" /\ pc'[r] # "done"
          /\ pc'[r] \in {"adjust", "delete"} => entry[r] \in ledger'

\* Such a statement preserves PaidDays.
LEMMA LocalPaid ==
    ASSUME Inv, PaidDays, NEW r \in Requests, LocalStep(r)
    PROVE  PaidDays'
<1> USE DEF LocalStep
<1>0. \A s \in Requests : op[s] \in {"complete", "undo"} =>
          call'[s].chore = call[s].chore /\ call'[s].date = call[s].date
  OBVIOUS
<1>1. CreditsOK'
  <2> SUFFICES ASSUME NEW s \in Requests
               PROVE  CreditsOK!(s)'
    BY DEF CreditsOK
  <2>1. CreditsOK!(s)
    BY DEF PaidDays, CreditsOK
  <2>2. CASE s = r
    BY <1>0, <2>1, <2>2
  <2>3. CASE s # r
    BY <1>0, <2>1, <2>3
  <2> QED
    BY <2>2, <2>3
<1>2. RowsOK'
  <2>1. \A x \in completions : x.id \in Requests
    BY DEF Inv, TypeOK, Completion
  <2>2. \A e \in ledger' : op[e.by] = "batch" => e.kind = "streak_bonus"
    <3>1. CASE ledger' = ledger
      BY <3>1 DEF PaidDays, RowsOK
    <3>2. CASE ledger' # ledger
      <4>1. ledger' = ledger \cup {entry[r]} /\ entry[r].by = r
        BY <3>2
      <4>2. entry[r] # None
        BY <3>2, RequestsAssumption
      <4> QED
        BY <4>1, <4>2 DEF PaidDays, RowsOK, CreditsOK
    <3> QED
      BY <3>1, <3>2
  <2> QED
    BY <1>0, <2>1, <2>2 DEF PaidDays, RowsOK
<1>3. DaysOK'
  <2>1. \A c, d : Find(c, d)' = Find(c, d)
    BY DEF Find
  <2>2. \A c, d : Paying(c, d)' \subseteq Paying(c, d)
    BY <1>0 DEF Paying
  <2>3. ASSUME NEW c, NEW d, NEW s \in Deleting(c, d)
        PROVE  s \in Deleting(c, d)'
    <3>1. s \in Requests /\ s # r /\ op[s] = "undo"
      BY DEF Deleting
    <3> QED
      BY <1>0, <2>3, <3>1 DEF Deleting
  <2> QED
    BY <2>1, <2>2, <2>3, DaysStay DEF PaidDays
<1> QED
  BY <1>1, <1>2, <1>3 DEF PaidDays

\* InsertCompletion preserves PaidDays: the day it pays for had no row.
LEMMA InsertCompletionPaid ==
    ASSUME Inv, PaidDays, NEW r \in Requests, InsertCompletion(r)
    PROVE  PaidDays'
<1> DEFINE k == call[r]
           e == Entry(r, ChoreMember[k.chore], k.payout, "chore_payout", r)
           x == [id |-> r, chore |-> k.chore, date |-> k.date,
                 approved |-> k.auto, payout |-> k.payout, closed |-> FALSE]
<1>1. /\ k \in CompleteCall /\ op[r] = "complete" /\ pc[r] = "insert" /\ entry[r] = None
      /\ Find(k.chore, k.date) = {}
  BY DEF InsertCompletion, Inv, ExactlyOnce, CallsOK, PaidDays, CreditsOK
<1>2. /\ op' = op /\ call' = call /\ ledger' = ledger
      /\ completions' = completions \cup {x}
      /\ \A s \in Requests \ {r} : pc'[s] = pc[s] /\ entry'[s] = entry[s]
      /\ pc'[r] \in {"wallet", "done"}
      /\ entry'[r] \in {None, e}
  BY <1>1 DEF InsertCompletion, Inv, TypeOK
<1>3. e.kind = "chore_payout" /\ e.ref = r /\ x.id = r /\ x.chore = k.chore /\ x.date = k.date
  BY DEF Entry
<1>4. k.chore \in Chores /\ k.date \in Dates
  BY <1>1 DEF CompleteCall
<1> HIDE DEF e, x
<1>5. CreditsOK'
  <2> SUFFICES ASSUME NEW s \in Requests
               PROVE  CreditsOK!(s)'
    BY DEF CreditsOK
  <2>1. CreditsOK!(s)
    BY DEF PaidDays, CreditsOK
  <2>2. CASE s = r
    BY <1>1, <1>2, <1>3, <2>2
  <2>3. CASE s # r
    BY <1>2, <2>1, <2>3
  <2> QED
    BY <2>2, <2>3
<1>6. RowsOK'
  BY <1>1, <1>2, <1>3 DEF PaidDays, RowsOK
<1>7. DaysOK'
  <2> SUFFICES ASSUME NEW c \in Chores, NEW d \in Dates
               PROVE  DaysOK!(c, d)'
    BY DEF DaysOK
  <2>1. DaysOK!(c, d)
    BY DEF PaidDays, DaysOK
  <2>2. Deleting(c, d)' = Deleting(c, d)
    BY <1>1, <1>2 DEF Deleting
  <2>3. CASE c = k.chore /\ d = k.date
    <3>1. Find(c, d) = {} /\ x \in Find(c, d)'
      BY <1>1, <1>2, <1>3, <2>3 DEF Find
    <3>2. Paying(c, d)' \subseteq Paying(c, d) \cup {r}
      BY <1>2 DEF Paying
    <3> DEFINE P == Paying(c, d)  P1 == Paying(c, d)'  D == Deleting(c, d)
    <3>3. IsFiniteSet(P) /\ IsFiniteSet(D)
      BY RequestsAssumption, FS_Subset DEF Paying, Deleting
    <3>4. Cardinality(P) <= Cardinality(D)
      <4>1. Cardinality(D) \in Nat /\ Cardinality(P) \in Nat
        BY <3>3, FS_CardinalityType
      <4> QED
        BY <2>1, <3>1, <4>1
    <3> HIDE DEF P, P1, D
    <3>5. Cardinality(P1) <= Cardinality(P) + 1
      <4>1. /\ IsFiniteSet(P \cup {r}) /\ Cardinality(P) \in Nat
            /\ Cardinality(P \cup {r}) <= Cardinality(P) + 1
        <5>1. Cardinality(P) \in Nat
          BY <3>3, FS_CardinalityType
        <5>2. /\ IsFiniteSet(P \cup {r})
              /\ Cardinality(P \cup {r}) = IF r \in P THEN Cardinality(P) ELSE Cardinality(P) + 1
          BY <3>3, FS_AddElement
        <5> QED
          BY <5>1, <5>2
      <4>2. P1 \in SUBSET (P \cup {r})
        BY <3>2 DEF P, P1
      <4>3. Cardinality(P1) <= Cardinality(P \cup {r}) /\ IsFiniteSet(P1)
        BY <4>1, <4>2, FS_Subset
      <4>4. Cardinality(P1) \in Nat /\ Cardinality(P \cup {r}) \in Nat
        BY <4>1, <4>3, FS_CardinalityType
      <4> QED
        BY <4>1, <4>3, <4>4
    <3>6. Cardinality(P1) \in Int /\ Cardinality(P) \in Nat /\ Cardinality(D) \in Nat
      <4>1. IsFiniteSet(P1)
        BY RequestsAssumption, FS_Subset DEF Paying, P1
      <4> QED
        BY <3>3, <4>1, FS_CardinalityType
    <3>7. Cardinality(P1) <= Cardinality(D) + 1
      BY <3>4, <3>5, <3>6
    <3> QED
      BY <2>2, <3>1, <3>7 DEF P1, D
  <2>4. CASE ~(c = k.chore /\ d = k.date)
    <3>1. Find(c, d)' = Find(c, d)
      BY <1>2, <1>3, <2>4 DEF Find
    <3>2. Paying(c, d)' = Paying(c, d)
      BY <1>2, <2>4 DEF Paying
    <3> QED
      BY <2>1, <2>2, <3>1, <3>2
  <2> QED
    BY <2>3, <2>4
<1> QED
  BY <1>5, <1>6, <1>7 DEF PaidDays

\* DeleteChoreCompletion preserves PaidDays: the row it takes is outweighed by itself,
\* whichever request inserted that row.
LEMMA DeleteChoreCompletionPaid ==
    ASSUME Inv, PaidDays, NEW r \in Requests, DeleteChoreCompletion(r)
    PROVE  PaidDays'
<1> DEFINE k == call[r]
<1>1. k \in UndoCall /\ op[r] = "undo" /\ pc[r] = "delete"
  BY DEF DeleteChoreCompletion, Inv, ExactlyOnce, CallsOK
<1>2. /\ op' = op /\ call' = call /\ ledger' = ledger /\ entry' = entry
      /\ completions' = completions \ {x \in Find(k.chore, k.date) : ~x.closed}
      /\ \A s \in Requests \ {r} : pc'[s] = pc[s]
      /\ pc'[r] = "done"
  BY <1>1 DEF DeleteChoreCompletion, Inv, TypeOK
<1>3. CreditsOK'
  <2> SUFFICES ASSUME NEW s \in Requests
               PROVE  CreditsOK!(s)'
    BY DEF CreditsOK
  <2>1. CreditsOK!(s)
    BY DEF PaidDays, CreditsOK
  <2>2. CASE s = r
    BY <1>1, <1>2, <2>1, <2>2
  <2>3. CASE s # r
    BY <1>2, <2>1, <2>3
  <2> QED
    BY <2>2, <2>3
<1>4. RowsOK'
  BY <1>2 DEF PaidDays, RowsOK
<1>5. DaysOK'
  <2> SUFFICES ASSUME NEW c \in Chores, NEW d \in Dates
               PROVE  DaysOK!(c, d)'
    BY DEF DaysOK
  <2>1. DaysOK!(c, d)
    BY DEF PaidDays, DaysOK
  <2>2. Paying(c, d)' = Paying(c, d)
    BY <1>1, <1>2 DEF Paying
  <2>3. CASE c = k.chore /\ d = k.date
    <3> DEFINE P == Paying(c, d)  D1 == Deleting(c, d)'  D == Deleting(c, d)
    <3>1. D1 = D \cup {r} /\ r \notin D
      BY <1>1, <1>2, <2>3 DEF Deleting
    <3>2. IsFiniteSet(P) /\ IsFiniteSet(D)
      BY RequestsAssumption, FS_Subset DEF Paying, Deleting
    <3>3. Cardinality(D1) = Cardinality(D) + 1
      <4> HIDE DEF P, D, D1
      <4> QED
        BY <3>1, <3>2, FS_AddElement
    <3>4. Cardinality(P) \in Nat /\ Cardinality(D) \in Nat
      BY <3>2, FS_CardinalityType
    <3>5. Cardinality(P) <= Cardinality(D) + 1
      BY <2>1, <3>4
    <3> HIDE DEF P, D, D1
    <3>6. Cardinality(P) <= Cardinality(D1) + (IF Find(c, d)' = {} THEN 0 ELSE 1)
      BY <3>3, <3>4, <3>5
    <3> QED
      BY <2>2, <3>6 DEF P, D1
  <2>4. CASE ~(c = k.chore /\ d = k.date)
    <3>1. Find(c, d)' = Find(c, d)
      BY <1>2, <2>4 DEF Find
    <3>2. Deleting(c, d)' = Deleting(c, d)
      BY <1>1, <1>2, <2>4 DEF Deleting
    <3> QED
      BY <2>1, <2>2, <3>1, <3>2
  <2> QED
    BY <2>3, <2>4
<1> QED
  BY <1>3, <1>4, <1>5 DEF PaidDays

\* PayStreakBonus preserves PaidDays.
LEMMA PayStreakBonusPaid ==
    ASSUME Inv, PaidDays, NEW r \in Requests, PayStreakBonus(r)
    PROVE  PaidDays'
<1>1. op[r] = "batch" /\ pc[r] = "bonus" /\ call[r] \in BatchCall
  BY DEF PayStreakBonus, Inv, ExactlyOnce, CallsOK
<1>2. /\ op' = op /\ completions' = completions /\ ledger' = ledger
      /\ \A s \in Requests \ {r} : pc'[s] = pc[s] /\ call'[s] = call[s] /\ entry'[s] = entry[s]
      /\ pc'[r] = "wallet"
      /\ entry'[r] \in call[r].dues
  BY DEF PayStreakBonus, Inv, TypeOK
<1>3. entry'[r].kind = "streak_bonus"
  BY <1>1, <1>2 DEF Inv, ExactlyOnce, BatchOK
<1>4. CreditsOK'
  <2> SUFFICES ASSUME NEW s \in Requests
               PROVE  CreditsOK!(s)'
    BY DEF CreditsOK
  <2>1. CreditsOK!(s)
    BY DEF PaidDays, CreditsOK
  <2>2. CASE s = r
    BY <1>1, <1>2, <1>3, <2>2
  <2>3. CASE s # r
    BY <1>1, <1>2, <2>1, <2>3
  <2> QED
    BY <2>2, <2>3
<1>5. RowsOK'
  <2>1. \A x \in completions : x.id \in Requests
    BY DEF Inv, TypeOK, Completion
  <2> QED
    BY <1>1, <1>2, <2>1 DEF PaidDays, RowsOK
<1>6. DaysOK'
  <2>1. \A c, d : Find(c, d)' = Find(c, d)
    BY <1>2 DEF Find
  <2>2. \A c, d : Paying(c, d)' \subseteq Paying(c, d)
    BY <1>1, <1>2 DEF Paying
  <2>3. \A c, d : Deleting(c, d) \subseteq Deleting(c, d)'
    BY <1>1, <1>2 DEF Deleting
  <2> QED
    BY <2>1, <2>2, <2>3, DaysStay DEF PaidDays
<1> QED
  BY <1>4, <1>5, <1>6 DEF PaidDays

\* CloseWeek preserves PaidDays: a closed row is still a row of its day.
LEMMA CloseWeekPaid ==
    ASSUME Inv, PaidDays, NEW r \in Requests, CloseWeek(r)
    PROVE  PaidDays'
<1>1. op[r] = "batch" /\ pc[r] = "bonus"
  BY DEF CloseWeek
<1>2. /\ op' = op /\ call' = call /\ ledger' = ledger /\ entry' = entry
      /\ \A s \in Requests \ {r} : pc'[s] = pc[s]
      /\ pc'[r] = "summary"
  BY DEF CloseWeek, Inv, TypeOK
<1>3. /\ \A x \in completions' : \E y \in completions :
            x.id = y.id /\ x.chore = y.chore /\ x.date = y.date
      /\ \A y \in completions : \E x \in completions' :
            x.chore = y.chore /\ x.date = y.date
  <2> DEFINE shut(x) == [x EXCEPT !.closed = TRUE]
             inWeek == {x \in completions : ChoreMember[x.chore] = call[r].who /\ x.date \in Week}
  <2>1. \A x \in completions :
          shut(x).id = x.id /\ shut(x).chore = x.chore /\ shut(x).date = x.date
    BY DEF Inv, TypeOK, Completion
  <2>2. completions' = (completions \ inWeek) \cup {shut(x) : x \in inWeek}
    BY DEF CloseWeek
  <2>3. inWeek \subseteq completions
    OBVIOUS
  <2> HIDE DEF shut, inWeek
  <2> QED
    BY <2>1, <2>2, <2>3
<1>4. CreditsOK'
  <2> SUFFICES ASSUME NEW s \in Requests
               PROVE  CreditsOK!(s)'
    BY DEF CreditsOK
  <2>1. CreditsOK!(s)
    BY DEF PaidDays, CreditsOK
  <2>2. CASE s = r
    BY <1>1, <1>2, <2>1, <2>2
  <2>3. CASE s # r
    BY <1>2, <2>1, <2>3
  <2> QED
    BY <2>2, <2>3
<1>5. RowsOK'
  BY <1>2, <1>3 DEF PaidDays, RowsOK
<1>6. DaysOK'
  <2>1. \A c, d : Find(c, d)' = {} <=> Find(c, d) = {}
    BY <1>3 DEF Find
  <2>2. \A c, d : Paying(c, d)' \subseteq Paying(c, d)
    BY <1>2 DEF Paying
  <2>3. \A c, d : Deleting(c, d) \subseteq Deleting(c, d)'
    BY <1>1, <1>2 DEF Deleting
  <2> QED
    BY <2>1, <2>2, <2>3, DaysStay DEF PaidDays
<1> QED
  BY <1>4, <1>5, <1>6 DEF PaidDays

\* The statements of a request, and their failures, preserve PaidDays.
LEMMA StepPaid ==
    ASSUME Inv, PaidDays, NEW r \in Requests, Step(r) \/ Fail(r)
    PROVE  PaidDays'
<1> USE DEF Inv, TypeOK, ExactlyOnce
<1>1. CASE GetOrCreateWallet(r)
  <2>1. LocalStep(r)
    BY <1>1 DEF LocalStep, GetOrCreateWallet
  <2> QED
    BY <2>1, LocalPaid
<1>2. CASE CreateWalletTransaction(r)
  <2>1. LocalStep(r)
    BY <1>2 DEF LocalStep, CreateWalletTransaction, EntriesOK
  <2> QED
    BY <2>1, LocalPaid
<1>3. CASE AdjustWalletBalance(r)
  <2>1. /\ AfterCredit(op[r]) \in {"delete", "bonus", "done"}
        /\ op[r] = "undo" => AfterCredit(op[r]) = "delete"
    BY DEF AfterCredit
  <2>2. LocalStep(r)
    BY <1>3, <2>1 DEF LocalStep, AdjustWalletBalance, EntriesOK
  <2> QED
    BY <2>2, LocalPaid
<1>4. CASE GetActiveAllowance(r) \/ PriceCompletion(r)
  <2>1. call[r] \in CompleteCall
    BY <1>4 DEF CallsOK, GetActiveAllowance, PriceCompletion
  <2>2. LocalStep(r)
    BY <1>4, <2>1 DEF LocalStep, GetActiveAllowance, PriceCompletion, CompleteCall
  <2> QED
    BY <2>2, LocalPaid
<1>5. CASE CompletionConflicts(r) \/ RefetchCompletion(r)
  <2>1. LocalStep(r)
    BY <1>5 DEF LocalStep, CompletionConflicts, RefetchCompletion
  <2> QED
    BY <2>1, LocalPaid
<1>6. CASE NextMember(r) \/ ListWeekCompletions(r)
  <2>1. LocalStep(r)
    BY <1>6 DEF LocalStep, NextMember, ListWeekCompletions
  <2> QED
    BY <2>1, LocalPaid
<1>7. CASE UpsertWeeklySummary(r) \/ EndBatch(r)
  <2>1. LocalStep(r)
    BY <1>7 DEF LocalStep, UpsertWeeklySummary, EndBatch
  <2> QED
    BY <2>1, LocalPaid
<1>8. CASE Fail(r)
  <2>1. LocalStep(r)
    BY <1>8 DEF LocalStep, Fail
  <2> QED
    BY <2>1, LocalPaid
<1> QED
  BY <1>1, <1>2, <1>3, <1>4, <1>5, <1>6, <1>7, <1>8, InsertCompletionPaid,
     DeleteChoreCompletionPaid, PayStreakBonusPaid, CloseWeekPaid DEF Step

\* An arrival preserves PaidDays when the entry it brings is the one its operation credits.
LEMMA ArrivePaid ==
    ASSUME Inv, PaidDays, NEW r \in Requests, NEW o \in OpNames, NEW args, NEW label, NEW e,
           Arrive(r, o, args, label),
           entry' \in {entry, [entry EXCEPT ![r] = e]},
           UNCHANGED <<completions, ledger>>,
           label # "new", label \in {"allowance", "siblings", "insert", "refetch"} => entry' = entry,
           o = "undo" => label # "done",
           entry' # entry =>
              /\ o \notin {"complete", "batch"}
              /\ e.kind # "chore_payout"
              /\ o = "undo" =>
                    /\ label = "wallet"
                    /\ e.kind = "adjustment"
                    /\ e.by = r
                    /\ e.ref \in Requests
                    /\ op[e.ref] = "complete"
                    /\ call[e.ref].chore = args.chore
                    /\ call[e.ref].date = args.date
    PROVE  PaidDays'
<1>1. pc[r] = "new" /\ op[r] = None /\ entry[r] = None
  BY DEF Arrive, PaidDays, CreditsOK
<1>2. /\ \A s \in Requests \ {r} : /\ pc'[s] = pc[s] /\ op'[s] = op[s]
                                    /\ call'[s] = call[s] /\ entry'[s] = entry[s]
      /\ pc'[r] = label /\ op'[r] = o /\ call'[r] = args
      /\ entry'[r] = entry[r] \/ (entry'[r] = e /\ entry' # entry)
  BY <1>1 DEF Arrive, Inv, TypeOK
<1>3. None \notin {"complete", "undo"}
  BY DEF OpNames
<1>4. CreditsOK'
  <2> SUFFICES ASSUME NEW s \in Requests
               PROVE  CreditsOK!(s)'
    BY DEF CreditsOK
  <2>1. CreditsOK!(s)
    BY DEF PaidDays, CreditsOK
  <2>2. CASE s = r
    <3>1. CASE entry'[r] = None
      BY <1>1, <1>2, <1>3, <2>2, <3>1
    <3>2. CASE entry'[r] # None
      <4>1. entry'[r] = e /\ entry' # entry
        BY <1>1, <1>2, <3>2
      <4>2. o = "undo" => e.ref # r
        BY <1>1, <1>3, <4>1
      <4> QED
        BY <1>1, <1>2, <1>3, <2>2, <3>2, <4>1, <4>2
    <3> QED
      BY <3>1, <3>2
  <2>3. CASE s # r
    <3>1. entry[s] # None /\ op[s] = "undo" => entry[s].ref # r
      BY <1>1, <1>3, <2>1
    <3> QED
      BY <1>2, <1>3, <2>1, <2>3, <3>1
  <2> QED
    BY <2>2, <2>3
<1>5. RowsOK'
  <2>1. \A x \in completions : x.id \in Requests \ {r}
    BY <1>1, <1>3 DEF Inv, TypeOK, Completion, PaidDays, RowsOK
  <2>2. \A x \in ledger : x.by \in Requests \ {r}
    BY <1>1 DEF Inv, TypeOK, Row, ExactlyOnce, SingleCredit
  <2> QED
    BY <1>2, <2>1, <2>2 DEF PaidDays, RowsOK
<1>6. DaysOK'
  <2>1. \A c, d : Find(c, d)' = Find(c, d)
    BY DEF Find
  <2>2. ASSUME NEW c, NEW d, NEW s \in Paying(c, d)'
        PROVE  s \in Paying(c, d)
    <3>1. s \in Requests /\ op'[s] = "complete" /\ entry'[s] # None
      BY <2>2 DEF Paying
    <3>2. s # r
      BY <1>1, <1>2, <3>1
    <3> QED
      BY <1>2, <2>2, <3>1, <3>2 DEF Paying
  <2>3. ASSUME NEW c, NEW d, NEW s \in Deleting(c, d)
        PROVE  s \in Deleting(c, d)'
    <3>1. s \in Requests \ {r}
      BY <1>1, <1>3, <2>3 DEF Deleting
    <3> QED
      BY <1>2, <2>3, <3>1 DEF Deleting
  <2> QED
    BY <2>1, <2>2, <2>3, DaysStay DEF PaidDays
<1> QED
  BY <1>4, <1>5, <1>6 DEF PaidDays

\* Every kind of request arrives in a way that preserves PaidDays.
LEMMA BeginPaid ==
    ASSUME Inv, PaidDays, NEW r \in Requests, Begin(r)
    PROVE  PaidDays'
<1> USE DEF OpNames
<1>1. ASSUME NEW o \in {"tip", "cash_out", "adjust"}, NEW m, NEW a,
             NEW n \in {"tip", "cash_out", "adjustment"}, Manual(r, o, m, a, n)
      PROVE  PaidDays'
  <2> DEFINE e == Entry(r, m, a, n, None)
  <2>1. Arrive(r, o, None, "wallet") /\ entry' = [entry EXCEPT ![r] = e]
        /\ UNCHANGED <<completions, ledger>>
    BY <1>1 DEF Manual
  <2>2. e.kind # "chore_payout"
    BY DEF Entry
  <2>3. o \in OpNames /\ o \notin {"complete", "undo", "batch"}
    OBVIOUS
  <2> HIDE DEF e, OpNames
  <2> QED
    BY <2>1, <2>2, <2>3, ArrivePaid
<1>2. ASSUME NEW t \in Tasks, ApproveAdHocTask(r, t)
      PROVE  PaidDays'
  <2> DEFINE e == Entry(r, TaskMember[t], TaskPayout[t], "ad_hoc", t)
  <2>1. \E l \in {"wallet", "done"} : Arrive(r, "approve", [task |-> t], l)
    BY <1>2 DEF ApproveAdHocTask
  <2>2. entry' \in {entry, [entry EXCEPT ![r] = e]} /\ UNCHANGED <<completions, ledger>>
    BY <1>2 DEF ApproveAdHocTask
  <2>3. e.kind # "chore_payout"
    BY DEF Entry
  <2> HIDE DEF e
  <2> QED
    BY <2>1, <2>2, <2>3, ArrivePaid
<1>3. ASSUME NEW c, NEW d, NEW caller, BeginComplete(r, c, d, caller)
      PROVE  PaidDays'
  <2>1. entry' = entry /\ UNCHANGED <<completions, ledger>>
        /\ \E args : Arrive(r, "complete", args, "allowance")
    BY <1>3 DEF BeginComplete
  <2> QED
    BY <2>1, ArrivePaid
<1>4. ASSUME NEW c \in Chores, NEW d \in Dates, NEW caller, BeginUndo(r, c, d, caller)
      PROVE  PaidDays'
  <2> DEFINE args == [chore |-> c, date |-> d]
             e(x) == Entry(r, ChoreMember[c], -x.payout, "adjustment", x.id)
  <2>1. PICK x \in Find(c, d) :
          \/ Arrive(r, "undo", args, "wallet") /\ entry' = [entry EXCEPT ![r] = e(x)]
          \/ Arrive(r, "undo", args, "delete") /\ entry' = entry
    BY <1>4 DEF BeginUndo
  <2>2. UNCHANGED <<completions, ledger>>
    BY <1>4 DEF BeginUndo
  <2>3. /\ e(x).kind = "adjustment" /\ e(x).by = r /\ e(x).ref = x.id
        /\ args.chore = c /\ args.date = d
    BY DEF Entry
  <2>4. /\ x.id \in Requests /\ op[x.id] = "complete"
        /\ call[x.id].chore = c /\ call[x.id].date = d
    BY DEF Find, Inv, TypeOK, Completion, PaidDays, RowsOK
  <2> HIDE DEF e, args
  <2>5. CASE Arrive(r, "undo", args, "wallet") /\ entry' = [entry EXCEPT ![r] = e(x)]
    BY <2>2, <2>3, <2>4, <2>5, ArrivePaid
  <2>6. CASE Arrive(r, "undo", args, "delete") /\ entry' = entry
    BY <2>2, <2>6, ArrivePaid
  <2> QED
    BY <2>1, <2>5, <2>6
<1>5. ASSUME NEW c, NEW d, RefuseUndo(r, c, d)
      PROVE  PaidDays'
  <2>1. entry' = entry /\ UNCHANGED <<completions, ledger>>
        /\ \E args : Arrive(r, "undo", args, "failed")
    BY <1>5 DEF RefuseUndo
  <2> QED
    BY <2>1, ArrivePaid
<1>6. CASE BeginBatch(r)
  <2>1. entry' = entry /\ UNCHANGED <<completions, ledger>>
        /\ \E args : Arrive(r, "batch", args, "members")
    BY <1>6 DEF BeginBatch
  <2> QED
    BY <2>1, ArrivePaid
<1> QED
  BY <1>1, <1>2, <1>3, <1>4, <1>5, <1>6 DEF Begin, Tip, CashOut, Adjust

\* Between two paid inserts of a chore's day an Undo ran its delete, in every state of
\* every household, wherever its requests interleave and stop.
THEOREM PaidDaysHolds == Spec => []PaidDays
<1>1. Init => PaidDays
  <2> SUFFICES ASSUME Init
               PROVE  PaidDays
    OBVIOUS
  <2>1. CreditsOK /\ RowsOK
    BY DEF Init, CreditsOK, RowsOK
  <2>2. ASSUME NEW c \in Chores, NEW d \in Dates
        PROVE  DaysOK!(c, d)
    <3>1. Paying(c, d) = {} /\ Deleting(c, d) = {} /\ Find(c, d) = {}
      BY DEF Init, Paying, Deleting, Find
    <3> QED
      BY <3>1, FS_EmptySet
  <2> QED
    BY <2>1, <2>2 DEF PaidDays, DaysOK
<1>2. Inv /\ PaidDays /\ [Next]_vars => PaidDays'
  <2> SUFFICES ASSUME Inv, PaidDays, [Next]_vars
               PROVE  PaidDays'
    OBVIOUS
  <2>1. CASE Configure
    <3>1. UNCHANGED <<completions, ledger, pc, op, call, entry>>
      BY <2>1 DEF Configure, CreateChore, UpdateChore, ArchiveChore, SetChore, SetAllowance,
                  CreateAdHocTask, CompleteAdHocTask, DeclineAdHocTask
    <3> QED
      BY <3>1 DEF PaidDays, CreditsOK, RowsOK, DaysOK, Paying, Deleting, Find
  <2>2. ASSUME NEW r \in Requests, Begin(r) \/ Step(r) \/ Fail(r)
        PROVE  PaidDays'
    BY <2>2, BeginPaid, StepPaid
  <2>3. CASE UNCHANGED vars
    BY <2>3 DEF vars, PaidDays, CreditsOK, RowsOK, DaysOK, Paying, Deleting, Find
  <2> QED
    BY <2>1, <2>2, <2>3 DEF Next
<1> QED
  BY <1>1, <1>2, ExactlyOnceHolds, PTL DEF Spec, Inv

\* Every payout row of a day is one of its paid inserts, and every delete of the day has
\* a reversal in the ledger or found nothing to debit.
LEMMA PaidDaysCount ==
    ASSUME Inv, PaidDays
    PROVE  EarnedOncePerDay
<1> SUFFICES ASSUME NEW c \in Chores, NEW d \in Dates
             PROVE  EarnedOncePerDay!(c, d)
  BY DEF EarnedOncePerDay
<1> DEFINE paid == DayRows("chore_payout", c, d)
           back == DayRows("adjustment", c, d)
           free == FreeUndos(c, d)
           P == Paying(c, d)
           D == Deleting(c, d)
<1>1. P \subseteq Requests /\ D \subseteq Requests /\ free \subseteq D
  BY DEF Paying, Deleting, FreeUndos
<1>2. IsFiniteSet(P) /\ IsFiniteSet(D)
  BY <1>1, FS_Subset, RequestsAssumption
<1>3. IsFiniteSet(free) /\ IsFiniteSet(D \ free)
  <2>1. IsFiniteSet(D \ free) /\ IsFiniteSet(free)
    <3> HIDE DEF D, free
    <3> QED
      BY <1>1, <1>2, FS_Subset
  <2> QED
    BY <2>1
<1>4. /\ \A e \in paid : e.by \in P /\ e = entry[e.by]
      /\ \A e \in back : e.by \in Requests /\ e = entry[e.by]
  <2>1. ASSUME NEW e \in ledger, e.kind \in {"chore_payout", "adjustment"}
        PROVE  e.by \in Requests /\ e = entry[e.by] /\ e # None
    <3>1. e \in Row /\ e.by \in Requests
      BY DEF Inv, TypeOK, Row
    <3>2. op[e.by] # "batch"
      BY <2>1 DEF PaidDays, RowsOK
    <3> QED
      BY <3>1, <3>2, RequestsAssumption DEF Inv, ExactlyOnce, SingleCredit
  <2>2. ASSUME NEW e \in paid
        PROVE  e.by \in P
    <3>1. e \in ledger /\ e.kind = "chore_payout" /\ call[e.ref].chore = c /\ call[e.ref].date = d
      BY <2>2 DEF DayRows
    <3>2. e.by \in Requests /\ e = entry[e.by] /\ e # None
      BY <2>1, <3>1
    <3>3. op[e.by] = "complete" /\ e.ref = e.by
      BY <3>1, <3>2 DEF PaidDays, CreditsOK
    <3> QED
      BY <3>1, <3>2, <3>3 DEF Paying
  <2> QED
    BY <2>1, <2>2 DEF DayRows
<1>5. Cardinality(paid) <= Cardinality(P) /\ IsFiniteSet(paid)
  <2> HIDE DEF paid, P
  <2> DEFINE f == [e \in paid |-> e.by]
  <2>1. f \in Injection(paid, P)
    BY <1>4 DEF Injection, IsInjective
  <2> QED
    BY <1>2, <2>1, FS_Injection
<1>6. IsFiniteSet(back)
  <2> HIDE DEF back
  <2> DEFINE f == [e \in back |-> e.by]
  <2>1. f \in Injection(back, Requests)
    BY <1>4 DEF Injection, IsInjective
  <2> QED
    BY <2>1, FS_Injection, RequestsAssumption
<1>7. \A s \in D \ free : entry[s] \in back /\ entry[s].by = s
  <2> SUFFICES ASSUME NEW s \in D \ free
               PROVE  entry[s] \in back /\ entry[s].by = s
    OBVIOUS
  <2>1. s \in Requests /\ op[s] = "undo" /\ pc[s] = "done" /\ entry[s] # None
        /\ call[s].chore = c /\ call[s].date = d
    BY DEF Deleting, FreeUndos
  <2>2. CreditsOK!(s)
    BY <2>1 DEF PaidDays, CreditsOK
  <2> QED
    BY <2>1, <2>2 DEF DayRows
<1>8. Cardinality(D \ free) <= Cardinality(back)
  <2> HIDE DEF back, D, free
  <2> DEFINE f == [s \in D \ free |-> entry[s]]
  <2>1. f \in Injection(D \ free, back)
    BY <1>7 DEF Injection, IsInjective
  <2> QED
    BY <1>6, <2>1, FS_Injection
<1>9. Cardinality(D) = Cardinality(free) + Cardinality(D \ free)
  <2> DEFINE E == D \ free
  <2> HIDE DEF D, free
  <2>1. free \cup E = D /\ free \cap E = {}
    BY <1>1
  <2> HIDE DEF E
  <2>2. Cardinality(free \cup E) = Cardinality(free) + Cardinality(E) - Cardinality(free \cap E)
    BY <1>3, FS_Union DEF E
  <2>3. Cardinality(free \cap E) = 0
    BY <2>1, FS_EmptySet
  <2>4. Cardinality(free) \in Nat /\ Cardinality(E) \in Nat
    BY <1>3, FS_CardinalityType DEF E
  <2>5. Cardinality(free \cup E) = Cardinality(D)
    BY <2>1, Zenon
  <2>6. Cardinality(D) = Cardinality(free) + Cardinality(E)
    BY <2>2, <2>3, <2>4, <2>5
  <2> QED
    BY <2>6 DEF E
<1>10. Cardinality(P) <= Cardinality(D) + (IF Find(c, d) = {} THEN 0 ELSE 1)
  BY DEF PaidDays, DaysOK
<1>11. /\ Cardinality(P) \in Nat /\ Cardinality(D) \in Nat /\ Cardinality(free) \in Nat
       /\ Cardinality(paid) \in Nat /\ Cardinality(back) \in Nat
       /\ Cardinality(D \ free) \in Nat
  <2> HIDE DEF P, D, free, paid, back
  <2> QED
    BY <1>2, <1>3, <1>5, <1>6, FS_CardinalityType
<1> HIDE DEF P, D, free, paid, back
<1>12. Cardinality(paid) <= Cardinality(back) + Cardinality(free) + 1
  BY <1>5, <1>8, <1>9, <1>10, <1>11
<1> QED
  BY <1>12 DEF paid, back, free

\* However many requests complete and undo one chore's day concurrently, the kid is at
\* most one payout ahead of the reversals.
THEOREM EarnedOncePerDayHolds == Spec => []EarnedOncePerDay
<1>1. Inv /\ PaidDays => EarnedOncePerDay
  BY PaidDaysCount
<1> QED
  BY <1>1, PaidDaysHolds, ExactlyOnceHolds, PTL DEF Inv

\* Total is the sum of the amounts, in the sense of FiniteFacts.
LEMMA TotalIs ==
    ASSUME NEW U, IsFiniteSet(U), NEW a \in [U -> Int], \A x \in U : a[x] = x.amount,
           NEW f \in [SUBSET U -> Int], IsSum(f, a, U), NEW S \in SUBSET U
    PROVE  Total(S) = f[S]
<1> DEFINE P(g) == g = [s \in SUBSET S |-> IF s = {} THEN 0
                          ELSE (CHOOSE x \in s : TRUE).amount + g[s \ {CHOOSE x \in s : TRUE}]]
<1>1. Total(S) = (CHOOSE g : P(g))[S]
  BY DEF Total, MapThenSumSet, MapThenFoldSet
<1>2. \A g : P(g) <=> IsSum(g, a, S)
  <2>1. \A s \in SUBSET S : s # {} => Pick(s).amount = a[Pick(s)]
    BY PickIn
  <2> SUFFICES ASSUME NEW g
               PROVE  P(g) <=> IsSum(g, a, S)
    OBVIOUS
  <2>2. [s \in SUBSET S |-> IF s = {} THEN 0 ELSE Pick(s).amount + g[s \ {Pick(s)}]]
          = [s \in SUBSET S |-> IF s = {} THEN 0 ELSE a[Pick(s)] + g[s \ {Pick(s)}]]
    BY <2>1
  <2> QED
    BY <2>2 DEF IsSum, Pick
<1> DEFINE g == [s \in SUBSET S |-> f[s]]
<1>3. g = [s \in SUBSET S |-> f[s]] /\ g[S] = f[S]
  OBVIOUS
<1> HIDE DEF P, g
<1>4. IsSum(g, a, S)
  BY <1>3, SumRestrict
<1>5. IsSum(CHOOSE q : P(q), a, S)
  BY <1>2, <1>4
<1>6. (CHOOSE q : P(q)) = g
  BY <1>4, <1>5, SumUnique, FS_Subset
<1> QED
  BY <1>1, <1>3, <1>6

\* A new row adds its amount.
LEMMA TotalAdds ==
    ASSUME NEW S, IsFiniteSet(S), \A x \in S : x.amount \in Int, NEW e, e \notin S, e.amount \in Int
    PROVE  Total(S \cup {e}) = Total(S) + e.amount
<1> DEFINE U == S \cup {e}
           a == [x \in U |-> x.amount]
<1>1. IsFiniteSet(U) /\ a \in [U -> Int] /\ (\A x \in U : a[x] = x.amount) /\ S \in SUBSET U
      /\ e \in U /\ U \ {e} = S /\ a[e] = e.amount /\ U \in SUBSET U
  BY FS_AddElement
<1> HIDE DEF U, a
<1>2. PICK f \in [SUBSET U -> Int] : IsSum(f, a, U)
  BY <1>1, SumExists
<1>3. Splits(f, a, U, e)
  BY <1>1, <1>2, SumTakesOut
<1>4. Total(U) = f[U] /\ Total(S) = f[S]
  <2>1. \A s \in SUBSET U : Total(s) = f[s]
    <3>1. IsFiniteSet(U) /\ a \in [U -> Int] /\ \A x \in U : a[x] = x.amount
      BY <1>1
    <3> QED
      BY <1>2, <3>1, TotalIs
  <2> QED
    BY <1>1, <2>1
<1>5. f[U] = e.amount + f[S] /\ f[S] \in Int
  BY <1>1, <1>2, <1>3 DEF Splits
<1>6. Total(U) = Total(S) + e.amount
  BY <1>4, <1>5
<1> QED
  BY <1>6 DEF U

\* No rows, no money.
LEMMA TotalEmpty == Total({}) = 0
<1> DEFINE a == [x \in {} |-> 0]
<1>1. a \in [{} -> Int] /\ IsFiniteSet({}) /\ {} \in SUBSET {}
  BY FS_EmptySet
<1> HIDE DEF a
<1>2. PICK f \in [SUBSET {} -> Int] : IsSum(f, a, {})
  BY <1>1, SumExists
<1>3. Total({}) = f[{}]
  BY <1>1, <1>2, TotalIs
<1>4. f[{}] = 0
  BY <1>1, <1>2 DEF IsSum
<1> QED
  BY <1>3, <1>4

\* A step writes at most one ledger row.
LEMMA LedgerGrows ==
    ASSUME [Next]_vars
    PROVE  \E e : ledger' \in {ledger, ledger \cup {e}}
<1>1. CASE Configure
  BY <1>1 DEF Configure, CreateChore, UpdateChore, ArchiveChore, SetChore, SetAllowance,
              CreateAdHocTask, CompleteAdHocTask, DeclineAdHocTask
<1>2. ASSUME NEW r \in Requests, Begin(r) \/ Fail(r)
      PROVE  ledger' = ledger
  BY <1>2 DEF Begin, Tip, CashOut, Adjust, Manual, ApproveAdHocTask, BeginComplete, BeginUndo,
              RefuseUndo, BeginBatch, Fail
<1>3. ASSUME NEW r \in Requests, Step(r)
      PROVE  ledger' \in {ledger, ledger \cup {entry[r]}}
  BY <1>3 DEF Step, GetOrCreateWallet, CreateWalletTransaction, AdjustWalletBalance,
              GetActiveAllowance, PriceCompletion, InsertCompletion, CompletionConflicts,
              RefetchCompletion, DeleteChoreCompletion, NextMember, ListWeekCompletions,
              PayStreakBonus, CloseWeek, UpsertWeeklySummary, EndBatch
<1> QED
  BY <1>1, <1>2, <1>3 DEF Next, vars

\* The second write of Credit keeps the balance equal to the posted rows.
LEMMA PostingAdds ==
    ASSUME Inv, IsFiniteSet(ledger), BalanceIsPosted, NEW r \in Requests, AdjustWalletBalance(r)
    PROVE  BalanceIsPosted'
<1> DEFINE e == entry[r]
           Of(m) == {x \in Posted : x.member = m}
<1>1. /\ e \in Row /\ e \notin Posted /\ Posted' = Posted \cup {e}
  BY AdjustPosts
<1>2. e.member \in Members /\ e.amount \in Int
  BY <1>1 DEF Row
<1>3. balance' = [balance EXCEPT ![e.member] = @ + e.amount] /\ balance \in [Members -> Int]
  BY DEF AdjustWalletBalance, Inv, TypeOK
<1>4. \A m : IsFiniteSet(Of(m)) /\ \A x \in Of(m) : x.amount \in Int
  BY FS_Subset DEF Posted, Inv, TypeOK, Row
<1> HIDE DEF e
<1>5. ASSUME NEW m \in Members
      PROVE  balance'[m] = Total(Of(m)')
  <2>1. balance[m] = Total(Of(m))
    BY DEF BalanceIsPosted
  <2>2. CASE m = e.member
    <3>1. Of(m)' = Of(m) \cup {e} /\ e \notin Of(m)
      BY <1>1, <2>2
    <3> HIDE DEF Of
    <3>2. Total(Of(m) \cup {e}) = Total(Of(m)) + e.amount
      BY <1>2, <1>4, <3>1, TotalAdds
    <3>3. balance'[m] = balance[m] + e.amount
      BY <1>3, <2>2
    <3> QED
      BY <2>1, <3>1, <3>2, <3>3
  <2>3. CASE m # e.member
    <3>1. Of(m)' = Of(m)
      BY <1>1, <2>3
    <3> QED
      BY <1>3, <2>1, <2>3, <3>1
  <2> QED
    BY <2>2, <2>3
<1> QED
  BY <1>5 DEF BalanceIsPosted

\* wallets.balance_cents is the sum of the member's posted ledger rows in every state of
\* every household, wherever its requests interleave and stop.
THEOREM BalanceIsPostedHolds == Spec => []BalanceIsPosted
<1> DEFINE J == IsFiniteSet(ledger) /\ BalanceIsPosted
<1>1. Init => J
  <2> SUFFICES ASSUME Init
               PROVE  J
    OBVIOUS
  <2>1. ledger = {} /\ balance = [m \in Members |-> 0]
    BY DEF Init
  <2>2. \A m \in Members : {e \in Posted : e.member = m} = {}
    BY <2>1 DEF Posted
  <2> QED
    BY <2>1, <2>2, FS_EmptySet, TotalEmpty DEF BalanceIsPosted
<1>2. Inv /\ J /\ [Next]_vars => J'
  <2> SUFFICES ASSUME Inv, J, [Next]_vars
               PROVE  J'
    OBVIOUS
  <2>1. IsFiniteSet(ledger)'
    BY LedgerGrows, FS_AddElement
  <2>2. BalanceIsPosted'
    <3>1. CASE Posted' = Posted /\ balance' = balance
      BY <3>1 DEF BalanceIsPosted
    <3>2. ASSUME NEW r \in Requests, AdjustWalletBalance(r)
          PROVE  BalanceIsPosted'
      BY <3>2, PostingAdds
    <3> QED
      BY <3>1, <3>2, AbstractStep
  <2> QED
    BY <2>1, <2>2
<1> QED
  BY <1>1, <1>2, ExactlyOnceHolds, PTL DEF Spec, Inv

==============================================================================
