---------------------------- MODULE ChoreWallet -----------------------------
(***************************************************************************)
(* Chores, kid wallets, ad-hoc tasks and the week-end batch of one         *)
(* household: internal/service/chore.go, internal/service/wallet.go,       *)
(* internal/handler/chore.go, internal/handler/wallet.go and               *)
(* internal/cron/week_end_batch.go over the tables of                      *)
(* migrations/20260427000010_chore_wallet.sql.                             *)
(*                                                                         *)
(* The server runs every HTTP request in a goroutine of its own and no     *)
(* request opens a database transaction, so each SQL statement commits by  *)
(* itself.  A request is a process that performs one statement per step;   *)
(* requests interleave between any two statements, and any statement may   *)
(* fail (a database error, a cancelled context, a server stop), which      *)
(* ends the request with everything before it committed.                   *)
(*                                                                         *)
(* A request r in Requests is used once.  A uuid.New() evaluated by r is   *)
(* represented by r: the id of the completion row it inserts, and the      *)
(* `by' field of the ledger rows it writes.                                *)
(***************************************************************************)
EXTENDS Integers, FiniteSets, FiniteSetsExt

CONSTANTS
    Members,            \* members of the household, each with one wallet
    Admins,             \* the members whose role is admin or owner
    Chores, Dates,      \* chore ids; calendar dates of completions
    Week,               \* the dates of the last full week (lastFullWeek)
    Tasks,              \* ad-hoc task ids
    Requests,           \* one-shot requests
    ChoreMember,        \* chores.member_id: fixed, UpdateChore never sets it
    TaskMember,         \* ad_hoc_tasks.member_id
    TaskPayout,         \* ad_hoc_tasks.payout_cents
    Settings,           \* the [weight, freq, auto] a chore may be given
    Allowances,         \* the amounts SetAllowance may be called with
    Amounts,            \* the amounts of manual wallet operations
    Ops,                \* the kinds of request that may arrive
    MayFail,            \* may a statement fail?
    PayoutCents(_,_,_), \* CompletionPrice of PayoutMath, at the household rate
    BonusCents(_),      \* WeekBonus of PayoutMath
    None                \* SQL NULL

VARIABLES
    chores,       \* chores: status and settings
    allowances,   \* allowance_settings: the amounts of the latest active_from
    completions,  \* chore_completions
    tasks,        \* ad_hoc_tasks.status
    summaries,    \* weekly_summaries: the members summarised for Week
    wallets,      \* wallets: the members that have a row
    ledger,       \* wallet_transactions
    balance,      \* wallets.balance_cents
    pc,           \* the next statement of each request
    op,           \* what each request does
    call,         \* its arguments and local variables
    entry         \* the ledger row it is crediting

tables == <<chores, allowances, completions, tasks, summaries>>
money  == <<wallets, ledger, balance>>
vars   == <<tables, money, pc, op, call, entry>>

OpNames == {"complete", "undo", "tip", "cash_out", "adjust", "approve", "batch"}

\* What PriceCompletion can be asked to price, and the prices that come out.
Weights  == {s.weight : s \in Settings}
Siblings == UNION {[S -> Settings] : S \in SUBSET Chores}
Payouts  == {0} \cup {PayoutCents(a, w, f) :
                        a \in Allowances \cup {0}, w \in Weights, f \in Siblings}

ASSUME SetsAssumption ==
    /\ Week \subseteq Dates
    /\ Admins \subseteq Members
    /\ Ops \subseteq OpNames
    /\ MayFail \in BOOLEAN
    /\ None \notin OpNames
ASSUME TablesAssumption ==
    /\ ChoreMember \in [Chores -> Members]
    /\ TaskMember \in [Tasks -> Members]
    /\ TaskPayout \in [Tasks -> Nat]
    /\ Settings \subseteq [weight : Nat, freq : Nat, auto : BOOLEAN]
    /\ Allowances \subseteq Nat
    /\ Amounts \subseteq Int
ASSUME PriceAssumption ==
    /\ Payouts \subseteq Nat
    /\ \A f \in [Week -> Payouts] : BonusCents(f) \in Nat

Completion ==
    [id : Requests, chore : Chores, date : Dates,
     approved : BOOLEAN, payout : Payouts, closed : BOOLEAN]

Kinds == {"chore_payout", "streak_bonus", "tip", "ad_hoc", "cash_out", "adjustment"}

Row ==
    [by : Requests, member : Members, amount : Int, kind : Kinds,
     ref : Requests \cup Chores \cup Tasks \cup {None}]

\* Any finite number of requests; NULL is not a row.
ASSUME RequestsAssumption == IsFiniteSet(Requests) /\ None \notin Row

TaskStatus == {"absent", "open", "pending", "approved", "declined"}

\* Arguments and local variables of the requests that have any.
CompleteCall == [chore : Chores, date : Dates, auto : BOOLEAN, weight : Weights,
                 allowance : Allowances \cup {0}, payout : Payouts]
UndoCall     == [chore : Chores, date : Dates]
ApproveCall  == [task : Tasks]
BatchCall    == [left : SUBSET Members, who : Members \cup {None},
                 snap : Siblings, dues : SUBSET Row]

CreditSteps == {"wallet", "txn", "adjust"}
Busy == CreditSteps \cup
        {"allowance", "siblings", "insert", "refetch", "delete",
         "members", "completions", "bonus", "summary"}
\* "lost" is a request that stopped between the ledger row and the balance.
Finished == {"done", "failed", "lost"}

TypeOK ==
    /\ chores \in [Chores -> [status : {"absent", "active", "archived"},
                              cfg : Settings]]
    /\ allowances \in [Members -> SUBSET Allowances]
    /\ completions \subseteq Completion
    /\ tasks \in [Tasks -> TaskStatus]
    /\ summaries \subseteq Members
    /\ wallets \subseteq Members
    /\ ledger \subseteq Row
    /\ balance \in [Members -> Int]
    /\ pc \in [Requests -> {"new"} \cup Busy \cup Finished]
    /\ op \in [Requests -> OpNames \cup {None}]
    /\ call \in [Requests -> CompleteCall \cup UndoCall \cup ApproveCall
                             \cup BatchCall \cup {None}]
    /\ entry \in [Requests -> Row \cup {None}]

\* Chores that already exist when the requests start are active, with any of
\* the settings; the ones in no status yet are created by CreateChore.
Init ==
    /\ chores \in [Chores -> [status : {"absent", "active"}, cfg : Settings]]
    /\ allowances = [m \in Members |-> {}]
    /\ completions = {}
    /\ tasks = [t \in Tasks |-> "absent"]
    /\ summaries = {}
    /\ wallets = {}
    /\ ledger = {}
    /\ balance = [m \in Members |-> 0]
    /\ pc = [r \in Requests |-> "new"]
    /\ op = [r \in Requests |-> None]
    /\ call = [r \in Requests |-> None]
    /\ entry = [r \in Requests |-> None]

-----------------------------------------------------------------------------
(***************************************************************************)
(* Requests of a single statement.                                         *)
(***************************************************************************)

\* isAdmin(role) || callerMember == owner, the check of the handlers a kid may call.
MayAct(caller, owner) == caller \in Admins \/ caller = owner

SetChore(c, status, s) ==
    /\ chores' = [chores EXCEPT ![c] = [status |-> status, cfg |-> s]]
    /\ UNCHANGED <<allowances, completions, tasks, summaries, money, pc, op, call, entry>>

CreateChore(c, s) == chores[c].status = "absent" /\ SetChore(c, "active", s)

\* Every field of the PATCH body is optional, so any settings may result.  An
\* archived chore can be updated as well.
UpdateChore(c, s) == chores[c].status # "absent" /\ SetChore(c, chores[c].status, s)

ArchiveChore(c) == chores[c].status # "absent" /\ SetChore(c, "archived", chores[c].cfg)

\* UpsertAllowance only ever inserts.  A second row with the active_from date
\* of the first joins it; the first row of a later date supersedes all others.
SetAllowance(m, a) ==
    /\ \E sameDay \in BOOLEAN :
          allowances' = [allowances EXCEPT ![m] = IF sameDay THEN @ \cup {a} ELSE {a}]
    /\ UNCHANGED <<chores, completions, tasks, summaries, money, pc, op, call, entry>>

SetTask(t, from, to) ==
    /\ tasks[t] = from
    /\ tasks' = [tasks EXCEPT ![t] = to]

CreateAdHocTask(t) ==
    /\ SetTask(t, "absent", "open")
    /\ UNCHANGED <<chores, allowances, completions, summaries, money, pc, op, call, entry>>

\* MarkAdHocTaskCompleted ... WHERE status = 'open'
CompleteAdHocTask(t, caller) ==
    /\ MayAct(caller, TaskMember[t])
    /\ SetTask(t, "open", "pending")
    /\ UNCHANGED <<chores, allowances, completions, summaries, money, pc, op, call, entry>>

\* UPDATE ... SET status = 'declined' ... WHERE status = 'pending'
DeclineAdHocTask(t) ==
    /\ SetTask(t, "pending", "declined")
    /\ UNCHANGED <<chores, allowances, completions, summaries, money, pc, op, call, entry>>

-----------------------------------------------------------------------------
(***************************************************************************)
(* The life of a request.                                                  *)
(***************************************************************************)

Goto(r, label) == pc' = [pc EXCEPT ![r] = label]

\* Request r arrives as operation o with arguments args and goes to label.
Arrive(r, o, args, label) ==
    /\ pc[r] = "new"
    /\ o \in Ops
    /\ op' = [op EXCEPT ![r] = o]
    /\ call' = [call EXCEPT ![r] = args]
    /\ Goto(r, label)

At(r, o, label) == op[r] = o /\ pc[r] = label

Entry(r, m, a, k, x) == [by |-> r, member |-> m, amount |-> a, kind |-> k, ref |-> x]

\* The statement that request r is about to run fails, or the server stops.
Fail(r) ==
    /\ MayFail
    /\ pc[r] \in Busy
    /\ Goto(r, IF pc[r] = "adjust" THEN "lost" ELSE "failed")
    /\ UNCHANGED <<tables, money, op, call, entry>>

-----------------------------------------------------------------------------
(***************************************************************************)
(* WalletService.Credit: three statements.                                 *)
(***************************************************************************)

GetOrCreateWallet(r) ==
    /\ pc[r] = "wallet"
    /\ wallets' = wallets \cup {entry[r].member}
    /\ Goto(r, "txn")
    /\ UNCHANGED <<tables, ledger, balance, op, call, entry>>

\* The partial unique index uniq_wallet_tx_chore_payout_reference.
PayoutIndexAdmits(e) ==
    e.kind = "chore_payout" => \A f \in ledger : f.kind = e.kind => f.ref # e.ref

CreateWalletTransaction(r) ==
    /\ pc[r] = "txn"
    /\ IF PayoutIndexAdmits(entry[r])
       THEN ledger' = ledger \cup {entry[r]} /\ Goto(r, "adjust")
       ELSE ledger' = ledger /\ Goto(r, "failed")
    /\ UNCHANGED <<tables, wallets, balance, op, call, entry>>

\* What the caller of Credit does once it returns.
AfterCredit(o) ==
    CASE o = "undo"  -> "delete"
      [] o = "batch" -> "bonus"
      [] OTHER       -> "done"

\* Mutant: SET balance_cents = $2 instead of balance_cents + $2.
AdjustWalletBalanceOverwrites(r) ==
    /\ pc[r] = "adjust"
    /\ balance' = [balance EXCEPT ![entry[r].member] = entry[r].amount]
    /\ Goto(r, AfterCredit(op[r]))
    /\ UNCHANGED <<tables, wallets, ledger, op, call, entry>>

AdjustWalletBalance(r) ==
    /\ pc[r] = "adjust"
    /\ balance' = [balance EXCEPT ![entry[r].member] = @ + entry[r].amount]
    /\ Goto(r, AfterCredit(op[r]))
    /\ UNCHANGED <<tables, wallets, ledger, op, call, entry>>

\* Tip, CashOut and Adjust go straight to Credit.
Manual(r, o, m, a, k) ==
    /\ Arrive(r, o, None, "wallet")
    /\ entry' = [entry EXCEPT ![r] = Entry(r, m, a, k, None)]
    /\ UNCHANGED <<tables, money>>

Tip(r, m, a)     == a > 0 /\ Manual(r, "tip", m, a, "tip")
CashOut(r, m, a) == a > 0 /\ Manual(r, "cash_out", m, -a, "cash_out")
Adjust(r, m, a)  == Manual(r, "adjust", m, a, "adjustment")

\* Mutant: the approval does not look at the status.
ApproveAdHocTaskUnguarded(r, t) ==
    /\ tasks[t] # "absent"
    /\ tasks' = [tasks EXCEPT ![t] = "approved"]
    /\ Arrive(r, "approve", [task |-> t], "wallet")
    /\ entry' = [entry EXCEPT ![r] =
                   Entry(r, TaskMember[t], TaskPayout[t], "ad_hoc", t)]
    /\ UNCHANGED <<chores, allowances, completions, summaries, money>>

\* UPDATE ... SET status = 'approved' ... WHERE status = 'pending', then Credit.
ApproveAdHocTask(r, t) ==
    /\ SetTask(t, "pending", "approved")
    /\ IF TaskPayout[t] > 0
       THEN /\ Arrive(r, "approve", [task |-> t], "wallet")
            /\ entry' = [entry EXCEPT ![r] =
                           Entry(r, TaskMember[t], TaskPayout[t], "ad_hoc", t)]
       ELSE /\ Arrive(r, "approve", [task |-> t], "done")
            /\ entry' = entry
    /\ UNCHANGED <<chores, allowances, completions, summaries, money>>

-----------------------------------------------------------------------------
(***************************************************************************)
(* ChoreService.Complete and ChoreService.Undo.                            *)
(***************************************************************************)

Find(c, d) == {x \in completions : x.chore = c /\ x.date = d}

\* Mutant: the allowance starts as NULL, not as 0.
BeginCompleteNull(r, c, d, caller) ==
    /\ chores[c].status # "absent"
    /\ MayAct(caller, ChoreMember[c])
    /\ Arrive(r, "complete",
              [chore |-> c, date |-> d, auto |-> chores[c].cfg.auto,
               weight |-> chores[c].cfg.weight, allowance |-> None, payout |-> 0],
              "allowance")
    /\ UNCHANGED <<tables, money, entry>>

\* The handler's check, then GetChore: an archived chore is found too.
BeginComplete(r, c, d, caller) ==
    /\ chores[c].status # "absent"
    /\ MayAct(caller, ChoreMember[c])
    /\ Arrive(r, "complete",
              [chore |-> c, date |-> d, auto |-> chores[c].cfg.auto,
               weight |-> chores[c].cfg.weight, allowance |-> 0, payout |-> 0],
              "allowance")
    /\ UNCHANGED <<tables, money, entry>>

\* ORDER BY active_from DESC LIMIT 1 picks any of the rows of the latest date.
\* An error is treated like a missing row: no allowance.
GetActiveAllowance(r) ==
    /\ At(r, "complete", "allowance")
    /\ LET rows == allowances[ChoreMember[call[r].chore]]
       IN  \E a \in rows \cup {0} :
              /\ a \in rows \/ rows = {} \/ MayFail
              /\ call' = [call EXCEPT ![r].allowance = a]
    /\ Goto(r, "siblings")
    /\ UNCHANGED <<tables, money, op, entry>>

ActiveChores(m) ==
    [c \in {c \in Chores : ChoreMember[c] = m /\ chores[c].status = "active"}
       |-> chores[c].cfg]

PriceCompletion(r) ==
    /\ At(r, "complete", "siblings")
    /\ call' = [call EXCEPT ![r].payout =
                  PayoutCents(call[r].allowance, call[r].weight,
                              ActiveChores(ChoreMember[call[r].chore]))]
    /\ Goto(r, "insert")
    /\ UNCHANGED <<tables, money, op, entry>>

\* Mutant: the insert does not look for a conflict.
InsertCompletionAlways(r) ==
    LET k == call[r] IN
    /\ At(r, "complete", "insert")
    /\ completions' = completions \cup
         {[id |-> r, chore |-> k.chore, date |-> k.date,
           approved |-> k.auto, payout |-> k.payout, closed |-> FALSE]}
    /\ Goto(r, "wallet")
    /\ entry' = [entry EXCEPT ![r] =
         Entry(r, ChoreMember[k.chore], k.payout, "chore_payout", r)]
    /\ UNCHANGED <<chores, allowances, tasks, summaries, money, op, call>>

\* INSERT ... ON CONFLICT (chore_id, date) DO NOTHING, when there is no
\* conflict.  The payout is recorded whether or not it is credited.
InsertCompletion(r) ==
    LET k == call[r] IN
    /\ At(r, "complete", "insert")
    /\ Find(k.chore, k.date) = {}
    /\ completions' = completions \cup
         {[id |-> r, chore |-> k.chore, date |-> k.date,
           approved |-> k.auto, payout |-> k.payout, closed |-> FALSE]}
    /\ IF k.auto /\ k.payout > 0
       THEN /\ Goto(r, "wallet")
            /\ entry' = [entry EXCEPT ![r] =
                 Entry(r, ChoreMember[k.chore], k.payout, "chore_payout", r)]
       ELSE Goto(r, "done") /\ entry' = entry
    /\ UNCHANGED <<chores, allowances, tasks, summaries, money, op, call>>

CompletionConflicts(r) ==
    /\ At(r, "complete", "insert")
    /\ Find(call[r].chore, call[r].date) # {}
    /\ Goto(r, "refetch")
    /\ UNCHANGED <<tables, money, op, call, entry>>

\* Mutant: on a conflict the insert is tried again.
RefetchCompletionRetries(r) ==
    /\ At(r, "complete", "refetch")
    /\ Goto(r, "insert")
    /\ UNCHANGED <<tables, money, op, call, entry>>

\* The existing row is returned with no credit; it may be gone by now.
RefetchCompletion(r) ==
    /\ At(r, "complete", "refetch")
    /\ Goto(r, IF Find(call[r].chore, call[r].date) = {} THEN "failed" ELSE "done")
    /\ UNCHANGED <<tables, money, op, call, entry>>

\* GetChoreCompletion finds nothing, or a row of a closed week.
RefuseUndo(r, c, d) ==
    /\ \A x \in Find(c, d) : x.closed
    /\ Arrive(r, "undo", [chore |-> c, date |-> d], "failed")
    /\ UNCHANGED <<tables, money, entry>>

BeginUndo(r, c, d, caller) ==
    /\ MayAct(caller, ChoreMember[c])
    /\ \E x \in Find(c, d) :
          /\ ~x.closed
          /\ IF x.payout > 0
             THEN /\ Arrive(r, "undo", [chore |-> c, date |-> d], "wallet")
                  /\ entry' = [entry EXCEPT ![r] =
                       Entry(r, ChoreMember[c], -x.payout, "adjustment", x.id)]
             ELSE /\ Arrive(r, "undo", [chore |-> c, date |-> d], "delete")
                  /\ entry' = entry
    /\ UNCHANGED <<tables, money>>

\* Mutant: the delete has no closed = FALSE.
DeleteChoreCompletionAny(r) ==
    /\ At(r, "undo", "delete")
    /\ completions' = completions \ Find(call[r].chore, call[r].date)
    /\ Goto(r, "done")
    /\ UNCHANGED <<chores, allowances, tasks, summaries, money, op, call, entry>>

\* DELETE ... WHERE chore_id = $1 AND date = $2 AND closed = FALSE: the row of
\* the day, which need not be the one BeginUndo read.
DeleteChoreCompletion(r) ==
    /\ At(r, "undo", "delete")
    /\ completions' = completions \
         {x \in Find(call[r].chore, call[r].date) : ~x.closed}
    /\ Goto(r, "done")
    /\ UNCHANGED <<chores, allowances, tasks, summaries, money, op, call, entry>>

-----------------------------------------------------------------------------
(***************************************************************************)
(* WeekEndBatch.RunForHousehold.                                           *)
(***************************************************************************)

BeginBatch(r) ==
    /\ Arrive(r, "batch",
              [left |-> Members, who |-> None, snap |-> [c \in {} |-> None], dues |-> {}],
              "members")
    /\ UNCHANGED <<tables, money, entry>>

\* The next member of the household: ListChores, archived ones excluded.
NextMember(r) ==
    /\ At(r, "batch", "members")
    /\ \E m \in call[r].left :
          call' = [call EXCEPT ![r].left = @ \ {m}, ![r].who = m, ![r].snap = ActiveChores(m)]
    /\ Goto(r, "completions")
    /\ UNCHANGED <<tables, money, op, entry>>

DoneDates(c) == {d \in Week : Find(c, d) # {}}
Earned(c) ==
    [d \in Week |-> IF Find(c, d) = {} THEN 0 ELSE (CHOOSE x \in Find(c, d) : TRUE).payout]

\* ListChoreCompletionsForWeek fixes every bonus of the member's week.
ListWeekCompletions(r) ==
    LET k == call[r]
        full == {c \in DOMAIN k.snap : /\ k.snap[c].freq > 0
                                       /\ Cardinality(DoneDates(c)) >= k.snap[c].freq
                                       /\ BonusCents(Earned(c)) > 0}
    IN  /\ At(r, "batch", "completions")
        /\ call' = [call EXCEPT ![r].dues =
             {Entry(r, k.who, BonusCents(Earned(c)), "streak_bonus", c) : c \in full}]
        /\ Goto(r, "bonus")
        /\ UNCHANGED <<tables, money, op, entry>>

\* Mutant: the bonus that is being paid stays due.
PayStreakBonusAgain(r) ==
    /\ At(r, "batch", "bonus")
    /\ \E e \in call[r].dues : entry' = [entry EXCEPT ![r] = e]
    /\ Goto(r, "wallet")
    /\ UNCHANGED <<tables, money, op, call>>

PayStreakBonus(r) ==
    /\ At(r, "batch", "bonus")
    /\ \E e \in call[r].dues :
          /\ entry' = [entry EXCEPT ![r] = e]
          /\ call' = [call EXCEPT ![r].dues = @ \ {e}]
    /\ Goto(r, "wallet")
    /\ UNCHANGED <<tables, money, op>>

\* CloseChoreCompletionsForWeek: by member and date, whatever was read before.
CloseWeek(r) ==
    LET inWeek == {x \in completions : ChoreMember[x.chore] = call[r].who /\ x.date \in Week}
    IN  /\ At(r, "batch", "bonus")
        /\ call[r].dues = {}
        /\ completions' = (completions \ inWeek)
                            \cup {[x EXCEPT !.closed = TRUE] : x \in inWeek}
        /\ Goto(r, "summary")
        /\ UNCHANGED <<chores, allowances, tasks, summaries, money, op, call, entry>>

UpsertWeeklySummary(r) ==
    /\ At(r, "batch", "summary")
    /\ summaries' = summaries \cup {call[r].who}
    /\ Goto(r, "members")
    /\ UNCHANGED <<chores, allowances, completions, tasks, money, op, call, entry>>

EndBatch(r) ==
    /\ At(r, "batch", "members")
    /\ call[r].left = {}
    /\ Goto(r, "done")
    /\ UNCHANGED <<tables, money, op, call, entry>>

-----------------------------------------------------------------------------
Configure ==
    \/ \E c \in Chores, s \in Settings : CreateChore(c, s) \/ UpdateChore(c, s)
    \/ \E c \in Chores : ArchiveChore(c)
    \/ \E m \in Members, a \in Allowances : SetAllowance(m, a)
    \/ \E t \in Tasks : CreateAdHocTask(t) \/ DeclineAdHocTask(t)
    \/ \E t \in Tasks, caller \in Members : CompleteAdHocTask(t, caller)

Begin(r) ==
    \/ \E m \in Members, a \in Amounts : Tip(r, m, a) \/ CashOut(r, m, a) \/ Adjust(r, m, a)
    \/ \E t \in Tasks : ApproveAdHocTask(r, t)
    \/ \E c \in Chores, d \in Dates, caller \in Members :
          BeginComplete(r, c, d, caller) \/ BeginUndo(r, c, d, caller)
    \/ \E c \in Chores, d \in Dates : RefuseUndo(r, c, d)
    \/ BeginBatch(r)

\* The next statement of a request that has begun.
Step(r) ==
    \/ GetOrCreateWallet(r) \/ CreateWalletTransaction(r) \/ AdjustWalletBalance(r)
    \/ GetActiveAllowance(r) \/ PriceCompletion(r) \/ InsertCompletion(r)
    \/ CompletionConflicts(r) \/ RefetchCompletion(r) \/ DeleteChoreCompletion(r)
    \/ NextMember(r) \/ ListWeekCompletions(r) \/ PayStreakBonus(r)
    \/ CloseWeek(r) \/ UpsertWeeklySummary(r) \/ EndBatch(r)

Next == Configure \/ \E r \in Requests : Begin(r) \/ Step(r) \/ Fail(r)

Spec == Init /\ [][Next]_vars

-----------------------------------------------------------------------------
(***************************************************************************)
(* Properties that hold.                                                   *)
(***************************************************************************)

\* A ledger row whose balance adjustment has not run: the request is about to
\* run it, or stopped there.
Unposted(e) == pc[e.by] \in {"adjust", "lost"} /\ entry[e.by] = e
Posted == {e \in ledger : ~Unposted(e)}

Total(S) == MapThenSumSet(LAMBDA e : e.amount, S)

\* Whatever the interleaving and wherever requests stop, wallets.balance_cents
\* is the sum of the member's ledger rows, except for the rows of requests that
\* stand, or stopped, between the two writes of Credit (wallet.go).
BalanceIsPosted ==
    \A m \in Members : balance[m] = Total({e \in Posted : e.member = m})

\* Credit's statements implement an atomic ledger write: seen through Posted,
\* every step appends one new row and moves its owner's balance by its amount,
\* or changes nothing.
Abstract == INSTANCE AtomicLedger WITH posted <- Posted
ImplementsAtomicLedger == Abstract!Spec

\* An ad-hoc task pays at most once, and only if it ended up approved: neither a
\* second approval nor a decline that races with an approval (wallet.go handlers)
\* leaves a task paid twice, or paid and declined.
TaskPaidOnce ==
    \A e, f \in ledger :
        e.kind = "ad_hoc" /\ f.kind = "ad_hoc" /\ e.ref = f.ref =>
            e = f /\ tasks[e.ref] = "approved"

\* A completion the batch has closed is never deleted or changed again, although
\* an Undo may have read it while it was still open (chore.go, Undo).
ClosedStays == [][\A x \in completions : x.closed => x \in completions']_vars

DayRows(k, c, d) ==
    {e \in ledger : /\ e.kind = k
                    /\ e.ref \in Requests
                    /\ call[e.ref].chore = c
                    /\ call[e.ref].date = d}

\* The Undo requests of a day that ran to the end after reading a completion
\* priced 0, for which there was nothing to debit.
FreeUndos(c, d) ==
    {r \in Requests : /\ At(r, "undo", "done")
                      /\ call[r].chore = c
                      /\ call[r].date = d
                      /\ entry[r] = None}

\* A chore earns at most one payout a day net of its reversals: requests that
\* complete and undo the same day concurrently never leave the kid two payouts
\* ahead (chore.go, Complete and Undo).  Only an Undo that found nothing to debit
\* may make room for another payout without a reversal in the ledger.
EarnedOncePerDay ==
    \A c \in Chores, d \in Dates :
        Cardinality(DayRows("chore_payout", c, d))
            <= Cardinality(DayRows("adjustment", c, d)) + Cardinality(FreeUndos(c, d)) + 1

-----------------------------------------------------------------------------
(***************************************************************************)
(* The inductive invariant behind ImplementsAtomicLedger and TaskPaidOnce. *)
(***************************************************************************)

\* Which request stands where, and with which local variables.
CallsOK ==
    \A r \in Requests :
        /\ pc[r] \in {"allowance", "siblings", "insert", "refetch"} => op[r] = "complete"
        /\ pc[r] = "delete" => op[r] = "undo"
        /\ pc[r] \in {"members", "completions", "bonus", "summary"} => op[r] = "batch"
        /\ op[r] = "complete" => call[r] \in CompleteCall
        /\ op[r] = "undo"     => call[r] \in UndoCall
        /\ op[r] = "approve"  => call[r] \in ApproveCall
        /\ op[r] = "batch"    => call[r] \in BatchCall

\* A request credits a row of its own, and never a row it has already written.
EntriesOK ==
    \A r \in Requests :
        /\ pc[r] \in CreditSteps \cup {"lost"} => entry[r] \in Row /\ entry[r].by = r
        /\ pc[r] \in {"wallet", "txn"} => entry[r] \notin ledger
        /\ pc[r] \in {"adjust", "lost"} => entry[r] \in ledger
        /\ pc[r] \in CreditSteps /\ entry[r].kind = "ad_hoc" =>
              op[r] = "approve" /\ entry[r].ref = call[r].task

\* A request other than the batch writes at most the one row it credits.
SingleCredit ==
    \A e \in ledger :
        /\ pc[e.by] \notin {"new", "allowance", "siblings", "insert", "refetch"}
        /\ op[e.by] # "batch" => e = entry[e.by]

\* The batch owes a member's bonuses only while it works on that member, and
\* a bonus it has written is no longer owed.
BatchOK ==
    \A r \in Requests : op[r] = "batch" =>
        /\ pc[r] \in {"completions", "bonus", "summary"} \cup CreditSteps =>
              call[r].who \in Members /\ call[r].who \notin call[r].left
        /\ pc[r] \in {"members", "completions", "summary"} => call[r].dues = {}
        /\ \A e \in call[r].dues : /\ e.by = r
                                   /\ e.member = call[r].who
                                   /\ e.kind = "streak_bonus"
                                   /\ e \notin ledger
        /\ pc[r] \in CreditSteps => /\ entry[r].member = call[r].who
                                    /\ entry[r] \notin call[r].dues
        /\ \A e \in ledger : e.by = r =>
              /\ e.member \notin call[r].left
              /\ pc[r] = "completions" => e.member # call[r].who

\* A task that some request approved stays approved and was approved by no other.
TasksOK ==
    /\ \A r \in Requests : op[r] = "approve" => tasks[call[r].task] = "approved"
    /\ \A r, s \in Requests :
          op[r] = "approve" /\ op[s] = "approve" /\ call[r].task = call[s].task => r = s
    /\ \A e \in ledger : e.kind = "ad_hoc" =>
          op[e.by] = "approve" /\ e.ref = call[e.by].task

\* No request credits a ledger row twice, whatever it is interleaved with.
ExactlyOnce == CallsOK /\ EntriesOK /\ SingleCredit /\ BatchOK /\ TasksOK

\* What a request credits follows from what it does: a Complete its own payout, an
\* Undo the reversal of a completion of its day, which is in the ledger before it
\* deletes anything.
CreditsOK ==
    \A r \in Requests :
        /\ pc[r] = "new" => op[r] = None
        /\ pc[r] \in {"new", "allowance", "siblings", "insert", "refetch"} => entry[r] = None
        /\ entry[r] # None =>
              /\ entry[r].kind = "chore_payout" <=> op[r] = "complete"
              /\ op[r] = "batch" => entry[r].kind = "streak_bonus"
              /\ op[r] = "complete" => entry[r].ref = r
              /\ op[r] = "undo" =>
                    /\ entry[r].kind = "adjustment"
                    /\ entry[r].by = r
                    /\ entry[r].ref \in Requests
                    /\ op[entry[r].ref] = "complete"
                    /\ call[entry[r].ref].chore = call[r].chore
                    /\ call[entry[r].ref].date = call[r].date
                    /\ pc[r] \in {"adjust", "delete", "done"} => entry[r] \in ledger

\* A completion is a row of the request that inserted it; the batch writes bonuses.
RowsOK ==
    /\ \A x \in completions : /\ op[x.id] = "complete"
                              /\ call[x.id].chore = x.chore
                              /\ call[x.id].date = x.date
    /\ \A e \in ledger : op[e.by] = "batch" => e.kind = "streak_bonus"

\* The Complete requests that inserted a completion of the day with a payout to
\* credit, and the Undo requests that ran their delete.
Paying(c, d) ==
    {r \in Requests : /\ op[r] = "complete" /\ entry[r] # None
                      /\ call[r].chore = c /\ call[r].date = d}
Deleting(c, d) ==
    {r \in Requests : At(r, "undo", "done") /\ call[r].chore = c /\ call[r].date = d}

\* Between two paid inserts of a day some Undo deleted the row of the first.
DaysOK ==
    \A c \in Chores, d \in Dates :
        Cardinality(Paying(c, d))
            <= Cardinality(Deleting(c, d)) + (IF Find(c, d) = {} THEN 0 ELSE 1)

\* The inductive invariant behind EarnedOncePerDay, on top of ExactlyOnce.
PaidDays == CreditsOK /\ RowsOK /\ DaysOK

-----------------------------------------------------------------------------
(***************************************************************************)
(* What a comment of the repository says, and the code does not do.        *)
(***************************************************************************)

Reversal(e) == e.kind = "adjustment" /\ e.ref # None

\* chore.go:234, Undo debits the wallet "if a payout was made": a reversal has a
\* payout of the same completion to reverse.
UndoReversesPayout ==
    \A e \in ledger : Reversal(e) =>
        \E p \in ledger : p.kind = "chore_payout" /\ p.ref = e.ref
=============================================================================
