---------------------------- MODULE AtomicLedger ----------------------------
(***************************************************************************)
(* What the wallet promises its callers, taken from how they use           *)
(* WalletService.Credit (internal/service/wallet.go): a ledger entry and   *)
(* the balance it belongs to change together, in one step, and an entry    *)
(* counts once.  ChoreWallet implements it with three separately           *)
(* committed SQL statements; its refinement mapping takes `posted' to be   *)
(* the ledger rows whose balance adjustment has run.                       *)
(***************************************************************************)
EXTENDS Integers

CONSTANTS Members,  \* the members that own a wallet
          Row       \* the ledger entries that can be written

VARIABLES posted,   \* the entries that count
          balance   \* wallets.balance_cents, per member

vars == <<posted, balance>>

Init ==
    /\ posted = {}
    /\ balance = [m \in Members |-> 0]

\* An entry is appended and the owner's balance moves by its amount.
Post(e) ==
    /\ e \in Row
    /\ e \notin posted
    /\ posted' = posted \cup {e}
    /\ balance' = [balance EXCEPT ![e.member] = @ + e.amount]

\* The entry is the one that is new in `posted'.
Next == \E e \in posted' : Post(e)

Spec == Init /\ [][Next]_vars
=============================================================================
