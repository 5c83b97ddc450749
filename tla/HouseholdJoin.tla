--------------------------- MODULE HouseholdJoin ----------------------------
(***************************************************************************)
(* Joining a household by invite code: the join page of one account        *)
(* (web/src/app/join/page.tsx), the invite dialogs of its adults           *)
(* (web/src/app/settings/invite-modal.tsx) and the invite service          *)
(* (internal/service/invite.go).  Codes are numbered as the household      *)
(* issues them; only the last one opens it.                                *)
(***************************************************************************)
EXTENDS Integers, Sequences, SequencesExt

CONSTANTS MaxCodes, MaxRequests  \* bounds on the codes issued and the requests made

VARIABLES page,     \* the join page
          ask,      \* its POST .../join under way: the code, the one valid when it was sent
          lookups,  \* cached previews: code -> "none", "loading", "found", "missing"
          codes,    \* codes issued so far: the household's is the last
          reqs,     \* the join_requests rows
          joined,   \* members rows of the account
          dialogs   \* the review calls of the adults' invite dialogs

joinVars == <<page, ask, lookups, codes, reqs, joined, dialogs>>

Partial == 0   \* what is typed so far is no 8-character code
Codes == 1..MaxCodes
Adults == {"owner", "partner"}
Verdicts == {"approve", "reject"}
NoAsk == [code |-> Partial, since |-> Partial, at |-> "idle", heard |-> FALSE]
NoReview == [req |-> 0, at |-> "idle"]

TypeOK ==
    /\ page \in [code : {Partial} \cup Codes, submitted : {Partial} \cup Codes,
                 state : {"idle", "previewing", "requested", "error"}]
    /\ ask \in [code : {Partial} \cup Codes, since : {Partial} \cup Codes,
                at : {"idle", "sent", "found", "created", "refused"}, heard : BOOLEAN]
    /\ lookups \in [Codes -> {"none", "loading", "found", "missing"}]
    /\ codes \in Codes /\ joined \in 0..2 * MaxRequests
    /\ reqs \in BoundedSeq([status : {"pending", "approved", "rejected"}, code : Codes], MaxRequests)
    /\ dialogs \in [Adults \X Verdicts -> [req : 0..MaxRequests, at : {"idle", "sent", "checked", "marked"}]]

Init ==
    /\ page = [code |-> Partial, submitted |-> Partial, state |-> "idle"]
    /\ ask = NoAsk /\ lookups = [c \in Codes |-> "none"]
    /\ codes = 1 /\ reqs = <<>> /\ joined = 0
    /\ dialogs = [d \in Adults \X Verdicts |-> NoReview]

-----------------------------------------------------------------------------
(* The join page.                                                          *)

\* Typing forgets the code that was looked up, not a request under way.
setCode ==
    /\ page.state # "requested"
    /\ \E c \in {Partial} \cup Codes : page' = [code |-> c, submitted |-> Partial, state |-> "idle"]
    /\ UNCHANGED <<ask, lookups, codes, reqs, joined, dialogs>>

\* An 8-character code is looked up, unless its answer is cached.
handleLookup ==
    /\ page.state # "requested" /\ page.code # Partial
    /\ page' = [page EXCEPT !.submitted = page.code, !.state = "previewing"]
    /\ lookups' = [lookups EXCEPT ![page.code] = IF @ = "found" THEN "found" ELSE "loading"]
    /\ UNCHANGED <<ask, codes, reqs, joined, dialogs>>

PreviewArrives ==
    /\ \E c \in Codes : /\ lookups[c] = "loading"
                        /\ lookups' = [lookups EXCEPT ![c] = IF c = codes THEN "found" ELSE "missing"]
    /\ UNCHANGED <<page, ask, codes, reqs, joined, dialogs>>

\* The button is there with the preview of the submitted code.
PreviewShown == page.state = "previewing" /\ lookups[page.submitted] = "found"
handleJoin ==
    /\ PreviewShown /\ ask.at = "idle"
    /\ ask' = [code |-> page.submitted, since |-> codes, at |-> "sent", heard |-> TRUE]
    /\ UNCHANGED <<page, lookups, codes, reqs, joined, dialogs>>

\* The answer, or its loss, reaches whatever the page shows by then, but not a
\* page mounted anew.
JoinAnswered ==
    /\ ask.at \in {"created", "refused"}
    /\ ask' = NoAsk
    /\ page' \in IF ask.heard
                 THEN {[page EXCEPT !.state = s] :
                         s \in IF ask.at = "created" THEN {"requested", "error"} ELSE {"error"}}
                 ELSE {page}
    /\ UNCHANGED <<lookups, codes, reqs, joined, dialogs>>

\* "Cancel" and "Back to home" leave; coming back mounts the page anew.
LeaveJoin ==
    /\ page.state = "requested" \/ page.code # Partial
    /\ page' = [code |-> Partial, submitted |-> Partial, state |-> "idle"]
    /\ ask' = [ask EXCEPT !.heard = FALSE]
    /\ UNCHANGED <<lookups, codes, reqs, joined, dialogs>>

-----------------------------------------------------------------------------
(* The service.                                                            *)

\* GetHouseholdByCode, the first statement of RequestJoin.
FindHousehold ==
    /\ ask.at = "sent"
    /\ ask' \in {[ask EXCEPT !.at = a] : a \in IF ask.code = codes THEN {"found", "refused"} ELSE {"refused"}}
    /\ UNCHANGED <<page, lookups, codes, reqs, joined, dialogs>>

\* CreateJoinRequest, the second: for the household that was found.
RequestJoin ==
    /\ ask.at = "found"
    /\ \/ /\ Len(reqs) < MaxRequests
          /\ reqs' = Append(reqs, [status |-> "pending", code |-> ask.code])
          /\ ask' = [ask EXCEPT !.at = "created"]
       \/ ask' = [ask EXCEPT !.at = "refused"] /\ UNCHANGED reqs
    /\ UNCHANGED <<page, lookups, codes, joined, dialogs>>

\* handleRegenerate of a dialog.
RegenerateInviteCode ==
    /\ codes < MaxCodes
    /\ codes' = codes + 1
    /\ UNCHANGED <<page, ask, lookups, reqs, joined, dialogs>>

-----------------------------------------------------------------------------
(* The dialogs: isPending disables a verdict's buttons, not the other's.   *)

Step(d, at) == dialogs' = [dialogs EXCEPT ![d] = [@ EXCEPT !.at = at]]
Ends(d) == dialogs' = [dialogs EXCEPT ![d] = NoReview]

\* The dialog's list may be older than the table: it offers any request made.
ReviewOffered == DOMAIN reqs

\* handleApprove and handleReject.
handleReview(d) ==
    /\ dialogs[d].at = "idle"
    /\ \E r \in ReviewOffered : dialogs' = [dialogs EXCEPT ![d] = [req |-> r, at |-> "sent"]]
    /\ UNCHANGED <<page, ask, lookups, codes, reqs, joined>>

\* Mutant: the status is not looked at.
CheckPendingSkipped(d) ==
    /\ dialogs[d].at = "sent"
    /\ Step(d, "checked")
    /\ UNCHANGED <<page, ask, lookups, codes, reqs, joined>>

\* GetJoinRequest: only a pending request goes on.
CheckPending(d) ==
    /\ dialogs[d].at = "sent"
    /\ IF reqs[dialogs[d].req].status = "pending" THEN Step(d, "checked") ELSE Ends(d)
    /\ UNCHANGED <<page, ask, lookups, codes, reqs, joined>>

\* UPDATE join_requests SET status: by id alone.
MarkReviewed(d) ==
    /\ dialogs[d].at = "checked"
    /\ reqs' = [reqs EXCEPT ![dialogs[d].req].status = IF d[2] = "approve" THEN "approved" ELSE "rejected"]
    /\ IF d[2] = "approve" THEN Step(d, "marked") ELSE Ends(d)
    /\ UNCHANGED <<page, ask, lookups, codes, joined>>

\* ApproveJoinRequest goes on to insert the member, which may fail.
CreateMember(d) ==
    /\ dialogs[d].at = "marked"
    /\ joined' \in {joined, joined + 1}
    /\ Ends(d)
    /\ UNCHANGED <<page, ask, lookups, codes, reqs>>

Review(d) == handleReview(d) \/ CheckPending(d) \/ MarkReviewed(d) \/ CreateMember(d)
JoinPage == setCode \/ handleLookup \/ PreviewArrives \/ handleJoin \/ JoinAnswered \/ LeaveJoin
Next == JoinPage \/ FindHousehold \/ RequestJoin \/ RegenerateInviteCode \/ \E d \in Adults \X Verdicts : Review(d)

-----------------------------------------------------------------------------
\* Regenerating the code closes the household to everybody who holds the old
\* one, a page that has its preview cached included: a join request sent from
\* then on never makes a row with it.  One sent before may still, between the
\* two statements of RequestJoin.
OldCodeShut == [][Len(reqs') > Len(reqs) => Last(reqs').code >= ask.since]_joinVars

\* No review of request r is past its check.
Settled(r) ==
    /\ reqs[r].status # "pending"
    /\ \A d \in Adults \X Verdicts : dialogs[d].at \in {"checked", "marked"} => dialogs[d].req # r

\* A request is decided for good once no review of it is past its check: from
\* then on every late approval or refusal, from a dialog that still lists it,
\* leaves both its status and the household's members alone.
SettledForGood ==
    [][\A r \in DOMAIN reqs : Settled(r) => Settled(r)' /\ reqs'[r] = reqs[r]]_joinVars

\* The household's door (invite.go): a code that was replaced before the request
\* was sent does not open it, and a decision no review is past its check of stands.
DoorKept == OldCodeShut /\ SettledForGood
=============================================================================
