-------------------------- MODULE HouseholdProofs ---------------------------
(***************************************************************************)
(* Proofs about the household's screens: for every bound on households,    *)
(* drafts, codes, requests and clicks.  Each part has an inductive         *)
(* invariant of its own; the theorems at the end put them together.        *)
(***************************************************************************)
EXTENDS MCHousehold, FiniteFacts

-----------------------------------------------------------------------------
(* Joining.                                                                *)

Reviews == J!Adults \X J!Verdicts
JoinRows == [status : {"pending", "approved", "rejected"}, code : J!Codes]
ReviewRecords == [req : Nat, at : {"idle", "sent", "checked", "marked"}]
Pages == [code : {J!Partial} \cup J!Codes, submitted : {J!Partial} \cup J!Codes,
          state : {"idle", "previewing", "requested", "error"}]
Asks == [code : {J!Partial} \cup J!Codes, since : {J!Partial} \cup J!Codes,
         at : {"idle", "sent", "found", "created", "refused"}, heard : BOOLEAN]

\* The household of a request under way was found by a code that was valid when the request
\* was sent, or later.
AskFits == ask.since <= codes /\ (ask.at = "found" => ask.since <= ask.code /\ ask.code \in J!Codes)

\* The approvals of the two adults.
ByOwner == <<"owner", "approve">>
ByPartner == <<"partner", "approve">>

\* The requests that were decided.
Decided == {r \in 1..Len(reqs) : reqs[r].status # "pending"}

\* An approval that may still add a member for a decided request.
Owes(d) ==
    IF dialogs[d].at = "marked" \/ (dialogs[d].at = "checked" /\ dialogs[d].req \in Decided) THEN 1 ELSE 0

JoinTypes ==
    /\ page \in Pages /\ ask \in Asks
    /\ lookups \in [J!Codes -> {"none", "loading", "found", "missing"}]
    /\ codes \in J!Codes /\ joined \in Nat
    /\ reqs \in Seq(JoinRows) /\ Len(reqs) <= MaxRequests
    /\ dialogs \in [Reviews -> ReviewRecords]

\* The inductive invariant of joining: a household is found by no code that was replaced
\* before, a review is of a request made, and every decided request adds at most one member
\* per adult.
JoinInv ==
    /\ JoinTypes /\ AskFits
    /\ \A d \in Reviews : dialogs[d].req <= Len(reqs) /\ (dialogs[d].at # "idle" => dialogs[d].req # 0)
    /\ \A d \in Reviews : dialogs[d].at = "marked" => d \in {ByOwner, ByPartner}
    /\ joined + Owes(ByOwner) + Owes(ByPartner) <= 2 * Cardinality(Decided)

\* The requests as numbered.
LEMMA JoinFacts ==
    ASSUME JoinInv
    PROVE  /\ Len(reqs) \in Nat /\ MaxRequests \in Nat /\ MaxCodes \in Nat /\ 1 \in J!Codes
           /\ DOMAIN reqs = 1..Len(reqs) /\ \A r \in 1..Len(reqs) : reqs[r] \in JoinRows
           /\ IsFiniteSet(Decided) /\ Cardinality(Decided) \in Nat /\ Cardinality(Decided) <= Len(reqs)
           /\ ByOwner \in Reviews /\ ByPartner \in Reviews
           /\ \A d \in Reviews : dialogs[d] \in ReviewRecords /\ Owes(d) \in {0, 1}
<1>1. Len(reqs) \in Nat /\ DOMAIN reqs = 1..Len(reqs) /\ \A r \in 1..Len(reqs) : reqs[r] \in JoinRows
  BY DEF JoinInv, JoinTypes
<1>2. IsFiniteSet(1..Len(reqs)) /\ Cardinality(1..Len(reqs)) = Len(reqs)
  BY <1>1, FS_Interval
<1>3. Decided \subseteq 1..Len(reqs)
  BY DEF Decided
<1>4. IsFiniteSet(Decided) /\ Cardinality(Decided) \in Nat /\ Cardinality(Decided) <= Len(reqs)
  BY <1>2, <1>3, FS_Subset, FS_CardinalityType
<1>5. MaxRequests \in Nat /\ MaxCodes \in Nat /\ 1 \in J!Codes
  BY BoundsAssumption DEF J!Codes
<1>6. ByOwner \in Reviews /\ ByPartner \in Reviews
  BY DEF ByOwner, ByPartner, Reviews, J!Adults, J!Verdicts
<1>7. \A d \in Reviews : dialogs[d] \in ReviewRecords /\ Owes(d) \in {0, 1}
  BY DEF JoinInv, JoinTypes, Owes
<1> QED
  BY <1>1, <1>4, <1>5, <1>6, <1>7

\* It implies the component's types.
LEMMA JoinImplies == JoinInv => J!TypeOK
<1> SUFFICES ASSUME JoinInv PROVE J!TypeOK
  OBVIOUS
<1>1. reqs \in J!BoundedSeq(JoinRows, MaxRequests)
  <2>1. reqs \in [1..Len(reqs) -> JoinRows] /\ Len(reqs) \in 0..MaxRequests
    BY JoinFacts DEF JoinInv, JoinTypes
  <2> QED
    BY <2>1 DEF J!BoundedSeq, J!SeqOf
<1>2. joined \in 0..2 * MaxRequests
  <2>1. joined \in Nat /\ Len(reqs) <= MaxRequests
    BY DEF JoinInv, JoinTypes
  <2>2. Owes(ByOwner) \in {0, 1} /\ Owes(ByPartner) \in {0, 1}
    BY JoinFacts
  <2>3. joined + Owes(ByOwner) + Owes(ByPartner) <= 2 * Cardinality(Decided)
    BY DEF JoinInv
  <2> QED
    BY <2>1, <2>2, <2>3, JoinFacts
<1>3. dialogs \in [Reviews -> [req : 0..MaxRequests, at : {"idle", "sent", "checked", "marked"}]]
  <2>1. ASSUME NEW d \in Reviews
        PROVE  dialogs[d] \in [req : 0..MaxRequests, at : {"idle", "sent", "checked", "marked"}]
    <3>1. dialogs[d] \in ReviewRecords /\ dialogs[d].req <= Len(reqs) /\ Len(reqs) <= MaxRequests
      BY JoinFacts DEF JoinInv, JoinTypes
    <3>2. dialogs[d].req \in 0..MaxRequests
      BY <3>1, JoinFacts DEF ReviewRecords
    <3> QED
      BY <3>1, <3>2 DEF ReviewRecords
  <2> QED
    BY <2>1 DEF JoinInv, JoinTypes
<1> QED
  BY <1>1, <1>2, <1>3 DEF JoinInv, JoinTypes, J!TypeOK, JoinRows, Reviews, Pages, Asks

\* Nobody has asked yet.
LEMMA JoinInitInv == J!Init => JoinInv
<1> SUFFICES ASSUME J!Init PROVE JoinInv
  OBVIOUS
<1>1. page \in Pages /\ ask \in Asks
  BY DEF J!Init, J!NoAsk, Pages, Asks
<1>2. codes \in J!Codes /\ joined \in Nat /\ reqs = <<>> /\ Len(reqs) = 0 /\ MaxRequests \in Nat
  BY BoundsAssumption DEF J!Init, J!Codes
<1>3. dialogs \in [Reviews -> ReviewRecords] /\ \A d \in Reviews : dialogs[d].req = 0 /\ dialogs[d].at = "idle"
  BY DEF J!Init, J!NoReview, Reviews, ReviewRecords
<1>4. JoinTypes
  BY <1>1, <1>2, <1>3 DEF J!Init, JoinTypes
<1>5. Decided = {}
  BY <1>2 DEF Decided
<1>6. Cardinality(Decided) = 0
  BY <1>5, FS_EmptySet
<1>7. Owes(ByOwner) = 0 /\ Owes(ByPartner) = 0
  BY <1>3 DEF Owes, ByOwner, ByPartner, Reviews, J!Adults, J!Verdicts
<1>8. joined = 0
  BY DEF J!Init
<1>9. AskFits
  BY DEF J!Init, J!NoAsk, J!Partial, AskFits
<1> QED
  BY <1>2, <1>3, <1>4, <1>6, <1>7, <1>8, <1>9 DEF JoinInv

\* A step that leaves the requests, the reviews and the members alone.
LEMMA JoinKept ==
    ASSUME JoinInv, JoinTypes', AskFits', UNCHANGED <<reqs, joined, dialogs>>
    PROVE  JoinInv'
  BY DEF JoinInv, Owes, Decided

\* The join page, and the code.
LEMMA PageKeeps ==
    ASSUME JoinInv, J!JoinPage \/ J!FindHousehold \/ J!RegenerateInviteCode
    PROVE  JoinInv'
<1>0. JoinTypes
  BY DEF JoinInv
<1>1. UNCHANGED <<reqs, joined, dialogs>>
  BY DEF J!JoinPage, J!setCode, J!handleLookup, J!PreviewArrives, J!handleJoin, J!JoinAnswered, J!LeaveJoin,
     J!FindHousehold, J!RegenerateInviteCode
<1>2. page \in Pages /\ ask \in Asks /\ codes \in J!Codes /\ codes \in Nat /\ ask.since \in Nat /\ AskFits
  BY <1>0 DEF JoinInv, JoinTypes, Asks, J!Codes, J!Partial
<1>k. ASSUME UNCHANGED <<ask, codes>> PROVE AskFits'
  BY <1>2, <1>k DEF AskFits
<1>3. CASE J!setCode
  <2>1. page' \in Pages
    BY <1>3 DEF J!setCode, Pages
  <2> QED
    BY <1>0, <1>1, <1>3, <1>k, <2>1, JoinKept DEF J!setCode, JoinTypes
<1>4. CASE J!handleLookup
  <2>1. page' \in Pages /\ page.code \in J!Codes
    BY <1>2, <1>4 DEF J!handleLookup, Pages
  <2>2. lookups' \in [J!Codes -> {"none", "loading", "found", "missing"}]
    BY <1>0, <1>4, <2>1 DEF J!handleLookup, JoinTypes
  <2> QED
    BY <1>0, <1>1, <1>4, <1>k, <2>1, <2>2, JoinKept DEF J!handleLookup, JoinTypes
<1>5. CASE J!PreviewArrives
  <2>1. lookups' \in [J!Codes -> {"none", "loading", "found", "missing"}]
    BY <1>0, <1>5 DEF J!PreviewArrives, JoinTypes
  <2> QED
    BY <1>0, <1>1, <1>5, <1>k, <2>1, JoinKept DEF J!PreviewArrives, JoinTypes
<1>6. CASE J!handleJoin
  <2>1. ask' \in Asks
    BY <1>2, <1>6 DEF J!handleJoin, Pages, Asks
  <2>2. AskFits'
    BY <1>2, <1>6 DEF J!handleJoin, AskFits
  <2> QED
    BY <1>0, <1>1, <1>6, <2>1, <2>2, JoinKept DEF J!handleJoin, JoinTypes
<1>7. CASE J!JoinAnswered
  <2>1. ask' \in Asks
    BY <1>7 DEF J!JoinAnswered, J!NoAsk, Asks, J!Partial
  <2>2. page' \in Pages
    BY <1>2, <1>7 DEF J!JoinAnswered, Pages
  <2>3. AskFits'
    BY <1>2, <1>7 DEF J!JoinAnswered, J!NoAsk, AskFits, J!Partial
  <2> QED
    BY <1>0, <1>1, <1>7, <2>1, <2>2, <2>3, JoinKept DEF J!JoinAnswered, JoinTypes
<1>8. CASE J!LeaveJoin
  <2>1. ask' \in Asks
    BY <1>2, <1>8 DEF J!LeaveJoin, Asks
  <2>2. page' \in Pages
    BY <1>8 DEF J!LeaveJoin, Pages
  <2>3. AskFits'
    BY <1>2, <1>8 DEF J!LeaveJoin, Asks, AskFits
  <2> QED
    BY <1>0, <1>1, <1>8, <2>1, <2>2, <2>3, JoinKept DEF J!LeaveJoin, JoinTypes
<1>9. CASE J!RegenerateInviteCode
  <2>1. codes' \in J!Codes
    BY <1>0, <1>9, BoundsAssumption DEF J!RegenerateInviteCode, JoinTypes, J!Codes
  <2>2. AskFits'
    BY <1>2, <1>9 DEF J!RegenerateInviteCode, AskFits
  <2> QED
    BY <1>0, <1>1, <1>9, <2>1, <2>2, JoinKept DEF J!RegenerateInviteCode, JoinTypes
<1>10. CASE J!FindHousehold
  <2>1. PICK a \in {"found", "refused"} : ask' = [ask EXCEPT !.at = a] /\ (a = "found" => ask.code = codes)
    BY <1>10 DEF J!FindHousehold
  <2>2. ask' \in Asks
    BY <1>2, <2>1 DEF Asks
  <2>3. AskFits'
    BY <1>2, <1>10, <2>1 DEF J!FindHousehold, Asks, AskFits
  <2> QED
    BY <1>0, <1>1, <1>10, <2>2, <2>3, JoinKept DEF J!FindHousehold, JoinTypes
<1> QED
  BY <1>3, <1>4, <1>5, <1>6, <1>7, <1>8, <1>9, <1>10 DEF J!JoinPage

\* A request is made: it is pending.
LEMMA RequestKeeps ==
    ASSUME JoinInv, J!RequestJoin
    PROVE  JoinInv'
<1>0. JoinTypes /\ Len(reqs) \in Nat /\ MaxRequests \in Nat
  BY JoinFacts DEF JoinInv
<1>1. ask' \in Asks
  BY <1>0 DEF JoinTypes, J!RequestJoin, Asks
<1>2. UNCHANGED <<page, lookups, codes, joined, dialogs>> /\ ask.at = "found" /\ ask \in Asks /\ codes \in J!Codes
  BY <1>0 DEF J!RequestJoin, JoinTypes
<1>5. AskFits'
  BY <1>2 DEF J!RequestJoin, JoinInv, AskFits, Asks
<1>3. CASE UNCHANGED reqs
  BY <1>0, <1>1, <1>2, <1>3, <1>5, JoinKept DEF JoinTypes
<1>4. CASE Len(reqs) < MaxRequests /\ reqs' = Append(reqs, [status |-> "pending", code |-> ask.code])
  <2>1. [status |-> "pending", code |-> ask.code] \in JoinRows
    BY <1>2 DEF JoinInv, AskFits, Asks, JoinRows, J!Partial
  <2>2. PICK row \in JoinRows : row.status = "pending" /\ reqs' = Append(reqs, row)
    BY <1>4, <2>1
  <2>3. reqs \in Seq(JoinRows)
    BY <1>0 DEF JoinTypes
  <2>4. reqs' \in Seq(JoinRows) /\ Len(reqs') = Len(reqs) + 1 /\ Len(reqs') <= MaxRequests
    BY <1>0, <1>4, <2>2, <2>3
  <2>5. \A r \in 1..Len(reqs) : reqs'[r] = reqs[r]
    BY <1>0, <2>2, <2>3
  <2>6. reqs'[Len(reqs) + 1] = row
    BY <1>0, <2>2, <2>3
  <2>7. Decided' = Decided
    BY <1>0, <2>2, <2>4, <2>5, <2>6 DEF Decided
  <2>8. JoinTypes'
    BY <1>0, <1>1, <1>2, <2>4 DEF JoinTypes
  <2>9. Owes(ByOwner)' = Owes(ByOwner) /\ Owes(ByPartner)' = Owes(ByPartner)
    BY <1>2, <2>7 DEF Owes
  <2>10. \A d \in Reviews : dialogs[d] \in ReviewRecords
    BY JoinFacts
  <2>11. \A d \in Reviews : dialogs[d].req <= Len(reqs')
    BY <1>0, <2>4, <2>10 DEF JoinInv, ReviewRecords
  <2> QED
    BY <1>2, <1>5, <2>7, <2>8, <2>9, <2>11 DEF JoinInv
<1> QED
  BY <1>3, <1>4 DEF J!RequestJoin

\* A review moves on without touching the requests: it owes no more than before.
LEMMA ReviewMoves ==
    ASSUME JoinInv, NEW d \in Reviews, NEW x \in ReviewRecords, dialogs' = [dialogs EXCEPT ![d] = x],
           x.req <= Len(reqs), x.at # "idle" => x.req # 0, x.at # "marked",
           x.at = "checked" => x.req \notin Decided,
           UNCHANGED <<page, ask, lookups, codes, reqs>>,
           joined' = joined \/ (joined' = joined + 1 /\ dialogs[d].at = "marked")
    PROVE  JoinInv'
<1>0. JoinTypes /\ Len(reqs) \in Nat /\ joined \in Nat /\ joined' \in Nat
  BY JoinFacts DEF JoinInv, JoinTypes
<1>1. Decided' = Decided
  BY DEF Decided
<1>2. dialogs' \in [Reviews -> ReviewRecords] /\ dialogs'[d] = x
      /\ \A e \in Reviews : e # d => dialogs'[e] = dialogs[e]
  BY <1>0 DEF JoinTypes
<1>3. JoinTypes'
  BY <1>0, <1>2 DEF JoinTypes
<1>4. \A e \in Reviews : dialogs'[e].req <= Len(reqs) /\ (dialogs'[e].at # "idle" => dialogs'[e].req # 0)
                         /\ (dialogs'[e].at = "marked" => e \in {ByOwner, ByPartner})
  BY <1>2 DEF JoinInv
<1>5. ByOwner \in Reviews /\ ByPartner \in Reviews /\ ByOwner # ByPartner
  BY JoinFacts DEF ByOwner, ByPartner
<1>6. \A e \in {ByOwner, ByPartner} : Owes(e) \in {0, 1} /\ Owes(e)' = IF e = d THEN 0 ELSE Owes(e)
  BY <1>1, <1>2, <1>5, JoinFacts DEF Owes
<1>7. dialogs[d].at = "marked" => d \in {ByOwner, ByPartner} /\ Owes(d) = 1
  BY DEF JoinInv, Owes
<1>8. Cardinality(Decided) \in Nat /\ joined + Owes(ByOwner) + Owes(ByPartner) <= 2 * Cardinality(Decided)
  BY JoinFacts DEF JoinInv
<1>9. joined' + Owes(ByOwner)' + Owes(ByPartner)' <= 2 * Cardinality(Decided)
  <2>1. CASE joined' = joined
    BY <1>0, <1>6, <1>8, <2>1
  <2>2. CASE joined' = joined + 1 /\ d = ByOwner
    BY <1>0, <1>5, <1>6, <1>7, <1>8, <2>2
  <2>3. CASE joined' = joined + 1 /\ d = ByPartner
    BY <1>0, <1>5, <1>6, <1>7, <1>8, <2>3
  <2> QED
    BY <1>7, <2>1, <2>2, <2>3
<1>10. AskFits'
  BY DEF JoinInv, AskFits
<1> QED
  BY <1>1, <1>3, <1>4, <1>9, <1>10 DEF JoinInv

\* The reviews, one step each.
LEMMA ReviewKeeps ==
    ASSUME JoinInv, NEW d \in Reviews, J!Review(d)
    PROVE  JoinInv'
<1>0. JoinTypes /\ Len(reqs) \in Nat /\ dialogs[d] \in ReviewRecords /\ DOMAIN reqs = 1..Len(reqs)
      /\ dialogs[d].req <= Len(reqs) /\ (dialogs[d].at # "idle" => dialogs[d].req # 0)
  BY JoinFacts DEF JoinInv
<1>1. J!NoReview \in ReviewRecords /\ J!NoReview.req = 0 /\ J!NoReview.at = "idle"
  BY DEF J!NoReview, ReviewRecords
<1>2. CASE J!handleReview(d)
  <2>1. PICK r \in 1..Len(reqs) : dialogs' = [dialogs EXCEPT ![d] = [req |-> r, at |-> "sent"]]
    BY <1>0, <1>2 DEF J!handleReview, J!ReviewOffered
  <2>2. [req |-> r, at |-> "sent"] \in ReviewRecords /\ r <= Len(reqs) /\ r # 0
    BY <1>0 DEF ReviewRecords
  <2>3. PICK x \in ReviewRecords : x.req = r /\ x.at = "sent" /\ dialogs' = [dialogs EXCEPT ![d] = x]
    BY <2>1, <2>2
  <2> QED
    BY <1>2, <2>2, <2>3, ReviewMoves DEF J!handleReview
<1>3. CASE J!CheckPending(d)
  <2>1. CASE reqs[dialogs[d].req].status = "pending"
    <3>1. [dialogs[d] EXCEPT !.at = "checked"] \in ReviewRecords
          /\ [dialogs[d] EXCEPT !.at = "checked"].req = dialogs[d].req
          /\ [dialogs[d] EXCEPT !.at = "checked"].at = "checked"
      BY <1>0 DEF ReviewRecords
    <3>2. PICK x \in ReviewRecords : x.req = dialogs[d].req /\ x.at = "checked" /\ dialogs' = [dialogs EXCEPT ![d] = x]
      BY <1>3, <2>1, <3>1 DEF J!CheckPending, J!Step
    <3>3. x.req \notin Decided
      BY <2>1, <3>2 DEF Decided
    <3>4. x.req <= Len(reqs) /\ x.req # 0
      BY <1>0, <1>3, <3>2 DEF J!CheckPending
    <3> QED
      BY <1>3, <3>2, <3>3, <3>4, ReviewMoves DEF J!CheckPending
  <2>2. CASE reqs[dialogs[d].req].status # "pending"
    BY <1>0, <1>1, <1>3, <2>2, ReviewMoves DEF J!CheckPending, J!Ends
  <2> QED
    BY <2>1, <2>2
<1>4. CASE J!CreateMember(d)
  <2>1. joined' = joined \/ (joined' = joined + 1 /\ dialogs[d].at = "marked")
    BY <1>4 DEF J!CreateMember
  <2>2. UNCHANGED <<page, ask, lookups, codes, reqs>> /\ dialogs' = [dialogs EXCEPT ![d] = J!NoReview]
    BY <1>4 DEF J!CreateMember, J!Ends
  <2>3. J!NoReview.req <= Len(reqs)
    BY <1>0, <1>1
  <2> QED
    BY <1>1, <2>1, <2>2, <2>3, ReviewMoves
<1>5. CASE J!MarkReviewed(d)
  <2> DEFINE k == dialogs[d].req
             s == IF d[2] = "approve" THEN "approved" ELSE "rejected"
  <2>1. k \in 1..Len(reqs)
    BY <1>0, <1>5 DEF J!MarkReviewed, ReviewRecords
  <2>2. PICK i \in 1..Len(reqs) : i = k
    BY <2>1
  <2>3. PICK v \in {"approved", "rejected"} : v = s
    OBVIOUS
  <2>4. reqs' = [reqs EXCEPT ![i].status = v]
    BY <1>5, <2>2, <2>3 DEF J!MarkReviewed
  <2>5. reqs \in Seq(JoinRows) /\ reqs[i] \in JoinRows
    BY <1>0, JoinFacts DEF JoinTypes
  <2>6. [reqs[i] EXCEPT !.status = v] \in JoinRows /\ [reqs[i] EXCEPT !.status = v].status # "pending"
    BY <2>5 DEF JoinRows
  <2>7. PICK row \in JoinRows : row.status # "pending" /\ reqs' = [reqs EXCEPT ![i] = row]
    BY <2>4, <2>6
  <2>8. reqs' \in Seq(JoinRows) /\ Len(reqs') = Len(reqs) /\ reqs'[i] = row
        /\ \A r \in 1..Len(reqs) : r # i => reqs'[r] = reqs[r]
    BY <1>0, <2>2, <2>5, <2>7
  <2>9. Decided' = Decided \cup {i}
    BY <2>2, <2>7, <2>8 DEF Decided
  <2>10. PICK x \in ReviewRecords : /\ dialogs' = [dialogs EXCEPT ![d] = x]
                                    /\ (d[2] = "approve" /\ x.req = i /\ x.at = "marked")
                                       \/ (d[2] # "approve" /\ x.req = 0 /\ x.at = "idle")
    <3>1. CASE d[2] = "approve"
      <4>1. [dialogs[d] EXCEPT !.at = "marked"] \in ReviewRecords
            /\ [dialogs[d] EXCEPT !.at = "marked"].req = i
            /\ [dialogs[d] EXCEPT !.at = "marked"].at = "marked"
        BY <1>0, <2>2 DEF ReviewRecords
      <4> QED
        BY <1>5, <3>1, <4>1 DEF J!MarkReviewed, J!Step
    <3>2. CASE d[2] # "approve"
      BY <1>1, <1>5, <3>2 DEF J!MarkReviewed, J!Ends
    <3> QED
      BY <3>1, <3>2
  <2>11. dialogs' \in [Reviews -> ReviewRecords] /\ dialogs'[d] = x
         /\ \A e \in Reviews : e # d => dialogs'[e] = dialogs[e]
    BY <1>0, <2>10 DEF JoinTypes
  <2>12. d[2] = "approve" => d \in {ByOwner, ByPartner}
    BY DEF Reviews, J!Adults, J!Verdicts, ByOwner, ByPartner
  <2>13. JoinTypes'
    BY <1>0, <1>5, <2>8, <2>11 DEF JoinTypes, J!MarkReviewed
  <2>14. \A e \in Reviews : dialogs'[e].req <= Len(reqs) /\ (dialogs'[e].at # "idle" => dialogs'[e].req # 0)
                            /\ (dialogs'[e].at = "marked" => e \in {ByOwner, ByPartner})
    BY <1>0, <2>2, <2>10, <2>11, <2>12 DEF JoinInv
  <2>15. joined \in Nat /\ joined' = joined /\ Cardinality(Decided) \in Nat
         /\ joined + Owes(ByOwner) + Owes(ByPartner) <= 2 * Cardinality(Decided)
         /\ ByOwner \in Reviews /\ ByPartner \in Reviews
         /\ Owes(ByOwner) \in {0, 1} /\ Owes(ByPartner) \in {0, 1}
    BY <1>0, <1>5, JoinFacts DEF JoinInv, JoinTypes, J!MarkReviewed
  <2>16. Owes(ByOwner)' \in {0, 1} /\ Owes(ByPartner)' \in {0, 1}
    BY DEF Owes
  <2>17. joined' + Owes(ByOwner)' + Owes(ByPartner)' <= 2 * Cardinality(Decided)'
    <3>1. CASE i \in Decided
      <4>1. Decided' = Decided
        BY <2>9, <3>1
      <4>2. \A e \in {ByOwner, ByPartner} : e # d => Owes(e)' = Owes(e)
        BY <2>11, <2>15, <4>1 DEF Owes
      <4>3. d \in {ByOwner, ByPartner} => Owes(d) = 1
        BY <1>5, <2>2, <3>1 DEF Owes, J!MarkReviewed
      <4>4. Owes(ByOwner)' <= Owes(ByOwner) /\ Owes(ByPartner)' <= Owes(ByPartner)
        BY <2>15, <2>16, <4>2, <4>3
      <4> QED
        BY <2>15, <2>16, <4>1, <4>4
    <3>2. CASE i \notin Decided
      <4>1. Cardinality(Decided') = Cardinality(Decided) + 1
        BY <2>9, <3>2, JoinFacts, FS_AddElement
      <4> QED
        BY <2>15, <2>16, <4>1
    <3> QED
      BY <3>1, <3>2
  <2>18. AskFits'
    BY <1>5 DEF J!MarkReviewed, JoinInv, AskFits
  <2> QED
    BY <2>8, <2>13, <2>14, <2>17, <2>18 DEF JoinInv
<1> QED
  BY <1>2, <1>3, <1>4, <1>5 DEF J!Review

LEMMA JoinNextKeeps ==
    ASSUME JoinInv, J!Next
    PROVE  JoinInv'
<1>1. Reviews = J!Adults \X J!Verdicts
  BY DEF Reviews
<1> QED
  BY <1>1, PageKeeps, RequestKeeps, ReviewKeeps DEF J!Next

-----------------------------------------------------------------------------
(* The wizard.  n is the bound on the drafts of the behaviour.             *)

Drafts == {d \in [role : W!Roles, pin : BOOLEAN, named : BOOLEAN] : d.pin => d.role = "child"}
Listed(n) ==
    {m \in [who : 1..n, role : W!Roles, pin : BOOLEAN, linked : {FALSE}] : m.pin => m.role = "child"}
OnRoll(n) == Listed(n) \cup {W!Self}
Wizards(n) ==
    [step : 0..6, busy : BOOLEAN, err : BOOLEAN, named : BOOLEAN, hid : Nat, selfNamed : BOOLEAN,
     family : Seq(Listed(n)), draft : Drafts, made : 0..n, reviewed : BOOLEAN, known : BOOLEAN,
     home : BOOLEAN]
Calls(n) ==
    [at : {"idle", "household", "self", "refresh", "family"}, step : 0..6, hid : Nat,
     todo : Seq(Listed(n)), drafts : SUBSET (1..n)]

WizTypes(n) ==
    /\ wiz \in Wizards(n) /\ call \in Calls(n) /\ rolls \in Seq(SUBSET OnRoll(n))
    /\ limit \in Limits /\ limit.drafts = n
    /\ wiz.hid <= Len(rolls) /\ Len(rolls) <= limit.households

\* The call goes on with the step and the household of the click.
CallFits ==
    /\ wiz.busy <=> call.at # "idle"
    /\ call.at # "idle" => wiz.step <= call.step
    /\ call.at = "household" => call.step = 2 /\ Len(rolls) < limit.households
    /\ call.at \in {"self", "refresh"} => call.step = 3
    /\ call.at = "family" => call.step = 4 /\ call.todo # <<>>
    /\ call.at \in {"self", "refresh", "family"} => call.hid = wiz.hid /\ call.hid # 0
    /\ call.at \in {"refresh", "family"} => W!Self \in rolls[call.hid]

\* Everybody listed at the click is saved, or still to be saved.
SavedOrDue ==
    call.at = "family" =>
        \A d \in call.drafts : (\E m \in rolls[call.hid] : m.who = d)
                               \/ (\E i \in 1..Len(call.todo) : call.todo[i].who = d)

\* The inductive invariant of the wizard.
WizInv(n) == WizTypes(n) /\ CallFits /\ SavedOrDue /\ W!SelfLinked

\* It implies the component's types and its safety.
LEMMA WizImplies ==
    ASSUME NEW n, WizInv(n)
    PROVE  W!TypeOK /\ W!RosterHonest
<1>0. WizTypes(n) /\ CallFits /\ W!SelfLinked
  BY DEF WizInv
<1>1. Len(rolls) \in Nat /\ \A h \in DOMAIN rolls : rolls[h] \subseteq OnRoll(n)
  BY <1>0 DEF WizTypes
<1>2. \A m \in OnRoll(n) : m.pin => m.role = "child"
  <2>1. W!Self.pin = FALSE
    BY DEF W!Self, W!Member
  <2>2. \A m \in Listed(n) : m.pin => m.role = "child"
    BY DEF Listed
  <2> QED
    BY <2>1, <2>2 DEF OnRoll
<1>3. W!PinIsForChildren
  BY <1>1, <1>2 DEF W!PinIsForChildren
<1>4. wiz.step \in 0..6 /\ wiz.hid \in Nat /\ wiz.made \in 0..n /\ wiz.family \in Seq(Listed(n)) /\ wiz.draft \in Drafts
      /\ call.at \in {"idle", "household", "self", "refresh", "family"}
  BY <1>0 DEF WizTypes, Wizards, Calls
<1>5. wiz.hid \in 0..Len(rolls) /\ wiz.step \in 0..7 - 1
  BY <1>0, <1>1, <1>4 DEF WizTypes
<1>6. \A i \in DOMAIN wiz.family : wiz.family[i] \in Listed(n)
  BY <1>4
<1>7. W!TypeOK
  BY <1>0, <1>4, <1>5, <1>6 DEF W!TypeOK, W!TOTAL, WizTypes, CallFits, Listed, Drafts
<1> QED
  BY <1>0, <1>3, <1>7 DEF W!RosterHonest

\* A mounted page.
LEMMA FreshTyped ==
    ASSUME NEW n \in Nat, NEW s \in 0..6, NEW k \in BOOLEAN
    PROVE  /\ W!Fresh(s, k) \in Wizards(n)
           /\ W!Fresh(s, k).hid = 0 /\ W!Fresh(s, k).busy = FALSE
<1>1. W!EmptyDraft \in Drafts
  BY DEF W!EmptyDraft, Drafts, W!Roles
<1>2. <<>> \in Seq(Listed(n)) /\ 0 \in 0..n
  OBVIOUS
<1> QED
  BY <1>1, <1>2 DEF W!Fresh, Wizards

LEMMA NoCallTyped ==
    ASSUME NEW n \in Nat
    PROVE  W!NoCall \in Calls(n) /\ W!NoCall.at = "idle"
<1>1. <<>> \in Seq(Listed(n)) /\ {} \in SUBSET (1..n)
  OBVIOUS
<1> QED
  BY <1>1 DEF W!NoCall, Calls

LEMMA WizInitInv == ASSUME NEW n, W!Init, limit.drafts = n PROVE WizInv(n)
<1>0. limit \in Limits /\ n \in Nat /\ limit.households \in Nat
  BY BoundsAssumption DEF W!Init
<1>1. wiz \in Wizards(n) /\ wiz.hid = 0 /\ wiz.busy = FALSE
  <2>1. 0 \in 0..6 /\ FALSE \in BOOLEAN
    OBVIOUS
  <2>2. W!Fresh(0, FALSE) \in Wizards(n) /\ W!Fresh(0, FALSE).hid = 0 /\ W!Fresh(0, FALSE).busy = FALSE
    BY <1>0, <2>1, FreshTyped
  <2> QED
    BY <2>2 DEF W!Init
<1>2. call \in Calls(n) /\ call.at = "idle"
  BY <1>0, NoCallTyped DEF W!Init
<1>3. rolls = <<>> /\ Len(rolls) = 0 /\ rolls \in Seq(SUBSET OnRoll(n))
  BY DEF W!Init
<1>4. WizTypes(n)
  BY <1>0, <1>1, <1>2, <1>3 DEF WizTypes
<1> QED
  BY <1>1, <1>2, <1>4 DEF WizInv, CallFits, SavedOrDue, W!SelfLinked

\* A step on the page: no call starts or ends, and the wizard does not move on.
LEMMA WizKept ==
    ASSUME NEW n \in Nat, WizInv(n), wiz' \in Wizards(n), wiz'.hid = wiz.hid, wiz'.busy = wiz.busy,
           wiz'.step <= wiz.step, UNCHANGED <<limit, call, rolls>>
    PROVE  WizInv(n)'
<1>0. WizTypes(n) /\ CallFits /\ SavedOrDue /\ W!SelfLinked
  BY DEF WizInv
<1>1. wiz.step \in 0..6 /\ wiz'.step \in 0..6 /\ call.step \in 0..6
  BY <1>0 DEF WizTypes, Wizards, Calls
<1>2. WizTypes(n)'
  BY <1>0 DEF WizTypes
<1>3. CallFits'
  BY <1>0, <1>1 DEF CallFits
<1>4. SavedOrDue'
  BY <1>0 DEF SavedOrDue
<1>5. W!SelfLinked'
  BY <1>0, <1>1 DEF W!SelfLinked, W!FamilyStep
<1> QED
  BY <1>2, <1>3, <1>4, <1>5 DEF WizInv

\* A step that ends with no call under way.
LEMMA WizIdle ==
    ASSUME NEW n \in Nat, WizInv(n), wiz' \in Wizards(n), wiz'.busy = FALSE, call' \in Calls(n), call'.at = "idle",
           rolls' \in Seq(SUBSET OnRoll(n)), wiz'.hid <= Len(rolls'), Len(rolls') <= limit.households,
           UNCHANGED limit, wiz'.step >= 4 /\ wiz'.hid # 0 => W!Self \in rolls'[wiz'.hid]
    PROVE  WizInv(n)'
<1>1. WizTypes(n)'
  BY DEF WizInv, WizTypes
<1>2. CallFits' /\ SavedOrDue'
  BY DEF CallFits, SavedOrDue
<1>3. W!SelfLinked'
  BY DEF W!SelfLinked, W!FamilyStep
<1> QED
  BY <1>1, <1>2, <1>3 DEF WizInv

\* One entry fewer.
LEMMA RemoveAtTyped ==
    ASSUME NEW S, NEW s \in Seq(S), NEW i \in DOMAIN s
    PROVE  W!RemoveAt(s, i) \in Seq(S)
<1>1. Len(s) \in Nat /\ i \in 1..Len(s)
  OBVIOUS
<1>2. SubSeq(s, 1, i - 1) \in Seq(S) /\ SubSeq(s, i + 1, Len(s)) \in Seq(S)
  <2>1. \A j \in 1..Len(s) : s[j] \in S
    OBVIOUS
  <2>2. \A j \in 1..i - 1 : s[j] \in S
    BY <1>1, <2>1
  <2>3. \A j \in i + 1..Len(s) : s[j] \in S
    BY <1>1, <2>1
  <2> QED
    BY <1>1, <2>2, <2>3, SubSeqProperties
<1> QED
  BY <1>2 DEF W!RemoveAt

\* Typing leaves the wizard at its step and with its household.
LEMMA TypingStays ==
    ASSUME NEW n \in Nat, WizInv(n), W!Typing
    PROVE  wiz' \in Wizards(n) /\ wiz'.hid = wiz.hid /\ wiz'.busy = wiz.busy /\ wiz'.step = wiz.step
<1>0. wiz \in Wizards(n) /\ limit.drafts = n /\ UNCHANGED <<call, rolls>> /\ wiz.draft \in Drafts
      /\ wiz.family \in Seq(Listed(n)) /\ wiz.made \in 0..n /\ wiz.step \in 0..6
  BY DEF WizInv, WizTypes, Wizards, W!Typing, W!setHouseholdName, W!setSelfName, W!setDraft, W!addFamilyDraft,
     W!removeFamilyDraft, W!setRosterReviewed
<1>1. CASE W!setHouseholdName
  BY <1>0, <1>1 DEF W!setHouseholdName, Wizards
<1>2. CASE W!setSelfName
  BY <1>0, <1>2 DEF W!setSelfName, Wizards
<1>3. CASE W!setDraft
  <2>1. \A d \in Drafts : wiz' = [wiz EXCEPT !.draft = d] =>
            wiz' \in Wizards(n) /\ wiz'.hid = wiz.hid /\ wiz'.busy = wiz.busy /\ wiz'.step = wiz.step
    BY <1>0 DEF Wizards
  <2>2. [wiz.draft EXCEPT !.named = TRUE] \in Drafts
    BY <1>0 DEF Drafts
  <2>3. ASSUME NEW r \in W!Roles, wiz' = [wiz EXCEPT !.draft.role = r, !.draft.pin = @ /\ r = "child"]
        PROVE  wiz' \in Wizards(n) /\ wiz'.hid = wiz.hid /\ wiz'.busy = wiz.busy /\ wiz'.step = wiz.step
    <3>1. PICK d \in Drafts : d = [wiz.draft EXCEPT !.role = r, !.pin = @ /\ r = "child"]
      BY <1>0 DEF Drafts
    <3>2. wiz' = [wiz EXCEPT !.draft = d]
      BY <1>0, <2>3, <3>1 DEF Wizards, Drafts
    <3> QED
      BY <2>1, <3>2
  <2>4. wiz.draft.role = "child" => [wiz.draft EXCEPT !.pin = TRUE] \in Drafts
    BY <1>0 DEF Drafts
  <2>5. CASE wiz' = [wiz EXCEPT !.draft.named = TRUE]
    BY <2>1, <2>2, <2>5
  <2>6. CASE wiz.draft.role = "child" /\ wiz' = [wiz EXCEPT !.draft.pin = TRUE]
    BY <2>1, <2>4, <2>6
  <2> QED
    BY <1>3, <2>3, <2>5, <2>6 DEF W!setDraft
<1>4. CASE W!addFamilyDraft
  <2>1. CASE wiz' = [wiz EXCEPT !.err = TRUE]
    BY <1>0, <2>1 DEF Wizards
  <2>2. CASE ~(wiz' = [wiz EXCEPT !.err = TRUE])
    <3>1. wiz.made < n
      BY <1>0, <1>4 DEF W!addFamilyDraft
    <3>2. PICK k \in 1..n : k = wiz.made + 1
      BY <1>0, <3>1
    <3>3. W!Member(k, wiz.draft.role, wiz.draft.pin, FALSE) \in Listed(n)
      BY <1>0 DEF W!Member, Listed, Drafts
    <3>4. PICK m \in Listed(n) : m = W!Member(k, wiz.draft.role, wiz.draft.pin, FALSE)
      BY <3>3
    <3>5. PICK fam \in Seq(Listed(n)) : fam = Append(wiz.family, m)
      BY <1>0, AppendProperties
    <3>6. W!EmptyDraft \in Drafts
      BY DEF W!EmptyDraft, Drafts, W!Roles
    <3>7. wiz' = [wiz EXCEPT !.err = FALSE, !.draft = W!EmptyDraft, !.made = k, !.family = fam]
      BY <1>0, <1>4, <2>2, <3>2, <3>4, <3>5 DEF W!addFamilyDraft, Wizards
    <3>8. k \in 0..n
      BY <3>2
    <3> QED
      BY <1>0, <3>5, <3>6, <3>7, <3>8 DEF Wizards
  <2> QED
    BY <2>1, <2>2
<1>5. CASE W!removeFamilyDraft
  <2>1. PICK i \in DOMAIN wiz.family : wiz' = [wiz EXCEPT !.family = W!RemoveAt(@, i)]
    BY <1>5 DEF W!removeFamilyDraft
  <2>2. PICK fam \in Seq(Listed(n)) : fam = W!RemoveAt(wiz.family, i)
    BY <1>0, RemoveAtTyped
  <2> QED
    BY <1>0, <2>1, <2>2 DEF Wizards
<1>6. CASE W!setRosterReviewed
  BY <1>0, <1>6 DEF W!setRosterReviewed, Wizards
<1> QED
  BY <1>1, <1>2, <1>3, <1>4, <1>5, <1>6 DEF W!Typing

LEMMA TypingKeeps ==
    ASSUME NEW n \in Nat, WizInv(n), W!Typing, UNCHANGED limit
    PROVE  WizInv(n)'
<1>1. UNCHANGED <<call, rolls>>
  BY DEF W!Typing, W!setHouseholdName, W!setSelfName, W!setDraft, W!addFamilyDraft, W!removeFamilyDraft,
     W!setRosterReviewed
<1>2. wiz.step \in 0..6
  BY DEF WizInv, WizTypes, Wizards
<1>3. wiz'.step <= wiz.step
  BY <1>2, TypingStays
<1> QED
  BY <1>1, <1>3, TypingStays, WizKept

\* Starting a call, moving on without one, going home and going back.
LEMMA BeginKeeps ==
    ASSUME NEW n \in Nat, WizInv(n), UNCHANGED limit,
           W!createHousehold \/ W!addSelf \/ W!addFamily
    PROVE  WizInv(n)'
<1>0. WizTypes(n) /\ CallFits /\ SavedOrDue /\ W!SelfLinked /\ wiz \in Wizards(n) /\ wiz.step \in 0..6 /\ wiz.hid \in Nat
  BY DEF WizInv, WizTypes, Wizards
<1>1. PICK at \in {"household", "self", "family"}, todo \in Seq(Listed(n)) :
         /\ W!Begin(at, todo)
         /\ at = "household" => wiz.step = 2 /\ Len(rolls) < limit.households
         /\ at = "self" => wiz.step = 3 /\ wiz.hid # 0
         /\ at = "family" => wiz.step = 4 /\ wiz.hid # 0 /\ todo # <<>>
  <2>1. <<>> \in Seq(Listed(n)) /\ wiz.family \in Seq(Listed(n))
    BY <1>0 DEF Wizards
  <2>2. CASE W!createHousehold
    BY <2>1, <2>2 DEF W!createHousehold, W!HouseholdStep
  <2>3. CASE W!addSelf
    BY <2>1, <2>3 DEF W!addSelf, W!SelfStep
  <2>4. CASE W!addFamily
    BY <2>1, <2>4 DEF W!addFamily, W!FamilyStep
  <2> QED
    BY <2>2, <2>3, <2>4
<1>2. wiz' \in Wizards(n) /\ wiz'.busy = TRUE /\ wiz'.hid = wiz.hid /\ wiz'.step = wiz.step /\ rolls' = rolls
  BY <1>0, <1>1 DEF W!Begin, Wizards
<1>3. PICK ds : ds = {d.who : d \in W!Range(todo)}
  OBVIOUS
<1>4. W!Range(todo) = {todo[i] : i \in 1..Len(todo)}
  BY <1>1 DEF W!Range
<1>5. ds \subseteq 1..n /\ \A d \in ds : \E i \in 1..Len(todo) : todo[i].who = d
  <2>1. \A i \in 1..Len(todo) : todo[i] \in Listed(n)
    BY <1>1
  <2>2. \A m \in Listed(n) : m.who \in 1..n
    BY DEF Listed
  <2> QED
    BY <1>3, <1>4, <2>1, <2>2
<1>6. call' = [at |-> at, step |-> wiz.step, hid |-> wiz.hid, todo |-> todo, drafts |-> ds]
  BY <1>1, <1>3 DEF W!Begin
<1>7. call' \in Calls(n) /\ call'.at = at /\ call'.step = wiz.step /\ call'.hid = wiz.hid
      /\ call'.todo = todo /\ call'.drafts = ds
  BY <1>0, <1>1, <1>5, <1>6 DEF Calls
<1>8. WizTypes(n)'
  BY <1>0, <1>2, <1>7 DEF WizTypes
<1>9. at = "family" => W!Self \in rolls[wiz.hid]
  BY <1>0, <1>1 DEF W!SelfLinked, W!FamilyStep
<1>10. CallFits'
  BY <1>0, <1>1, <1>2, <1>7, <1>9 DEF CallFits
<1>11. SavedOrDue'
  BY <1>5, <1>7 DEF SavedOrDue
<1>12. W!SelfLinked'
  BY <1>0, <1>2 DEF W!SelfLinked
<1> QED
  BY <1>8, <1>10, <1>11, <1>12 DEF WizInv

\* The wizard at another step, not busy.
LEMMA ToTyped ==
    ASSUME NEW n \in Nat, wiz \in Wizards(n), NEW s \in 0..6
    PROVE  /\ W!To(s) \in Wizards(n) /\ W!To(s).busy = FALSE /\ W!To(s).step = s
           /\ W!To(s).hid = wiz.hid /\ W!To(s).known = wiz.known
  BY DEF W!To, Wizards

LEMMA MovesKeep ==
    ASSUME NEW n \in Nat, WizInv(n), UNCHANGED limit,
           W!advanceRefused \/ W!advancePlain \/ W!finish \/ W!back
    PROVE  WizInv(n)'
<1>0. WizTypes(n) /\ CallFits /\ SavedOrDue /\ W!SelfLinked /\ wiz \in Wizards(n) /\ wiz.step \in 0..6 /\ wiz.hid \in Nat
      /\ wiz.hid <= Len(rolls) /\ Len(rolls) <= limit.households /\ rolls \in Seq(SUBSET OnRoll(n))
      /\ Len(rolls) \in Nat /\ UNCHANGED <<call, rolls>> /\ call \in Calls(n)
  <2>1. UNCHANGED <<call, rolls>>
    BY DEF W!advanceRefused, W!advancePlain, W!finish, W!back
  <2>2. WizTypes(n) /\ CallFits /\ SavedOrDue /\ W!SelfLinked
    BY DEF WizInv
  <2> QED
    BY <2>1, <2>2 DEF WizTypes, Wizards
<1>1. CASE W!advanceRefused
  <2>1. wiz' \in Wizards(n) /\ wiz'.hid = wiz.hid /\ wiz'.busy = wiz.busy /\ wiz'.step = wiz.step
    BY <1>0, <1>1 DEF W!advanceRefused, Wizards
  <2>2. wiz'.step <= wiz.step
    BY <1>0, <2>1
  <2> QED
    BY <1>0, <2>1, <2>2, WizKept
<1>2. CASE W!back
  <2>1. PICK s \in 0..6 : s = wiz.step - 1 /\ s <= wiz.step
    BY <1>0, <1>2 DEF W!back
  <2>2. wiz' = [wiz EXCEPT !.step = s, !.err = FALSE]
    BY <1>2, <2>1 DEF W!back
  <2>3. wiz' \in Wizards(n) /\ wiz'.hid = wiz.hid /\ wiz'.busy = wiz.busy /\ wiz'.step = s
    BY <1>0, <2>2 DEF Wizards
  <2> QED
    BY <1>0, <2>1, <2>3, WizKept
<1>3. CASE W!finish \/ W!advancePlain
  <2>0. call.at = "idle"
    BY <1>0, <1>3 DEF W!finish, W!advancePlain, W!Ready, CallFits
  <2>1. CASE wiz' = [wiz EXCEPT !.home = TRUE]
    <3>1. wiz' \in Wizards(n) /\ wiz'.hid = wiz.hid /\ wiz'.busy = wiz.busy /\ wiz'.step = wiz.step
      BY <1>0, <2>1 DEF Wizards
    <3>2. wiz'.step <= wiz.step
      BY <1>0, <3>1
    <3> QED
      BY <1>0, <3>1, <3>2, WizKept
  <2>2. CASE wiz' = W!Fresh(0, FALSE)
    <3>1. 0 \in 0..6 /\ FALSE \in BOOLEAN
      OBVIOUS
    <3>2. wiz' \in Wizards(n) /\ wiz'.hid = 0 /\ wiz'.busy = FALSE
      BY <2>2, <3>1, FreshTyped
    <3>3. wiz'.hid <= Len(rolls') /\ Len(rolls') <= limit.households /\ rolls' \in Seq(SUBSET OnRoll(n))
          /\ call' \in Calls(n) /\ call'.at = "idle"
      BY <1>0, <2>0, <3>2
    <3>4. wiz'.step >= 4 /\ wiz'.hid # 0 => W!Self \in rolls'[wiz'.hid]
      BY <3>2
    <3> QED
      BY <3>2, <3>3, <3>4, WizIdle
  <2>3. CASE W!advancePlain
    <3>1. PICK s \in 0..6 : s = wiz.step + 1
      BY <1>0, <2>3 DEF W!advancePlain, W!TOTAL
    <3>2. wiz' \in Wizards(n) /\ wiz'.hid = wiz.hid /\ wiz'.busy = FALSE /\ wiz'.step = s
      BY <1>0, <2>3, <3>1, ToTyped DEF W!advancePlain
    <3>3. wiz'.step >= 4 /\ wiz'.hid # 0 => wiz.step >= 4
      BY <1>0, <2>3, <3>1, <3>2 DEF W!advancePlain, W!SelfStep
    <3>4. wiz'.step >= 4 /\ wiz'.hid # 0 => W!Self \in rolls'[wiz'.hid]
      BY <1>0, <3>2, <3>3 DEF W!SelfLinked, W!FamilyStep
    <3> QED
      BY <1>0, <2>0, <3>2, <3>4, WizIdle
  <2> QED
    BY <1>3, <2>1, <2>2, <2>3 DEF W!finish
<1> QED
  BY <1>1, <1>2, <1>3

\* What the request of the call does to the households: none is lost, and nobody leaves.
LEMMA AppliedFits ==
    ASSUME NEW n \in Nat, WizInv(n)
    PROVE  /\ W!Applied \in Seq(SUBSET OnRoll(n))
           /\ Len(rolls) <= Len(W!Applied) /\ Len(W!Applied) <= limit.households
           /\ \A h \in 1..Len(rolls) : rolls[h] \subseteq W!Applied[h]
           /\ call.at = "household" => Len(W!Applied) = Len(rolls) + 1
           /\ call.at = "self" => W!Self \in W!Applied[call.hid]
           /\ call.at = "family" => Head(call.todo) \in W!Applied[call.hid]
<1>0. WizTypes(n) /\ CallFits /\ rolls \in Seq(SUBSET OnRoll(n)) /\ Len(rolls) \in Nat /\ limit.households \in Nat
      /\ Len(rolls) <= limit.households /\ call \in Calls(n) /\ wiz.hid \in Nat /\ wiz.hid <= Len(rolls)
  BY BoundsAssumption DEF WizInv, WizTypes, Wizards
<1>1. CASE call.at = "household"
  <2>1. W!Applied = Append(rolls, {}) /\ Len(rolls) < limit.households
    BY <1>0, <1>1 DEF W!Applied, CallFits
  <2>2. {} \in SUBSET OnRoll(n)
    OBVIOUS
  <2>3. W!Applied \in Seq(SUBSET OnRoll(n)) /\ Len(W!Applied) = Len(rolls) + 1
        /\ \A h \in 1..Len(rolls) : W!Applied[h] = rolls[h]
    BY <1>0, <2>1, <2>2, AppendProperties
  <2> QED
    BY <1>0, <1>1, <2>1, <2>3
<1>2. ASSUME NEW m \in OnRoll(n), call.hid \in 1..Len(rolls), W!Applied = [rolls EXCEPT ![call.hid] = @ \cup {m}]
      PROVE  /\ W!Applied \in Seq(SUBSET OnRoll(n)) /\ Len(W!Applied) = Len(rolls) /\ m \in W!Applied[call.hid]
             /\ \A h \in 1..Len(rolls) : rolls[h] \subseteq W!Applied[h]
  <2>1. rolls[call.hid] \in SUBSET OnRoll(n)
    BY <1>0, <1>2
  <2>2. PICK r \in SUBSET OnRoll(n) : r = rolls[call.hid] \cup {m}
    BY <2>1
  <2>3. W!Applied = [rolls EXCEPT ![call.hid] = r]
    BY <1>2, <2>2
  <2>4. W!Applied \in Seq(SUBSET OnRoll(n)) /\ Len(W!Applied) = Len(rolls) /\ W!Applied[call.hid] = r
        /\ \A h \in 1..Len(rolls) : h # call.hid => W!Applied[h] = rolls[h]
    BY <1>0, <1>2, <2>3, ExceptSeq
  <2> QED
    BY <2>2, <2>4
<1>3. CASE call.at = "self"
  <2>1. call.hid \in 1..Len(rolls) /\ W!Self \in OnRoll(n)
    BY <1>0, <1>3 DEF CallFits, OnRoll
  <2>2. W!Applied = [rolls EXCEPT ![call.hid] = @ \cup {W!Self}]
    BY <1>3 DEF W!Applied
  <2>3. /\ W!Applied \in Seq(SUBSET OnRoll(n)) /\ Len(W!Applied) = Len(rolls) /\ W!Self \in W!Applied[call.hid]
        /\ \A h \in 1..Len(rolls) : rolls[h] \subseteq W!Applied[h]
    BY <1>2, <2>1, <2>2
  <2> QED
    BY <1>0, <1>3, <2>3
<1>4. CASE call.at = "family"
  <2>1. call.hid \in 1..Len(rolls) /\ call.todo # <<>> /\ call.todo \in Seq(Listed(n))
    BY <1>0, <1>4 DEF CallFits, Calls
  <2>2. Head(call.todo) \in OnRoll(n)
    BY <2>1, HeadTailProperties DEF OnRoll
  <2>3. W!Applied = [rolls EXCEPT ![call.hid] = @ \cup {Head(call.todo)}]
    BY <1>4 DEF W!Applied
  <2>4. /\ W!Applied \in Seq(SUBSET OnRoll(n)) /\ Len(W!Applied) = Len(rolls) /\ Head(call.todo) \in W!Applied[call.hid]
        /\ \A h \in 1..Len(rolls) : rolls[h] \subseteq W!Applied[h]
    BY <1>2, <2>1, <2>2, <2>3
  <2> QED
    BY <1>0, <1>4, <2>4
<1>5. CASE call.at \notin {"household", "self", "family"}
  <2>1. W!Applied = rolls
    BY <1>5 DEF W!Applied
  <2> QED
    BY <1>0, <1>5, <2>1
<1> QED
  BY <1>1, <1>3, <1>4, <1>5

\* The answers that leave the wizard where it is: a failure, and a page loaded again.
LEMMA LostKeeps ==
    ASSUME NEW n \in Nat, WizInv(n), UNCHANGED limit, W!CallFails \/ W!Reload
    PROVE  WizInv(n)'
<1>0. WizTypes(n) /\ CallFits /\ W!SelfLinked /\ wiz \in Wizards(n) /\ wiz.hid \in Nat /\ wiz.step \in 0..6
      /\ wiz.hid <= Len(rolls) /\ rolls \in Seq(SUBSET OnRoll(n)) /\ Len(rolls) \in Nat /\ Len(rolls) <= limit.households
  BY DEF WizInv, WizTypes, Wizards
<1>1. rolls' \in Seq(SUBSET OnRoll(n)) /\ Len(rolls') \in Nat /\ Len(rolls) <= Len(rolls') /\ Len(rolls') <= limit.households
      /\ \A h \in 1..Len(rolls) : rolls[h] \subseteq rolls'[h]
  <2>1. rolls' = rolls \/ rolls' = W!Applied
    BY DEF W!CallFails, W!Reload
  <2>2. CASE rolls' = rolls
    BY <1>0, <2>2
  <2>3. CASE rolls' = W!Applied
    BY <1>0, <2>3, AppliedFits
  <2> QED
    BY <2>1, <2>2, <2>3
<1>2. call' \in Calls(n) /\ call'.at = "idle"
  BY NoCallTyped DEF W!CallFails, W!Reload
<1>3. wiz' \in Wizards(n) /\ wiz'.busy = FALSE /\ (wiz'.hid = 0 \/ (wiz'.hid = wiz.hid /\ wiz'.step = wiz.step))
  <2>1. CASE W!CallFails
    BY <1>0, <2>1 DEF W!CallFails, Wizards
  <2>2. CASE W!Reload
    <3>1. PICK k \in BOOLEAN : k = W!Linked(rolls')
      BY DEF W!Linked
    <3>2. wiz' = W!Fresh(0, k) \/ wiz' = W!Fresh(5, k)
      BY <2>2, <3>1 DEF W!Reload, W!CalendarStep
    <3>3. 0 \in 0..6 /\ 5 \in 0..6
      OBVIOUS
    <3> QED
      BY <3>2, <3>3, FreshTyped
  <2> QED
    BY <2>1, <2>2
<1>4. wiz'.hid <= Len(rolls')
  BY <1>0, <1>1, <1>3
<1>5. wiz'.step >= 4 /\ wiz'.hid # 0 => W!Self \in rolls'[wiz'.hid]
  BY <1>0, <1>1, <1>3 DEF W!SelfLinked, W!FamilyStep
<1> QED
  BY <1>1, <1>2, <1>3, <1>4, <1>5, WizIdle

\* The answers that move the wizard on.
LEMMA AnswerKeeps ==
    ASSUME NEW n \in Nat, WizInv(n), UNCHANGED limit,
           W!HouseholdCreated \/ W!SelfAdded \/ W!RefreshEnds \/ W!FamilyMemberAdded
    PROVE  WizInv(n)'
<1>0. WizTypes(n) /\ CallFits /\ SavedOrDue /\ W!SelfLinked /\ wiz \in Wizards(n) /\ wiz.hid \in Nat /\ wiz.step \in 0..6
      /\ wiz.hid <= Len(rolls) /\ rolls \in Seq(SUBSET OnRoll(n)) /\ Len(rolls) \in Nat /\ Len(rolls) <= limit.households
      /\ call \in Calls(n) /\ call.step \in 0..6
  BY DEF WizInv, WizTypes, Wizards, Calls
<1>1. CASE W!HouseholdCreated
  <2>1. call.at = "household" /\ call.step + 1 = 3
    BY <1>0, <1>1 DEF W!HouseholdCreated, CallFits
  <2>2. rolls' \in Seq(SUBSET OnRoll(n)) /\ Len(rolls') = Len(rolls) + 1 /\ Len(rolls') <= limit.households
    BY <1>1, <2>1, AppliedFits DEF W!HouseholdCreated
  <2>3. PICK h \in Nat : h = Len(rolls) + 1
    BY <1>0
  <2>4. PICK t \in Wizards(n) : t = W!To(3) /\ t.busy = FALSE /\ t.step = 3
    <3>1. 3 \in 0..6
      OBVIOUS
    <3> QED
      BY <1>0, <3>1, ToTyped
  <2>5. wiz' = [t EXCEPT !.hid = h]
    BY <1>1, <2>1, <2>3, <2>4 DEF W!HouseholdCreated
  <2>6. wiz' \in Wizards(n) /\ wiz'.busy = FALSE /\ wiz'.step = 3 /\ wiz'.hid = h
    BY <2>4, <2>5 DEF Wizards
  <2>7. call' \in Calls(n) /\ call'.at = "idle"
    BY <1>1, NoCallTyped DEF W!HouseholdCreated
  <2>8. wiz'.hid <= Len(rolls') /\ ~(wiz'.step >= 4)
    BY <1>0, <2>2, <2>3, <2>6
  <2> QED
    BY <2>2, <2>6, <2>7, <2>8, WizIdle
<1>2. CASE W!SelfAdded
  <2>1. call.at = "self" /\ call' = [call EXCEPT !.at = "refresh"] /\ wiz' = wiz /\ rolls' = W!Applied
    BY <1>2 DEF W!SelfAdded
  <2>2. call' \in Calls(n) /\ call'.at = "refresh" /\ call'.step = call.step /\ call'.hid = call.hid
    BY <1>0, <2>1 DEF Calls
  <2>3. rolls' \in Seq(SUBSET OnRoll(n)) /\ Len(rolls) <= Len(rolls') /\ Len(rolls') <= limit.households
        /\ W!Self \in rolls'[call.hid] /\ (\A h \in 1..Len(rolls) : rolls[h] \subseteq rolls'[h])
    BY <2>1, AppliedFits
  <2>4. WizTypes(n)'
    <3>1. wiz'.hid <= Len(rolls')
      BY <1>0, <2>1, <2>3
    <3> QED
      BY <1>0, <2>1, <2>2, <2>3, <3>1 DEF WizTypes
  <2>5. CallFits'
    BY <1>0, <2>1, <2>2, <2>3 DEF CallFits
  <2>6. SavedOrDue'
    BY <2>2 DEF SavedOrDue
  <2>7. W!SelfLinked'
    BY <1>0, <2>1, <2>3 DEF W!SelfLinked
  <2> QED
    BY <2>4, <2>5, <2>6, <2>7 DEF WizInv
<1>3. CASE W!RefreshEnds
  <2>1. call.at = "refresh" /\ call.step + 1 = 4 /\ rolls' = rolls /\ W!Self \in rolls[wiz.hid]
    BY <1>0, <1>3 DEF W!RefreshEnds, CallFits
  <2>2. PICK t \in Wizards(n) : t = W!To(4) /\ t.busy = FALSE /\ t.step = 4 /\ t.hid = wiz.hid
    <3>1. 4 \in 0..6
      OBVIOUS
    <3> QED
      BY <1>0, <3>1, ToTyped
  <2>3. PICK ok \in BOOLEAN : wiz' = [t EXCEPT !.known = @ \/ ok]
    BY <1>3, <2>1, <2>2 DEF W!RefreshEnds
  <2>4. wiz' \in Wizards(n) /\ wiz'.busy = FALSE /\ wiz'.hid = wiz.hid
    BY <2>2, <2>3 DEF Wizards
  <2>5. call' \in Calls(n) /\ call'.at = "idle"
    BY <1>3, NoCallTyped DEF W!RefreshEnds
  <2>6. wiz'.hid <= Len(rolls') /\ Len(rolls') <= limit.households /\ rolls' \in Seq(SUBSET OnRoll(n))
        /\ W!Self \in rolls'[wiz'.hid]
    BY <1>0, <2>1, <2>4
  <2> QED
    BY <2>4, <2>5, <2>6, WizIdle
<1>4. CASE W!FamilyMemberAdded
  <2>1. call.at = "family" /\ call.step + 1 = 5 /\ rolls' = W!Applied /\ call.hid = wiz.hid /\ call.hid \in 1..Len(rolls)
        /\ W!Self \in rolls[call.hid] /\ call.todo # <<>>
    BY <1>0, <1>4 DEF W!FamilyMemberAdded, CallFits
  <2>2. rolls' \in Seq(SUBSET OnRoll(n)) /\ Len(rolls) <= Len(rolls') /\ Len(rolls') <= limit.households
        /\ Head(call.todo) \in rolls'[call.hid] /\ (\A h \in 1..Len(rolls) : rolls[h] \subseteq rolls'[h])
    BY <2>1, AppliedFits
  <2>3. W!Self \in rolls'[call.hid] /\ wiz.hid <= Len(rolls')
    <3>1. Len(rolls') \in Nat
      BY <2>2
    <3> QED
      BY <1>0, <2>1, <2>2, <3>1
  <2>4. CASE W!Done
    <3>1. wiz' = W!To(5) /\ call' = W!NoCall
      BY <2>1, <2>4 DEF W!Done
    <3>2. 5 \in 0..6
      OBVIOUS
    <3>3. wiz' \in Wizards(n) /\ wiz'.busy = FALSE /\ wiz'.hid = wiz.hid
      BY <1>0, <3>1, <3>2, ToTyped
    <3>4. call' \in Calls(n) /\ call'.at = "idle"
      BY <3>1, NoCallTyped
    <3>5. wiz'.hid <= Len(rolls') /\ W!Self \in rolls'[wiz'.hid]
      BY <2>1, <2>3, <3>3
    <3> QED
      BY <2>2, <3>3, <3>4, <3>5, WizIdle
  <2>5. CASE Len(call.todo) # 1 /\ call' = [call EXCEPT !.todo = Tail(@)] /\ UNCHANGED wiz
    <3>1. call.todo \in Seq(Listed(n)) /\ Len(call.todo) \in Nat /\ Len(call.todo) # 0
      BY <1>0, <2>1 DEF Calls
    <3>2. PICK t \in Seq(Listed(n)) : t = Tail(call.todo) /\ Len(t) = Len(call.todo) - 1
                                      /\ \A i \in 1..Len(t) : t[i] = call.todo[i + 1]
      <4>1. PICK s \in Seq(Listed(n)) : s = call.todo /\ s # <<>>
        BY <2>1, <3>1
      <4>2. Tail(s) \in Seq(Listed(n)) /\ Len(Tail(s)) = Len(s) - 1 /\ \A i \in 1..Len(Tail(s)) : Tail(s)[i] = s[i + 1]
        BY <4>1, HeadTailProperties
      <4> QED
        BY <4>1, <4>2
    <3>3. t # <<>>
      <4>1. Len(t) # 0
        BY <2>5, <3>1, <3>2
      <4> QED
        BY <4>1
    <3>4. call' \in Calls(n) /\ call'.at = "family" /\ call'.step = call.step /\ call'.hid = call.hid
          /\ call'.todo = t /\ call'.drafts = call.drafts
      BY <1>0, <2>1, <2>5, <3>2 DEF Calls
    <3>5. WizTypes(n)'
      BY <1>0, <2>2, <2>3, <2>5, <3>4 DEF WizTypes
    <3>6. CallFits'
      BY <1>0, <2>1, <2>3, <2>5, <3>3, <3>4 DEF CallFits
    <3>7. ASSUME NEW d \in call.drafts
          PROVE  (\E m \in rolls'[call.hid] : m.who = d) \/ (\E i \in 1..Len(t) : t[i].who = d)
      <4>1. CASE \E m \in rolls[call.hid] : m.who = d
        BY <2>1, <2>2, <4>1
      <4>2. ASSUME NEW i \in 1..Len(call.todo), call.todo[i].who = d
            PROVE  (\E m \in rolls'[call.hid] : m.who = d) \/ (\E j \in 1..Len(t) : t[j].who = d)
        <5>1. CASE i = 1
          BY <2>1, <2>2, <4>2, <5>1 DEF Calls
        <5>2. CASE i # 1
          <6>1. PICK j \in 1..Len(t) : i = j + 1
            BY <3>1, <3>2, <4>2, <5>2
          <6> QED
            BY <3>2, <4>2, <6>1
        <5> QED
          BY <5>1, <5>2
      <4> QED
        BY <1>0, <2>1, <4>1, <4>2 DEF SavedOrDue
    <3>8. SavedOrDue'
      BY <3>4, <3>7 DEF SavedOrDue
    <3>9. W!SelfLinked'
      BY <2>1, <2>3, <2>5 DEF W!SelfLinked
    <3> QED
      BY <3>5, <3>6, <3>8, <3>9 DEF WizInv
  <2> QED
    BY <1>4, <2>4, <2>5 DEF W!FamilyMemberAdded
<1> QED
  BY <1>1, <1>2, <1>3, <1>4

LEMMA WizNextKeeps ==
    ASSUME NEW n \in Nat, WizInv(n), W!Next
    PROVE  WizInv(n)'
  BY TypingKeeps, BeginKeeps, MovesKeep, LostKeeps, AnswerKeeps DEF W!Next, W!Advance, W!Answered

\* A wizard that comes to the calendar's step during the family's call has saved everybody.
LEMMA RosterSavedStep ==
    ASSUME NEW n \in Nat, WizInv(n), W!Next,
           call.at = "family", wiz'.step = W!CalendarStep, wiz.step # W!CalendarStep, wiz'.hid = wiz.hid
    PROVE  \A d \in call.drafts : \E m \in rolls'[call.hid] : m.who = d
<1>0. WizTypes(n) /\ CallFits /\ SavedOrDue /\ wiz \in Wizards(n) /\ wiz.step \in 0..6 /\ wiz.hid \in Nat
      /\ wiz.hid <= Len(rolls) /\ Len(rolls) \in Nat /\ call \in Calls(n)
  BY DEF WizInv, WizTypes, Wizards
<1>1. wiz.busy /\ wiz.step <= 4 /\ call.hid = wiz.hid /\ wiz.hid # 0 /\ call.todo # <<>> /\ wiz'.step = 5
  BY <1>0 DEF CallFits, W!CalendarStep
<1>2. W!FamilyMemberAdded
  <2>1. ~W!Typing
    BY <1>0, <1>1, TypingStays
  <2>2. ~W!Advance /\ ~W!finish
    BY <1>1 DEF W!Advance, W!finish, W!Ready, W!advanceRefused, W!createHousehold, W!addSelf, W!addFamily,
       W!advancePlain
  <2>3. ASSUME W!back PROVE FALSE
    <3>1. PICK s \in Int : s = wiz.step - 1
      BY <1>0
    <3>2. wiz' = [wiz EXCEPT !.step = s, !.err = FALSE]
      BY <2>3, <3>1 DEF W!back
    <3>3. wiz'.step = s
      BY <1>0, <3>2 DEF Wizards
    <3> QED
      BY <1>0, <1>1, <3>1, <3>3
  <2>4. ASSUME W!CallFails PROVE FALSE
    <3>1. wiz'.step = wiz.step
      BY <1>0, <2>4 DEF W!CallFails, Wizards
    <3> QED
      BY <3>1
  <2>5. ASSUME W!Reload PROVE FALSE
    <3>1. wiz'.hid = 0
      BY <2>5 DEF W!Reload, W!Fresh
    <3> QED
      BY <1>1, <3>1
  <2> QED
    BY <2>1, <2>2, <2>3, <2>4, <2>5 DEF W!Next, W!Answered, W!HouseholdCreated, W!SelfAdded, W!RefreshEnds
<1>3. Len(call.todo) = 1
  BY <1>1, <1>2 DEF W!FamilyMemberAdded
<1>4. rolls' = W!Applied /\ call.hid \in 1..Len(rolls)
  BY <1>0, <1>1, <1>2 DEF W!FamilyMemberAdded
<1>5. Head(call.todo) \in rolls'[call.hid] /\ rolls[call.hid] \subseteq rolls'[call.hid]
  BY <1>4, AppliedFits
<1>6. Head(call.todo) = call.todo[1]
  BY <1>0, <1>1 DEF Calls
<1> QED
  BY <1>0, <1>3, <1>5, <1>6 DEF SavedOrDue

-----------------------------------------------------------------------------
(* What a step of joining may never do.                                    *)

LEMMA OldCodeStep ==
    ASSUME JoinInv, J!Next, Len(reqs') > Len(reqs)
    PROVE  J!Last(reqs').code >= ask.since
<1>0. reqs \in Seq(JoinRows) /\ Len(reqs) \in Nat /\ DOMAIN reqs = 1..Len(reqs)
  BY JoinFacts DEF JoinInv, JoinTypes
<1>1. J!RequestJoin /\ ~UNCHANGED reqs
  <2>1. ~UNCHANGED reqs
    BY <1>0
  <2>2. ASSUME NEW d \in J!Adults \X J!Verdicts, J!MarkReviewed(d)
        PROVE  Len(reqs') = Len(reqs)
    <3>1. DOMAIN reqs' = DOMAIN reqs
      BY <2>2 DEF J!MarkReviewed
    <3>2. JoinInv'
      BY JoinNextKeeps
    <3>3. Len(reqs') \in Nat /\ DOMAIN reqs' = 1..Len(reqs')
      BY <3>2 DEF JoinInv, JoinTypes
    <3> QED
      BY <1>0, <3>1, <3>3
  <2> QED
    BY <1>0, <2>1, <2>2 DEF J!Next, J!JoinPage, J!setCode, J!handleLookup, J!PreviewArrives, J!handleJoin, J!JoinAnswered, J!LeaveJoin,
       J!FindHousehold, J!RegenerateInviteCode, J!Review, J!handleReview, J!CheckPending, J!CreateMember
<1>2. reqs' = Append(reqs, [status |-> "pending", code |-> ask.code]) /\ ask.at = "found"
  BY <1>1 DEF J!RequestJoin
<1>3. reqs'[Len(reqs')] = [status |-> "pending", code |-> ask.code]
  BY <1>0, <1>2
<1>4. ask.since \in Nat /\ ask.code \in Nat /\ ask.since <= ask.code
  BY <1>2 DEF JoinInv, JoinTypes, AskFits, Asks, J!Codes, J!Partial
<1> QED
  BY <1>3, <1>4 DEF J!Last

LEMMA SettledStep ==
    ASSUME JoinInv, J!Next, NEW r \in DOMAIN reqs, J!Settled(r)
    PROVE  J!Settled(r)' /\ reqs'[r] = reqs[r]
<1>0. reqs \in Seq(JoinRows) /\ Len(reqs) \in Nat /\ DOMAIN reqs = 1..Len(reqs) /\ r \in 1..Len(reqs)
      /\ dialogs \in [Reviews -> ReviewRecords] /\ Reviews = J!Adults \X J!Verdicts
  BY JoinFacts DEF JoinInv, JoinTypes, Reviews
<1>1. reqs[r].status # "pending" /\ \A d \in Reviews : dialogs[d].at \in {"checked", "marked"} => dialogs[d].req # r
  BY <1>0 DEF J!Settled
<1> SUFFICES /\ reqs'[r] = reqs[r]
             /\ \A d \in Reviews : dialogs'[d].at \in {"checked", "marked"} => dialogs'[d].req # r
  BY <1>0, <1>1 DEF J!Settled
<1>2. CASE J!JoinPage \/ J!FindHousehold \/ J!RegenerateInviteCode
  <2>1. UNCHANGED <<reqs, dialogs>>
    BY <1>2 DEF J!JoinPage, J!setCode, J!handleLookup, J!PreviewArrives, J!handleJoin, J!JoinAnswered, J!LeaveJoin,
       J!FindHousehold, J!RegenerateInviteCode
  <2> QED
    BY <1>1, <2>1
<1>3. CASE J!RequestJoin
  <2>1. reqs' = reqs \/ reqs' = Append(reqs, [status |-> "pending", code |-> ask.code])
    BY <1>3 DEF J!RequestJoin
  <2>2. reqs'[r] = reqs[r] /\ dialogs' = dialogs
    BY <1>0, <1>3, <2>1 DEF J!RequestJoin
  <2> QED
    BY <1>1, <2>2
<1>4. ASSUME NEW d \in Reviews, J!Review(d)
      PROVE  /\ reqs'[r] = reqs[r]
             /\ \A e \in Reviews : dialogs'[e].at \in {"checked", "marked"} => dialogs'[e].req # r
  <2>0. dialogs[d] \in ReviewRecords
    BY <1>0
  <2>1. ASSUME NEW x \in ReviewRecords, dialogs' = [dialogs EXCEPT ![d] = x],
               x.at \in {"checked", "marked"} => x.req # r
        PROVE  \A e \in Reviews : dialogs'[e].at \in {"checked", "marked"} => dialogs'[e].req # r
    BY <1>0, <1>1, <2>1
  <2>2. J!NoReview \in ReviewRecords /\ J!NoReview.at = "idle"
    BY DEF J!NoReview, ReviewRecords
  <2>3. J!Ends(d) => \A e \in Reviews : dialogs'[e].at \in {"checked", "marked"} => dialogs'[e].req # r
    BY <2>1, <2>2 DEF J!Ends
  <2>4. ASSUME NEW at \in {"checked", "marked"}, J!Step(d, at), dialogs[d].req # r
        PROVE  \A e \in Reviews : dialogs'[e].at \in {"checked", "marked"} => dialogs'[e].req # r
    <3>1. [dialogs[d] EXCEPT !.at = at] \in ReviewRecords /\ [dialogs[d] EXCEPT !.at = at].req = dialogs[d].req
      BY <2>0 DEF ReviewRecords
    <3> QED
      BY <2>1, <2>4, <3>1 DEF J!Step
  <2>5. CASE J!handleReview(d)
    <3>1. PICK k \in 1..Len(reqs) : dialogs' = [dialogs EXCEPT ![d] = [req |-> k, at |-> "sent"]]
      BY <1>0, <2>5 DEF J!handleReview, J!ReviewOffered
    <3>2. [req |-> k, at |-> "sent"] \in ReviewRecords /\ [req |-> k, at |-> "sent"].at = "sent"
      BY DEF ReviewRecords
    <3> QED
      BY <2>1, <2>5, <3>1, <3>2 DEF J!handleReview
  <2>6. CASE J!CheckPending(d)
    BY <1>1, <2>3, <2>4, <2>6 DEF J!CheckPending
  <2>7. CASE J!MarkReviewed(d)
    <3>1. dialogs[d].req # r
      BY <1>1, <2>7 DEF J!MarkReviewed
    <3>2. reqs'[r] = reqs[r]
      BY <1>0, <2>7, <3>1 DEF J!MarkReviewed
    <3> QED
      BY <2>3, <2>4, <2>7, <3>1, <3>2 DEF J!MarkReviewed
  <2>8. CASE J!CreateMember(d)
    BY <2>3, <2>8 DEF J!CreateMember
  <2> QED
    BY <1>4, <2>5, <2>6, <2>7, <2>8 DEF J!Review
<1> QED
  BY <1>0, <1>2, <1>3, <1>4 DEF J!Next

-----------------------------------------------------------------------------
(* The calendar's form.                                                    *)

FormIds == E!Ids \cup {E!New}
Writes == [n : Nat, kind : {"create", "update", "delete"}, id : FormIds, row : 0..2, of : SUBSET FormIds,
           heard : BOOLEAN, st : {"sent", "ok", "failed"}]
Served == [st : {"served"}, row : 1..2]
FetchStates == {E!Idle, E!Asked} \cup Served
Modals == [id : E!Ids \cup {E!New, E!None}, row : 0..2]
Forms == [row : 0..2, of : SUBSET FormIds]
Counts == [acts : Nat, saves : Nat, forms : Nat, lost : Nat, deleted : SUBSET E!Ids]

EditTypes ==
    /\ events \in [E!Ids -> 0..2] /\ linked \in [E!Ids -> 0..2] /\ fetch \in [E!Ids -> FetchStates]
    /\ created \in Nat /\ link \in E!Ids \cup {E!None} /\ modal \in Modals /\ form \in Forms
    /\ busy \in BOOLEAN /\ writes \subseteq Writes /\ count \in Counts
    /\ count.acts <= MaxActs /\ count.saves <= MaxSaves /\ count.forms <= count.acts

\* The form holds what was entered for its own event.
FormFits == form.of \subseteq {modal.id}

\* Requests are numbered; each is about the event of the form that sent it, and the
\* form waits for at most one.
WritesFit ==
    /\ \A w \in writes : w.n \in 1..count.saves /\ w.of \subseteq {w.id} /\ (w.kind = "create" <=> w.id = E!New)
    /\ \A w, v \in writes : w.n = v.n => w = v
    /\ \A w, v \in writes : w.heard /\ v.heard => w = v
    /\ busy <=> \E w \in writes : w.heard

\* What this page has deleted is gone, and no fetch of the link brings it back.
GhostFree ==
    /\ modal.id \notin count.deleted
    /\ \A e \in count.deleted : events[e] = 0 /\ (link = e => fetch[e].st # "served")
    /\ \A w \in writes : w.kind = "delete" /\ w.st = "ok" => events[w.id] = 0

\* The numbers of the requests the server has not seen, and of those that add an event.
Sent == {k \in 1..count.saves : \E w \in writes : w.n = k /\ w.st = "sent"}
Adding == {k \in 1..count.saves : \E w \in writes : w.n = k /\ w.st = "sent" /\ w.kind = "create"}

\* A form for a new event that may still send its first request, or its retry.
CreateHeard == \E w \in writes : w.heard /\ w.kind = "create" /\ w.st # "failed"
Slot == IF modal.id = E!New /\ ~CreateHeard THEN 1 ELSE 0

CountsFit ==
    /\ created + Cardinality(Sent) <= count.saves
    /\ count.lost + Cardinality(Sent) <= count.saves
    /\ created + Cardinality(Adding) + Slot <= count.forms + count.lost

\* The inductive invariant of the form.
EditInv == EditTypes /\ FormFits /\ WritesFit /\ GhostFree /\ CountsFit

LEMMA EditFacts ==
    ASSUME EditInv
    PROVE  /\ IsFiniteSet(Sent) /\ IsFiniteSet(Adding) /\ Cardinality(Sent) \in Nat /\ Cardinality(Adding) \in Nat
           /\ Slot \in {0, 1} /\ created \in Nat /\ MaxActs \in Nat /\ MaxSaves \in Nat
           /\ count.acts \in Nat /\ count.saves \in Nat /\ count.forms \in Nat /\ count.lost \in Nat
           /\ count.deleted \subseteq E!Ids
<1>1. created \in Nat /\ count \in Counts
  BY DEF EditInv, EditTypes
<1>2. count.acts \in Nat /\ count.saves \in Nat /\ count.forms \in Nat /\ count.lost \in Nat /\ count.deleted \subseteq E!Ids
  BY <1>1 DEF Counts
<1>3. IsFiniteSet(1..count.saves)
  <2>1. PICK k \in Int : k = count.saves
    BY <1>2
  <2>2. IsFiniteSet(1..k)
    BY FS_Interval
  <2> QED
    BY <2>1, <2>2
<1>4. Sent \subseteq 1..count.saves /\ Adding \subseteq 1..count.saves
  BY DEF Sent, Adding
<1>5. IsFiniteSet(Sent) /\ IsFiniteSet(Adding)
  BY <1>3, <1>4, FS_Subset
<1>6. Cardinality(Sent) \in Nat /\ Cardinality(Adding) \in Nat
  BY <1>5, FS_CardinalityType
<1> QED
  BY <1>1, <1>2, <1>5, <1>6, BoundsAssumption DEF Slot

\* It implies the component's types and its safety.
LEMMA EditImplies == EditInv => E!EditTypeOK /\ E!FormHonest
<1> SUFFICES ASSUME EditInv PROVE E!EditTypeOK /\ E!FormHonest
  OBVIOUS
<1>0. EditTypes /\ WritesFit /\ GhostFree /\ CountsFit
  BY DEF EditInv
<1>1. created \in 0..MaxSaves /\ count.lost \in 0..MaxSaves /\ count.saves \in 0..MaxSaves /\ count.acts \in 0..MaxActs
      /\ count.forms \in 0..MaxActs
  BY <1>0, EditFacts DEF CountsFit, EditTypes
<1>2. writes \subseteq [n : 1..MaxSaves, kind : {"create", "update", "delete"}, id : E!Ids \cup {E!New},
                        row : 0..2, of : SUBSET (E!Ids \cup {E!New}), heard : BOOLEAN, st : {"sent", "ok", "failed"}]
  <2>1. ASSUME NEW w \in writes
        PROVE  w \in [n : 1..MaxSaves, kind : {"create", "update", "delete"}, id : E!Ids \cup {E!New},
                      row : 0..2, of : SUBSET (E!Ids \cup {E!New}), heard : BOOLEAN, st : {"sent", "ok", "failed"}]
    <3>1. w \in Writes /\ w.n \in 1..count.saves /\ count.saves <= MaxSaves
      BY <1>0 DEF EditTypes, WritesFit
    <3>2. w.n \in 1..MaxSaves
      BY <1>1, <3>1, EditFacts
    <3> QED
      BY <3>1, <3>2 DEF Writes, FormIds
  <2> QED
    BY <2>1
<1>3. count \in [acts : 0..MaxActs, saves : 0..MaxSaves, forms : 0..MaxActs, lost : 0..MaxSaves, deleted : SUBSET E!Ids]
  <2>1. count \in Counts
    BY <1>0 DEF EditTypes
  <2> QED
    BY <1>1, <2>1 DEF Counts
<1>4. E!EditTypeOK
  BY <1>0, <1>1, <1>2, <1>3 DEF EditTypes, E!EditTypeOK, FetchStates, Served, E!Rows, Modals, Forms, FormIds
<1>5. E!NoCrossEdit /\ E!BusyIsAwaited
  BY <1>0 DEF WritesFit, E!NoCrossEdit, E!BusyIsAwaited
<1>6. E!DuplicateOnlyByRetry
  BY <1>0, EditFacts DEF CountsFit, E!DuplicateOnlyByRetry
<1>7. E!NoGhost
  BY <1>0 DEF GhostFree, E!NoGhost
<1> QED
  BY <1>4, <1>5, <1>6, <1>7 DEF E!FormHonest

LEMMA EditInitInv == E!EditInit => EditInv
<1> SUFFICES ASSUME E!EditInit PROVE EditInv
  OBVIOUS
<1>1. count \in Counts /\ count.acts = 0 /\ count.saves = 0 /\ count.forms = 0 /\ count.lost = 0 /\ count.deleted = {}
  BY DEF E!EditInit, Counts
<1>2. modal \in Modals /\ modal.id = E!None /\ form \in Forms /\ form.of = {}
  BY DEF E!EditInit, E!NoModal, E!NoForm, E!Shown, E!NoRow, Modals, Forms
<1>3. EditTypes
  <2>1. count.acts <= MaxActs /\ count.saves <= MaxSaves /\ count.forms <= count.acts /\ created \in Nat
    BY <1>1, BoundsAssumption DEF E!EditInit
  <2>2. events \in [E!Ids -> 0..2] /\ linked \in [E!Ids -> 0..2] /\ fetch \in [E!Ids -> FetchStates]
    BY DEF E!EditInit, E!NoRow, FetchStates
  <2>3. link \in E!Ids \cup {E!None} /\ busy \in BOOLEAN /\ writes \subseteq Writes
    BY DEF E!EditInit
  <2> QED
    BY <1>1, <1>2, <2>1, <2>2, <2>3 DEF EditTypes
<1>4. Sent = {} /\ Adding = {} /\ Slot = 0
  BY <1>1, <1>2 DEF Sent, Adding, Slot, E!New, E!None
<1>5. Cardinality(Sent) = 0 /\ Cardinality(Adding) = 0
  BY <1>4, FS_EmptySet
<1>6. CountsFit
  BY <1>1, <1>4, <1>5 DEF CountsFit, E!EditInit
<1> QED
  BY <1>1, <1>2, <1>3, <1>6 DEF EditInv, FormFits, WritesFit, GhostFree, E!EditInit

\* A step that sends, takes and answers nothing.
LEMMA EditKept ==
    ASSUME EditInv, EditTypes', FormFits', GhostFree', UNCHANGED <<created, writes, busy>>,
           count'.saves = count.saves, count'.lost = count.lost,
           \/ count'.forms = count.forms + 1
           \/ count'.forms = count.forms /\ (modal'.id = E!New => modal.id = E!New)
    PROVE  EditInv'
<1>0. WritesFit /\ CountsFit
  BY DEF EditInv
<1>1. WritesFit'
  BY <1>0 DEF WritesFit
<1>2. Sent' = Sent /\ Adding' = Adding /\ (CreateHeard' <=> CreateHeard)
  BY DEF Sent, Adding, CreateHeard
<1>3. Slot' \in {0, 1}
  BY DEF Slot
<1>4. created' + Cardinality(Adding)' + Slot' <= count'.forms + count'.lost
  <2>1. CASE count'.forms = count.forms + 1
    BY <1>0, <1>2, <1>3, <2>1, EditFacts DEF CountsFit
  <2>2. CASE count'.forms = count.forms /\ (modal'.id = E!New => modal.id = E!New)
    <3>1. Slot' <= Slot
      BY <1>2, <2>2 DEF Slot
    <3> QED
      BY <1>0, <1>2, <1>3, <2>2, <3>1, EditFacts DEF CountsFit
  <2> QED
    BY <2>1, <2>2
<1>5. CountsFit'
  BY <1>0, <1>2, <1>4 DEF CountsFit
<1> QED
  BY <1>1, <1>5 DEF EditInv

\* The modal and the form after the effect on eventFromQuery.
LEMMA ShowLinkedFits ==
    ASSUME NEW row \in 0..2, NEW e \in E!Ids, NEW m \in Modals, NEW f \in Forms, f.of \subseteq {m.id},
           E!ShowLinked(row, e, m, f)
    PROVE  /\ modal' \in Modals /\ form' \in Forms /\ form'.of \subseteq {modal'.id}
           /\ modal'.id \in {m.id, e}
<1>1. CASE row = E!NoRow
  BY <1>1 DEF E!ShowLinked
<1>2. CASE row # E!NoRow
  <2>1. modal' = E!Shown(e, row) /\ form' = E!Seeded(E!Shown(e, row), m, f)
    BY <1>2 DEF E!ShowLinked
  <2>2. modal' \in Modals /\ modal'.id = e /\ modal'.row = row
    BY <2>1 DEF E!Shown, Modals
  <2>3. [row |-> row, of |-> {e}] \in Forms /\ [row |-> row, of |-> {e}].of = {e}
    BY DEF Forms, FormIds
  <2>4. form' = [row |-> row, of |-> {e}] \/ (form' = f /\ m.id = e)
    BY <2>1, <2>2 DEF E!Seeded
  <2> QED
    BY <2>2, <2>3, <2>4
<1> QED
  BY <1>1, <1>2

\* A fetch that starts is not served yet.
LEMMA StartFetchFits ==
    ASSUME NEW e \in E!Ids, fetch \in [E!Ids -> FetchStates], E!StartFetch(e)
    PROVE  /\ fetch' \in [E!Ids -> FetchStates]
           /\ \A i \in E!Ids : i # e => fetch'[i] = fetch[i]
  BY DEF E!StartFetch, FetchStates

\* One more act of the user, which may bring an event e back to the page.
LEMMA ActCounted ==
    ASSUME count \in Counts, NEW e,
           count' = [count EXCEPT !.acts = @ + 1, !.deleted = @ \ {e}]
    PROVE  /\ count' \in Counts /\ count'.acts = count.acts + 1 /\ count'.saves = count.saves
           /\ count'.forms = count.forms /\ count'.lost = count.lost /\ count'.deleted = count.deleted \ {e}
<1>1. PICK a \in Nat : a = count.acts + 1
  BY DEF Counts
<1>2. PICK s \in SUBSET E!Ids : s = count.deleted \ {e}
  BY DEF Counts
<1>3. count' = [count EXCEPT !.acts = a, !.deleted = s]
  BY <1>1, <1>2
<1> QED
  BY <1>1, <1>2, <1>3 DEF Counts

LEMMA ActOnly ==
    ASSUME count \in Counts, count' = [count EXCEPT !.acts = @ + 1]
    PROVE  /\ count' \in Counts /\ count'.acts = count.acts + 1 /\ count'.saves = count.saves
           /\ count'.forms = count.forms /\ count'.lost = count.lost /\ count'.deleted = count.deleted
<1>1. PICK a \in Nat : a = count.acts + 1
  BY DEF Counts
<1>2. count' = [count EXCEPT !.acts = a]
  BY <1>1
<1> QED
  BY <1>1, <1>2 DEF Counts

\* Opening an event, and going to its link.
LEMMA ShowKeeps ==
    ASSUME EditInv, NEW e \in E!Ids \cup {E!None}, (e \in E!Ids /\ E!openEvent(e)) \/ E!navigate(e)
    PROVE  EditInv'
<1>0. EditTypes /\ FormFits /\ GhostFree /\ count \in Counts /\ modal \in Modals /\ form \in Forms
      /\ fetch \in [E!Ids -> FetchStates] /\ linked \in [E!Ids -> 0..2] /\ events \in [E!Ids -> 0..2]
  BY DEF EditInv, EditTypes
<1>1. count' = [count EXCEPT !.acts = @ + 1, !.deleted = @ \ {e}] /\ count.acts < MaxActs /\ link' = e
      /\ UNCHANGED <<events, created, linked, busy, writes>>
  BY DEF E!openEvent, E!navigate
<1>2. count' \in Counts /\ count'.acts = count.acts + 1 /\ count'.saves = count.saves
      /\ count'.forms = count.forms /\ count'.lost = count.lost /\ count'.deleted = count.deleted \ {e}
  BY <1>0, <1>1, ActCounted
<1>3. /\ modal' \in Modals /\ form' \in Forms /\ form'.of \subseteq {modal'.id}
      /\ modal'.id \in {modal.id, e}
      /\ fetch' \in [E!Ids -> FetchStates] /\ \A i \in E!Ids : i # e => fetch'[i] = fetch[i]
  <2>1. CASE e \in E!Ids /\ E!openEvent(e)
    <3> DEFINE mm == E!Shown(e, events[e])
               ff == E!Seeded(mm, E!NoModal, form)
    <3>1. events[e] \in 0..2
      BY <1>0, <2>1
    <3>2. mm \in Modals /\ mm.id = e
      BY <2>1, <3>1 DEF E!Shown, Modals
    <3>3. ff = [row |-> events[e], of |-> {e}]
      BY DEF E!Seeded, E!NoModal, E!Shown
    <3>4. ff \in Forms /\ ff.of = {e}
      BY <2>1, <3>1, <3>3 DEF Forms, FormIds
    <3>5. CASE link = e
      BY <1>0, <2>1, <3>2, <3>4, <3>5 DEF E!openEvent
    <3>6. CASE link # e
      <4>1. E!ShowLinked(linked[e], e, mm, ff) /\ E!StartFetch(e)
        BY <2>1, <3>6 DEF E!openEvent
      <4>2. linked[e] \in 0..2 /\ ff.of \subseteq {mm.id}
        BY <1>0, <2>1, <3>2, <3>4
      <4> HIDE DEF mm, ff
      <4>3. modal' \in Modals /\ form' \in Forms /\ form'.of \subseteq {modal'.id} /\ modal'.id \in {mm.id, e}
        BY <2>1, <3>2, <3>4, <4>1, <4>2, ShowLinkedFits
      <4> QED
        BY <1>0, <2>1, <3>2, <4>1, <4>3, StartFetchFits
    <3> QED
      BY <3>5, <3>6
  <2>2. CASE E!navigate(e) /\ e = E!None
    BY <1>0, <2>2 DEF E!navigate, FormFits
  <2>3. CASE E!navigate(e) /\ e # E!None
    <3>1. e \in E!Ids /\ linked[e] \in 0..2 /\ form.of \subseteq {modal.id}
      BY <1>0, <2>3 DEF FormFits
    <3>2. E!ShowLinked(linked[e], e, modal, form) /\ E!StartFetch(e)
      BY <2>3 DEF E!navigate
    <3> QED
      BY <1>0, <3>1, <3>2, ShowLinkedFits, StartFetchFits
  <2> QED
    BY <2>1, <2>2, <2>3
<1>4. EditTypes'
  <2>1. count'.acts <= MaxActs /\ count'.saves <= MaxSaves /\ count'.forms <= count'.acts
    BY <1>0, <1>1, <1>2, EditFacts DEF EditTypes
  <2> QED
    BY <1>0, <1>1, <1>2, <1>3, <2>1 DEF EditTypes
<1>5. GhostFree'
  BY <1>0, <1>1, <1>2, <1>3, EditFacts DEF GhostFree
<1>6. e # E!New
  BY DEF E!Ids, E!None, E!New
<1>7. FormFits' /\ (modal'.id = E!New => modal.id = E!New)
  BY <1>3, <1>6 DEF FormFits
<1> QED
  BY <1>1, <1>2, <1>4, <1>5, <1>7, EditKept

\* The form for a new event.
LEMMA NewKeeps ==
    ASSUME EditInv, E!newEvent
    PROVE  EditInv'
<1>0. EditTypes /\ GhostFree /\ count \in Counts
  BY DEF EditInv, EditTypes
<1>1. count.acts < MaxActs /\ UNCHANGED <<events, created, linked, fetch, link, busy, writes>>
      /\ modal' = E!Shown(E!New, E!NoRow)
  BY DEF E!newEvent
<1>2. modal' \in Modals /\ modal'.id = E!New /\ modal'.row = 0
  BY <1>1 DEF E!Shown, E!NoRow, Modals
<1>3. form' = [row |-> 0, of |-> {E!New}]
  BY <1>2 DEF E!newEvent, E!Seeded
<1>4. form' \in Forms /\ form'.of = {E!New}
  BY <1>3 DEF Forms, FormIds
<1>5. PICK a \in Nat, f \in Nat : a = count.acts + 1 /\ f = count.forms + 1
  BY EditFacts
<1>6. count' = [count EXCEPT !.acts = a, !.forms = f]
  BY <1>5 DEF E!newEvent
<1>7. count' \in Counts /\ count'.acts = a /\ count'.saves = count.saves /\ count'.forms = f
      /\ count'.lost = count.lost /\ count'.deleted = count.deleted
  BY <1>0, <1>6 DEF Counts
<1>8. EditTypes'
  <2>1. count'.acts <= MaxActs /\ count'.saves <= MaxSaves /\ count'.forms <= count'.acts
    BY <1>0, <1>1, <1>5, <1>7, EditFacts DEF EditTypes
  <2> QED
    BY <1>0, <1>1, <1>2, <1>4, <1>7, <2>1 DEF EditTypes
<1>9. E!New \notin E!Ids
  BY DEF E!New, E!Ids
<1>10. GhostFree'
  BY <1>0, <1>1, <1>2, <1>7, <1>9, EditFacts DEF GhostFree
<1>11. FormFits'
  BY <1>2, <1>4 DEF FormFits
<1> QED
  BY <1>1, <1>5, <1>7, <1>8, <1>10, <1>11, EditKept

\* Typing, and the fetches of the page and the other device.
LEMMA FieldKeeps ==
    ASSUME EditInv, E!setField
    PROVE  EditInv'
<1>0. EditTypes /\ FormFits /\ GhostFree /\ form \in Forms /\ modal \in Modals /\ modal.id # E!None
  BY DEF EditInv, EditTypes, E!setField
<1>1. UNCHANGED <<events, created, linked, fetch, link, modal, busy, writes, count>>
  BY DEF E!setField
<1>2. PICK row \in 0..2 : form' = [row |-> row, of |-> form.of \cup {modal.id}]
  BY DEF E!setField
<1>3. form.of \cup {modal.id} \in SUBSET FormIds
  BY <1>0 DEF Forms, Modals, FormIds
<1>4. form' \in Forms /\ form'.of \subseteq {modal'.id}
  BY <1>0, <1>1, <1>2, <1>3 DEF Forms, FormFits
<1>5. EditTypes' /\ FormFits' /\ GhostFree'
  BY <1>0, <1>1, <1>4 DEF EditTypes, FormFits, GhostFree
<1> QED
  BY <1>1, <1>5, EditKept

LEMMA FetchKeeps ==
    ASSUME EditInv, NEW e \in E!Ids, E!FetchServed(e) \/ E!FetchLands(e)
    PROVE  EditInv'
<1>0. EditTypes /\ FormFits /\ GhostFree /\ modal \in Modals /\ form \in Forms /\ count \in Counts
      /\ fetch \in [E!Ids -> FetchStates] /\ linked \in [E!Ids -> 0..2] /\ events \in [E!Ids -> 0..2]
  BY DEF EditInv, EditTypes
<1>1. UNCHANGED <<events, created, link, busy, writes, count>>
  BY DEF E!FetchServed, E!FetchLands
<1>2. CASE E!FetchServed(e)
  <2>1. PICK x : fetch' = [fetch EXCEPT ![e] = x]
                 /\ x = IF events[e] = E!NoRow THEN E!Idle ELSE [st |-> "served", row |-> events[e]]
    BY <1>2 DEF E!FetchServed
  <2>2. events[e] \in 0..2
    BY <1>0
  <2>3. x \in FetchStates /\ (events[e] = 0 => x.st = "idle")
    <3>1. CASE events[e] = 0
      BY <2>1, <3>1 DEF E!NoRow, E!Idle, FetchStates
    <3>2. CASE events[e] # 0
      <4>1. x = [st |-> "served", row |-> events[e]]
        BY <2>1, <3>2 DEF E!NoRow
      <4>2. events[e] \in 1..2
        BY <2>2, <3>2
      <4>3. x \in Served
        BY <4>1, <4>2 DEF Served
      <4> QED
        BY <3>2, <4>3 DEF FetchStates
    <3> QED
      BY <3>1, <3>2
  <2>4. fetch' \in [E!Ids -> FetchStates] /\ fetch'[e] = x /\ \A i \in E!Ids : i # e => fetch'[i] = fetch[i]
    BY <1>0, <2>1, <2>3
  <2>5. UNCHANGED <<linked, modal, form>>
    BY <1>2 DEF E!FetchServed
  <2>6. EditTypes' /\ FormFits'
    BY <1>0, <1>1, <2>4, <2>5 DEF EditTypes, FormFits
  <2>7. GhostFree'
    BY <1>0, <1>1, <2>3, <2>4, <2>5, EditFacts DEF GhostFree
  <2> QED
    BY <1>1, <2>5, <2>6, <2>7, EditKept
<1>3. CASE E!FetchLands(e)
  <2>1. fetch[e] \in FetchStates /\ fetch[e].st = "served"
    BY <1>0, <1>3 DEF E!FetchLands
  <2>2. fetch[e].row \in 0..2
    <3>1. E!Idle.st # "served" /\ E!Asked.st # "served"
      BY DEF E!Idle, E!Asked
    <3>2. fetch[e] \in Served
      BY <2>1, <3>1 DEF FetchStates
    <3> QED
      BY <3>2 DEF Served
  <2>3. fetch' \in [E!Ids -> FetchStates] /\ fetch'[e].st = "idle" /\ \A i \in E!Ids : i # e => fetch'[i] = fetch[i]
    <3>1. E!Idle \in FetchStates /\ E!Idle.st = "idle"
      BY DEF E!Idle, FetchStates
    <3> QED
      BY <1>0, <1>3, <3>1 DEF E!FetchLands
  <2>4. linked' \in [E!Ids -> 0..2]
    BY <1>0, <1>3, <2>2 DEF E!FetchLands
  <2>5. /\ modal' \in Modals /\ form' \in Forms /\ form'.of \subseteq {modal'.id}
        /\ modal'.id = modal.id \/ (modal'.id = e /\ link = e)
    <3>1. CASE e = link /\ linked[e] # fetch[e].row
      <4>1. E!ShowLinked(fetch[e].row, e, modal, form) /\ form.of \subseteq {modal.id}
        BY <1>0, <1>3, <3>1 DEF E!FetchLands, FormFits
      <4> QED
        BY <1>0, <2>2, <3>1, <4>1, ShowLinkedFits
    <3>2. CASE ~(e = link /\ linked[e] # fetch[e].row)
      BY <1>0, <1>3, <3>2 DEF E!FetchLands, FormFits
    <3> QED
      BY <3>1, <3>2
  <2>6. EditTypes' /\ FormFits'
    BY <1>0, <1>1, <2>3, <2>4, <2>5 DEF EditTypes, FormFits
  <2>7. GhostFree'
    BY <1>0, <1>1, <2>1, <2>3, <2>5, EditFacts DEF GhostFree
  <2>8. e # E!New
    BY DEF E!Ids, E!New
  <2> QED
    BY <1>1, <2>5, <2>6, <2>7, <2>8, EditKept
<1> QED
  BY <1>2, <1>3

LEMMA OthersKeep ==
    ASSUME EditInv, E!Reconnect \/ E!OtherDevice
    PROVE  EditInv'
<1>0. EditTypes /\ FormFits /\ GhostFree /\ count \in Counts
      /\ fetch \in [E!Ids -> FetchStates] /\ events \in [E!Ids -> 0..2]
  BY DEF EditInv, EditTypes
<1>1. UNCHANGED <<created, linked, link, modal, form, busy, writes>> /\ count' = [count EXCEPT !.acts = @ + 1]
      /\ count.acts < MaxActs
  BY DEF E!Reconnect, E!OtherDevice
<1>2. count' \in Counts /\ count'.acts = count.acts + 1 /\ count'.saves = count.saves
      /\ count'.forms = count.forms /\ count'.lost = count.lost /\ count'.deleted = count.deleted
  BY <1>0, <1>1, ActOnly
<1>3. count'.acts <= MaxActs /\ count'.saves <= MaxSaves /\ count'.forms <= count'.acts
  BY <1>0, <1>1, <1>2, EditFacts DEF EditTypes
<1>4. /\ fetch' \in [E!Ids -> FetchStates] /\ \A i \in E!Ids : fetch[i].st # "served" => fetch'[i].st # "served"
      /\ events' \in [E!Ids -> 0..2] /\ \A i \in E!Ids : events[i] = 0 => events'[i] = 0
  <2>1. CASE E!Reconnect
    <3>1. link \in E!Ids
      BY <1>0, <2>1 DEF EditTypes, E!Reconnect
    <3>2. E!Asked \in FetchStates /\ E!Asked.st # "served"
      BY DEF E!Asked, FetchStates
    <3> QED
      BY <1>0, <2>1, <3>1, <3>2 DEF E!Reconnect
  <2>2. CASE E!OtherDevice
    BY <1>0, <2>2 DEF E!OtherDevice, E!NoRow
  <2> QED
    BY <2>1, <2>2
<1>5. EditTypes' /\ FormFits'
  BY <1>0, <1>1, <1>2, <1>3, <1>4 DEF EditTypes, FormFits
<1>6. \A w \in writes : w.kind = "delete" => w.id \in E!Ids
  BY DEF EditInv, EditTypes, WritesFit, Writes, FormIds
<1>7. GhostFree'
  BY <1>0, <1>1, <1>2, <1>4, <1>6, EditFacts DEF GhostFree
<1> QED
  BY <1>1, <1>2, <1>5, <1>7, EditKept

\* Closing the form: its requests go on unheard.
LEMMA CloseKeeps ==
    ASSUME EditInv, E!onClose
    PROVE  EditInv'
<1>0. EditTypes /\ WritesFit /\ GhostFree /\ CountsFit /\ writes \subseteq Writes
  BY DEF EditInv, EditTypes
<1>1. UNCHANGED <<events, created, linked, fetch, link, count>> /\ busy' = FALSE
      /\ modal' = E!NoModal /\ form' = E!NoForm /\ writes' = {[w EXCEPT !.heard = FALSE] : w \in writes}
  BY DEF E!onClose
<1>2. modal' \in Modals /\ modal'.id = E!None /\ form' \in Forms /\ form'.of = {}
  BY <1>1 DEF E!NoModal, E!NoForm, E!Shown, E!NoRow, Modals, Forms
<1>3. \A w \in writes : LET v == [w EXCEPT !.heard = FALSE]
                        IN  /\ v \in Writes /\ v.n = w.n /\ v.kind = w.kind /\ v.id = w.id /\ v.of = w.of
                            /\ v.st = w.st /\ v.heard = FALSE
  BY <1>0 DEF Writes
<1>4. ASSUME NEW v \in writes' PROVE \E w \in writes : v = [w EXCEPT !.heard = FALSE] /\ v.n = w.n
  <2>1. PICK w \in writes : v = [w EXCEPT !.heard = FALSE]
    BY <1>1
  <2> QED
    BY <1>3, <2>1
<1>13. ASSUME NEW v \in writes'
       PROVE  /\ v \in Writes /\ v.heard = FALSE
              /\ \E w \in writes : v.n = w.n /\ v.kind = w.kind /\ v.id = w.id /\ v.of = w.of /\ v.st = w.st
  <2>1. PICK w \in writes : v = [w EXCEPT !.heard = FALSE]
    BY <1>1
  <2> QED
    BY <1>3, <2>1
<1>5. ASSUME NEW w \in writes PROVE \E v \in writes' : v.n = w.n /\ v.kind = w.kind /\ v.st = w.st
  <2>1. PICK v : v = [w EXCEPT !.heard = FALSE]
    OBVIOUS
  <2>2. v \in writes'
    BY <1>1, <2>1
  <2>3. v.n = w.n /\ v.kind = w.kind /\ v.st = w.st
    BY <1>3, <2>1
  <2> QED
    BY <2>2, <2>3
<1>6. EditTypes' /\ FormFits'
  BY <1>0, <1>1, <1>2, <1>13 DEF EditTypes, FormFits
<1>7. WritesFit'
  <2>1. ASSUME NEW v \in writes'
        PROVE  v.n \in 1..count.saves /\ v.of \subseteq {v.id} /\ (v.kind = "create" <=> v.id = E!New)
    <3>1. PICK w \in writes : v.n = w.n /\ v.kind = w.kind /\ v.id = w.id /\ v.of = w.of
      BY <1>13
    <3>2. w.n \in 1..count.saves /\ w.of \subseteq {w.id} /\ (w.kind = "create" <=> w.id = E!New)
      BY <1>0 DEF WritesFit
    <3> QED
      BY <3>1, <3>2
  <2>2. \A u, v \in writes' : u.n = v.n => u = v
    <3>1. TAKE u, v \in writes'
    <3>2. HAVE u.n = v.n
    <3>3. PICK p \in writes : u = [p EXCEPT !.heard = FALSE] /\ u.n = p.n
      BY <1>4
    <3>4. PICK q \in writes : v = [q EXCEPT !.heard = FALSE] /\ v.n = q.n
      BY <1>4
    <3>5. p = q
      BY <1>0, <3>2, <3>3, <3>4 DEF WritesFit
    <3> QED
      BY <3>3, <3>4, <3>5
  <2> QED
    BY <1>1, <1>13, <2>1, <2>2 DEF WritesFit
<1>8. E!None \notin E!Ids
  BY DEF E!None, E!Ids
<1>9. GhostFree'
  <2>1. \A v \in writes' : v.kind = "delete" /\ v.st = "ok" => events[v.id] = 0
    BY <1>0, <1>13 DEF GhostFree
  <2> QED
    BY <1>0, <1>1, <1>2, <1>8, <2>1, EditFacts DEF GhostFree
<1>10. Sent' = Sent /\ Adding' = Adding
  <2>5. ASSUME NEW v \in writes' PROVE \E w \in writes : v.n = w.n /\ v.kind = w.kind /\ v.st = w.st
    BY <1>13
  <2>1. \A k : (\E v \in writes' : v.n = k /\ v.st = "sent") <=> (\E w \in writes : w.n = k /\ w.st = "sent")
    BY <1>5, <2>5
  <2>2. \A k : (\E v \in writes' : v.n = k /\ v.st = "sent" /\ v.kind = "create")
                <=> (\E w \in writes : w.n = k /\ w.st = "sent" /\ w.kind = "create")
    BY <1>5, <2>5
  <2>0. count' = count
    BY <1>1
  <2>3. Sent' = Sent
    BY <2>0, <2>1 DEF Sent
  <2>4. Adding' = Adding
    BY <2>0, <2>2 DEF Adding
  <2> QED
    BY <2>3, <2>4
<1>11. Slot' = 0
  BY <1>2 DEF Slot, E!None, E!New
<1>12. CountsFit'
  BY <1>0, <1>1, <1>10, <1>11, EditFacts DEF CountsFit
<1> QED
  BY <1>6, <1>7, <1>9, <1>12 DEF EditInv

\* Sending: the form was not busy, so nobody else is heard.
LEMMA SendKeeps ==
    ASSUME EditInv, NEW kind \in {"create", "update", "delete"}, E!Send(kind), modal.id # E!None, ~busy,
           kind = "create" <=> modal.id = E!New
    PROVE  EditInv'
<1>0. EditTypes /\ FormFits /\ WritesFit /\ GhostFree /\ CountsFit /\ writes \subseteq Writes /\ count \in Counts
      /\ modal \in Modals /\ form \in Forms
  BY DEF EditInv, EditTypes
<1>1. count.saves < MaxSaves /\ count.acts < MaxActs /\ busy' = TRUE
      /\ UNCHANGED <<events, created, linked, fetch, link, modal, form>>
  BY DEF E!Send
<1>2. PICK a \in Nat, k \in Nat : a = count.acts + 1 /\ k = count.saves + 1
  BY EditFacts
<1>3. count' = [count EXCEPT !.acts = a, !.saves = k]
  BY <1>2 DEF E!Send
<1>4. count' \in Counts /\ count'.acts = a /\ count'.saves = k /\ count'.forms = count.forms
      /\ count'.lost = count.lost /\ count'.deleted = count.deleted
  BY <1>0, <1>3 DEF Counts
<1>5. PICK x : x = [n |-> k, kind |-> kind, id |-> modal.id, row |-> form.row, of |-> form.of,
                    heard |-> TRUE, st |-> "sent"]
  OBVIOUS
<1>6. modal.id \in FormIds /\ form.row \in 0..2 /\ form.of \in SUBSET FormIds
  BY <1>0 DEF Modals, Forms, FormIds
<1>7. x \in Writes /\ x.n = k /\ x.kind = kind /\ x.id = modal.id /\ x.of = form.of /\ x.heard = TRUE /\ x.st = "sent"
  BY <1>2, <1>5, <1>6 DEF Writes
<1>8. writes' = writes \cup {x}
  BY <1>2, <1>5 DEF E!Send
<1>9. \A w \in writes : w.n \in 1..count.saves /\ w.n # k /\ w.heard = FALSE
  BY <1>0, <1>2, EditFacts DEF WritesFit, Writes
<1>10. EditTypes' /\ FormFits'
  <2>1. count'.acts <= MaxActs /\ count'.saves <= MaxSaves /\ count'.forms <= count'.acts
    BY <1>0, <1>1, <1>2, <1>4, EditFacts DEF EditTypes
  <2> QED
    BY <1>0, <1>1, <1>4, <1>7, <1>8, <2>1 DEF EditTypes, FormFits
<1>11. WritesFit'
  <2>1. \A w \in writes' : w.n \in 1..k /\ w.of \subseteq {w.id} /\ (w.kind = "create" <=> w.id = E!New)
    BY <1>0, <1>2, <1>7, <1>8, <1>9, EditFacts DEF WritesFit, FormFits
  <2>2. \A w, v \in writes' : w.n = v.n => w = v
    BY <1>0, <1>7, <1>8, <1>9 DEF WritesFit
  <2>3. \A w, v \in writes' : w.heard /\ v.heard => w = v
    BY <1>7, <1>8, <1>9
  <2> QED
    BY <1>1, <1>4, <1>7, <1>8, <2>1, <2>2, <2>3 DEF WritesFit
<1>12. GhostFree'
  BY <1>0, <1>1, <1>4, <1>7, <1>8 DEF GhostFree
<1>13. k \notin Sent /\ k \notin Adding
  BY <1>2, EditFacts DEF Sent, Adding
<1>14. Sent' = Sent \cup {k}
  BY <1>2, <1>4, <1>7, <1>8, <1>9, EditFacts DEF Sent
<1>15. Adding' = IF kind = "create" THEN Adding \cup {k} ELSE Adding
  BY <1>2, <1>4, <1>7, <1>8, <1>9, EditFacts DEF Adding
<1>16. Cardinality(Sent') = Cardinality(Sent) + 1
  BY <1>13, <1>14, EditFacts, FS_AddElement
<1>17. Cardinality(Adding') = Cardinality(Adding) + (IF kind = "create" THEN 1 ELSE 0)
  <2>1. CASE kind = "create"
    BY <1>13, <1>15, <2>1, EditFacts, FS_AddElement
  <2>2. CASE kind # "create"
    BY <1>15, <2>2, EditFacts
  <2> QED
    BY <2>1, <2>2
<1>18. Slot = (IF kind = "create" THEN 1 ELSE 0) /\ Slot' = 0
  <2>1. ~CreateHeard
    BY <1>9 DEF CreateHeard
  <2>2. kind = "create" => CreateHeard'
    BY <1>7, <1>8 DEF CreateHeard
  <2> QED
    BY <1>1, <2>1, <2>2 DEF Slot
<1>19. CountsFit'
  BY <1>0, <1>1, <1>2, <1>4, <1>16, <1>17, <1>18, EditFacts DEF CountsFit
<1> QED
  BY <1>10, <1>11, <1>12, <1>19 DEF EditInv

\* The server takes a request, or never sees it.
LEMMA TakenKeeps ==
    ASSUME EditInv, NEW w \in writes, E!ServerTakes(w)
    PROVE  EditInv'
<1>0. EditTypes /\ FormFits /\ WritesFit /\ GhostFree /\ CountsFit /\ writes \subseteq Writes /\ count \in Counts
      /\ w \in Writes /\ w.st = "sent" /\ w.n \in 1..count.saves /\ events \in [E!Ids -> 0..2] /\ created \in Nat
  BY DEF EditInv, EditTypes, WritesFit, E!ServerTakes
<1>1. UNCHANGED <<linked, fetch, link, modal, form, busy>>
  BY DEF E!ServerTakes
<1>2. PICK s \in {"ok", "failed"} :
        /\ writes' = (writes \ {w}) \cup {[w EXCEPT !.st = s]}
        /\ \/ s = "failed" /\ UNCHANGED <<events, created, count>>
           \/ /\ w.id # E!New => events[w.id] # 0
              /\ CASE w.kind = "create" -> created' = created + 1 /\ UNCHANGED events
                   [] w.kind = "update" -> events' = [events EXCEPT ![w.id] = w.row] /\ UNCHANGED created
                   [] w.kind = "delete" -> events' = [events EXCEPT ![w.id] = 0] /\ UNCHANGED created
              /\ \/ s = "ok" /\ UNCHANGED count
                 \/ s = "failed" /\ count' = [count EXCEPT !.lost = @ + 1]
  BY DEF E!ServerTakes, E!NoRow
<1>3. PICK x : x = [w EXCEPT !.st = s]
  OBVIOUS
<1>4. x \in Writes /\ x.n = w.n /\ x.kind = w.kind /\ x.id = w.id /\ x.of = w.of /\ x.heard = w.heard /\ x.st = s
  BY <1>0, <1>2, <1>3 DEF Writes
<1>5. writes' = (writes \ {w}) \cup {x}
  BY <1>2, <1>3
<1>6. \A v \in writes : v.n = w.n => v = w
  BY <1>0 DEF WritesFit
<1>7. w.kind # "create" => w.id \in E!Ids
  BY <1>0 DEF WritesFit, Writes, FormIds
\* What the server holds, and whether an answer is lost.
<1>8. /\ events' \in [E!Ids -> 0..2] /\ \A e \in E!Ids : events[e] = 0 => events'[e] = 0
      /\ w.kind = "delete" /\ s = "ok" => events'[w.id] = 0
  <2>1. CASE UNCHANGED events /\ (s = "failed" \/ w.kind = "create")
    BY <1>0, <2>1
  <2>2. CASE w.kind = "update" /\ events[w.id] # 0 /\ events' = [events EXCEPT ![w.id] = w.row]
    <3>1. w.row \in 0..2 /\ w.id \in E!Ids
      BY <1>0, <1>7, <2>2 DEF Writes
    <3> QED
      BY <1>0, <2>2, <3>1
  <2>3. CASE w.kind = "delete" /\ events' = [events EXCEPT ![w.id] = 0]
    BY <1>0, <1>7, <2>3
  <2>4. w.kind \in {"create", "update", "delete"} /\ (w.kind # "create" <=> w.id # E!New)
    BY <1>0 DEF Writes, WritesFit
  <2> QED
    BY <1>2, <2>1, <2>2, <2>3, <2>4
<1>9. /\ created' \in Nat /\ created' <= created + (IF w.kind = "create" THEN 1 ELSE 0)
      /\ count' \in Counts /\ count'.acts = count.acts /\ count'.saves = count.saves /\ count'.forms = count.forms
      /\ count'.deleted = count.deleted /\ count'.lost \in {count.lost, count.lost + 1}
      /\ s = "failed" /\ created' # created => count'.lost = count.lost + 1
  <2>1. count' = count \/ (s = "failed" /\ count' = [count EXCEPT !.lost = @ + 1])
    BY <1>2
  <2>2. count' = [count EXCEPT !.lost = @ + 1] => count' \in Counts /\ count'.acts = count.acts
            /\ count'.saves = count.saves /\ count'.forms = count.forms
            /\ count'.deleted = count.deleted /\ count'.lost = count.lost + 1
    <3>1. PICK l \in Nat : l = count.lost + 1
      BY EditFacts
    <3>2. count' = [count EXCEPT !.lost = @ + 1] => count' = [count EXCEPT !.lost = l]
      BY <3>1
    <3> QED
      BY <1>0, <3>1, <3>2 DEF Counts
  <2>3. created' = created \/ (w.kind = "create" /\ created' = created + 1)
    <3>1. w.kind \in {"create", "update", "delete"}
      BY <1>0 DEF Writes
    <3> QED
      BY <1>2, <3>1
  <2>4. s = "failed" /\ created' # created => count' = [count EXCEPT !.lost = @ + 1]
    BY <1>2
  <2>5. created' \in Nat /\ created' <= created + (IF w.kind = "create" THEN 1 ELSE 0)
    BY <1>0, <2>3
  <2> QED
    BY <1>0, <2>1, <2>2, <2>4, <2>5
<1>10. EditTypes' /\ FormFits'
  BY <1>0, <1>1, <1>4, <1>5, <1>8, <1>9 DEF EditTypes, FormFits
<1>11. WritesFit'
  <2>1. \A v \in writes' : v.n \in 1..count.saves /\ v.of \subseteq {v.id} /\ (v.kind = "create" <=> v.id = E!New)
    BY <1>0, <1>4, <1>5 DEF WritesFit
  <2>2. \A u, v \in writes' : u.n = v.n => u = v
    BY <1>0, <1>4, <1>5, <1>6 DEF WritesFit
  <2>3. \A u, v \in writes' : u.heard /\ v.heard => u = v
    BY <1>0, <1>4, <1>5 DEF WritesFit
  <2>4. (\E v \in writes' : v.heard) <=> (\E v \in writes : v.heard)
    BY <1>4, <1>5
  <2> QED
    BY <1>0, <1>1, <1>9, <2>1, <2>2, <2>3, <2>4 DEF WritesFit
<1>12. GhostFree'
  <2>1. \A v \in writes : v.kind = "delete" => v.id \in E!Ids
    BY <1>0 DEF WritesFit, Writes, FormIds
  <2>2. \A v \in writes' : v.kind = "delete" /\ v.st = "ok" => events'[v.id] = 0
    BY <1>0, <1>4, <1>5, <1>8, <2>1 DEF GhostFree
  <2> QED
    BY <1>0, <1>1, <1>8, <1>9, <2>2, EditFacts DEF GhostFree
<1>13. w.n \in Sent /\ (w.kind = "create" => w.n \in Adding)
  BY <1>0 DEF Sent, Adding
<1>14. Sent' = Sent \ {w.n}
  BY <1>0, <1>2, <1>4, <1>5, <1>6, <1>9 DEF Sent
<1>15. Adding' = IF w.kind = "create" THEN Adding \ {w.n} ELSE Adding
  BY <1>0, <1>2, <1>4, <1>5, <1>6, <1>9 DEF Adding
<1>16. Cardinality(Sent') = Cardinality(Sent) - 1
  BY <1>13, <1>14, EditFacts, FS_RemoveElement
<1>17. Cardinality(Adding') = Cardinality(Adding) - (IF w.kind = "create" THEN 1 ELSE 0)
  <2>1. CASE w.kind = "create"
    BY <1>13, <1>15, <2>1, EditFacts, FS_RemoveElement
  <2>2. CASE w.kind # "create"
    BY <1>15, <2>2, EditFacts
  <2> QED
    BY <2>1, <2>2
<1>18. Slot' <= Slot + (IF w.kind = "create" /\ s = "failed" THEN 1 ELSE 0) /\ Slot' \in {0, 1}
  <2>1. CreateHeard /\ ~(w.kind = "create" /\ s = "failed") => CreateHeard'
    BY <1>0, <1>4, <1>5 DEF CreateHeard
  <2> QED
    BY <1>1, <2>1 DEF Slot
<1>19. CountsFit'
  <2>1. count'.saves = count.saves /\ count'.forms = count.forms /\ count'.lost \in {count.lost, count.lost + 1}
        /\ (s = "failed" /\ created' # created => count'.lost = count.lost + 1)
        /\ created' \in Nat /\ created' <= created + (IF w.kind = "create" THEN 1 ELSE 0)
    BY <1>9
  <2>2. Cardinality(Sent') \in Int /\ Cardinality(Adding') \in Int
    BY <1>16, <1>17, EditFacts
  <2>3. created' + Cardinality(Sent') <= count'.saves /\ count'.lost + Cardinality(Sent') <= count'.saves
    BY <1>0, <1>16, <2>1, <2>2, EditFacts DEF CountsFit
  <2>4. created' + Cardinality(Adding') + Slot' <= count'.forms + count'.lost
    <3>1. CASE w.kind = "create" /\ s = "failed"
      BY <1>0, <1>17, <1>18, <2>1, <2>2, <3>1, EditFacts DEF CountsFit
    <3>2. CASE ~(w.kind = "create" /\ s = "failed")
      BY <1>0, <1>17, <1>18, <2>1, <2>2, <3>2, EditFacts DEF CountsFit
    <3> QED
      BY <3>1, <3>2
  <2> QED
    BY <2>3, <2>4 DEF CountsFit
<1> QED
  BY <1>10, <1>11, <1>12, <1>19 DEF EditInv

\* An answer reaches the page.
LEMMA AnsweredKeeps ==
    ASSUME EditInv, NEW w \in writes, E!Answered(w)
    PROVE  EditInv'
<1>0. EditTypes /\ FormFits /\ WritesFit /\ GhostFree /\ CountsFit /\ writes \subseteq Writes /\ count \in Counts
      /\ w \in Writes /\ w.st # "sent" /\ modal \in Modals /\ form \in Forms /\ fetch \in [E!Ids -> FetchStates]
  BY DEF EditInv, EditTypes, E!Answered
<1>1. UNCHANGED <<events, created, linked, link>> /\ writes' = writes \ {w}
      /\ busy' = (IF w.heard THEN FALSE ELSE busy)
  BY DEF E!Answered
<1>2. modal' \in Modals /\ form' \in Forms /\ form'.of \subseteq {modal'.id}
      /\ modal'.id = IF w.heard /\ w.st = "ok" THEN E!None ELSE modal.id
  <2>1. E!NoModal \in Modals /\ E!NoModal.id = E!None /\ E!NoForm \in Forms /\ E!NoForm.of = {}
    BY DEF E!NoModal, E!NoForm, E!Shown, E!NoRow, Modals, Forms
  <2> QED
    BY <1>0, <2>1 DEF E!Answered, FormFits
<1>3. /\ fetch' \in [E!Ids -> FetchStates]
      /\ \A e \in E!Ids : fetch[e].st # "served" => fetch'[e].st # "served"
      /\ w.st = "ok" /\ link \in E!Ids => fetch'[link].st # "served"
  <2>1. E!Asked \in FetchStates /\ E!Asked.st # "served"
    BY DEF E!Asked, FetchStates
  <2>2. link \in E!Ids \cup {E!None} /\ E!None \notin E!Ids
    BY <1>0 DEF EditTypes, E!None, E!Ids
  <2> QED
    BY <1>0, <2>1, <2>2 DEF E!Answered, E!Invalidated
<1>4. /\ count' \in Counts /\ count'.acts = count.acts /\ count'.saves = count.saves /\ count'.forms = count.forms
      /\ count'.lost = count.lost
      /\ count'.deleted = IF w.st = "ok" /\ w.kind = "delete" /\ modal'.id # w.id
                          THEN count.deleted \cup {w.id} ELSE count.deleted
  <2>1. CASE w.st = "ok" /\ w.kind = "delete" /\ modal'.id # w.id
    <3>1. w.id \in E!Ids
      BY <1>0, <2>1 DEF WritesFit, Writes, FormIds
    <3>2. PICK d \in SUBSET E!Ids : d = count.deleted \cup {w.id}
      BY <3>1, EditFacts
    <3>3. count' = [count EXCEPT !.deleted = d]
      BY <2>1, <3>2 DEF E!Answered
    <3> QED
      BY <1>0, <2>1, <3>2, <3>3 DEF Counts
  <2>2. CASE ~(w.st = "ok" /\ w.kind = "delete" /\ modal'.id # w.id)
    BY <1>0, <2>2 DEF E!Answered
  <2> QED
    BY <2>1, <2>2
<1>5. EditTypes' /\ FormFits'
  BY <1>0, <1>1, <1>2, <1>3, <1>4 DEF EditTypes, FormFits
<1>6. WritesFit'
  <2>1. busy' <=> \E v \in writes' : v.heard
    BY <1>0, <1>1 DEF WritesFit
  <2> QED
    BY <1>0, <1>1, <1>4, <2>1 DEF WritesFit
<1>7. GhostFree'
  <2>1. E!None \notin E!Ids
    BY DEF E!None, E!Ids
  <2>2. w.st = "ok" /\ w.kind = "delete" => events[w.id] = 0 /\ w.id \in E!Ids
    BY <1>0 DEF GhostFree, WritesFit, Writes, FormIds
  <2>3. modal'.id \notin count'.deleted
    BY <1>0, <1>2, <1>4, <2>1, EditFacts DEF GhostFree
  <2>4. \A e \in count'.deleted : e \in E!Ids /\ events[e] = 0 /\ (link = e => fetch'[e].st # "served")
    BY <1>0, <1>3, <1>4, <2>2, EditFacts DEF GhostFree
  <2> QED
    BY <1>0, <1>1, <2>3, <2>4 DEF GhostFree
<1>8. Sent' = Sent /\ Adding' = Adding
  BY <1>0, <1>1, <1>4 DEF Sent, Adding
<1>9. Slot' <= Slot
  <2>1. modal'.id = E!New => modal.id = E!New /\ ~(w.heard /\ w.st = "ok")
    BY <1>2 DEF E!None, E!New
  <2>2. CreateHeard /\ ~(w.heard /\ w.st = "ok") => CreateHeard'
    BY <1>0, <1>1 DEF CreateHeard, Writes
  <2> QED
    BY <2>1, <2>2 DEF Slot
<1>10. Slot' \in {0, 1}
  BY DEF Slot
<1>11. CountsFit'
  BY <1>0, <1>1, <1>4, <1>8, <1>9, <1>10, EditFacts DEF CountsFit
<1> QED
  BY <1>5, <1>6, <1>7, <1>11 DEF EditInv

LEMMA EditNextKeeps ==
    ASSUME EditInv, E!EditNext
    PROVE  EditInv'
<1>1. CASE E!handleSave
  <2>1. modal.id # E!None /\ ~busy /\ E!Send(IF modal.id = E!New THEN "create" ELSE "update")
    BY <1>1 DEF E!handleSave, E!SaveOffered
  <2> QED
    BY <2>1, SendKeeps
<1>2. CASE E!handleDelete
  <2>1. modal.id # E!None /\ modal.id # E!New /\ ~busy /\ E!Send("delete")
    BY <1>2 DEF E!handleDelete, E!DeleteOffered, E!Ids, E!None, E!New
  <2> QED
    BY <2>1, SendKeeps
<1> QED
  BY <1>1, <1>2, ShowKeeps, NewKeeps, FieldKeeps, FetchKeeps, OthersKeep, CloseKeeps, TakenKeeps, AnsweredKeeps
  DEF E!EditNext

-----------------------------------------------------------------------------
(* The settings.                                                           *)

CardIds == C!Members \cup {C!Fresh}
MemberRows == [C!Members -> 0..2]
CardForms == [open : BOOLEAN, editingId : CardIds, row : 0..2, of : SUBSET CardIds]
CardStates == [member : CardForms, optimistic : SUBSET BOOLEAN, topic : 0..1, prefs : BOOLEAN,
               ical : BOOLEAN, showForm : BOOLEAN, busy : BOOLEAN]
SrvStates == [members : MemberRows, added : Nat, kiosk : BOOLEAN, topic : 0..1, prefs : BOOLEAN, calendars : Nat]
MemberLists == [members : MemberRows, prefs : BOOLEAN]
ListStates == [members : MemberRows, prefs : BOOLEAN, fetch : C!Fetches(MemberLists)]
HhStates == [kiosk : BOOLEAN, fetch : C!Fetches(BOOLEAN)]
ClickCounts == [n : Nat, adds : Nat, icals : Nat, lost : Nat, elsewhere : 0..1, left : 0..1,
                at : SUBSET {"family", "kiosk", "notify", "calendars"}]
MemberBodies == [id : CardIds, row : 0..2, of : SUBSET CardIds]
DeleteBodies == [id : C!Members]
KioskBodies == [kiosk : BOOLEAN]
NotifyBodies == [topic : 0..1, prefs : BOOLEAN]
Bodies == MemberBodies \cup DeleteBodies \cup KioskBodies \cup NotifyBodies \cup {C!NoBody}
SaveKinds == {"create", "update", "delete", "settings", "notify", "ical", "billing"}
Saves == [kind : SaveKinds, body : Bodies, n : Nat, heard : {"card", "page", "none"}, st : {"sent", "ok", "failed"}]

\* A request carries what its kind needs, of the form that sent it.
BodyFits(kind, body) ==
    /\ kind \in {"create", "update"} => body \in MemberBodies /\ body.of \subseteq {body.id}
    /\ kind = "update" => body.id \in C!Members
    /\ kind = "delete" => body \in DeleteBodies
    /\ kind = "settings" => body \in KioskBodies
    /\ kind = "notify" => body \in NotifyBodies

CardTypes ==
    /\ srv \in SrvStates /\ list \in ListStates /\ hh \in HhStates /\ cards \in CardStates /\ clicks \in ClickCounts
    /\ clicks.n <= MaxClicks /\ clicks.adds <= clicks.n /\ clicks.icals <= clicks.n

\* Requests are numbered by the clicks that sent them.
SavesFit ==
    /\ saves \subseteq Saves
    /\ \A w \in saves : w.n < clicks.n /\ BodyFits(w.kind, w.body)
    /\ \A w, v \in saves : w.n = v.n => w = v

\* The open form holds what was entered for its own member.
FormOwn == cards.member.open => cards.member.of \subseteq {cards.member.editingId}

\* What adds a row: a member, or a calendar.  How many were added, how often its form was
\* filled, the requests the server has not seen, and the form that may still send.
Adders == {"create", "ical"}
Made(k) == IF k = "create" THEN srv.added ELSE srv.calendars
Filled(k) == IF k = "create" THEN clicks.adds ELSE clicks.icals
CardSent == {j \in Nat : \E w \in saves : w.n = j /\ w.st = "sent"}
KindSent(k) == {j \in Nat : \E w \in saves : w.n = j /\ w.st = "sent" /\ w.kind = k}
FormReady(k) == IF k = "create" THEN cards.member.open /\ cards.member.editingId = C!Fresh ELSE cards.ical
KindHeard(k) == \E w \in saves : w.kind = k /\ w.heard = "card" /\ w.st # "failed"
KindSlot(k) == IF FormReady(k) /\ ~KindHeard(k) THEN 1 ELSE 0

AddsFit ==
    /\ clicks.lost + Cardinality(CardSent) <= clicks.n
    /\ \A k \in Adders : /\ Made(k) + Cardinality(CardSent) <= clicks.n
                         /\ Made(k) + Cardinality(KindSent(k)) + KindSlot(k) <= Filled(k) + clicks.lost

\* The toggle while nothing was lost, left behind or written elsewhere: the page hears
\* every request, of which one at most is the toggle's; what the page has or will have
\* fetched is what the server holds, and so is the optimistic value once it was saved.
Undisturbed == clicks.lost = 0 /\ clicks.elsewhere = 0 /\ clicks.left = 0
Toggles == {w \in saves : w.kind = "settings"}
ToggleFits ==
    Undisturbed =>
        /\ \A w \in saves : w.heard = "card"
        /\ \A w, v \in Toggles : w = v
        /\ (\A w \in Toggles : w.st # "ok") =>
              (hh.fetch.st = "idle" => hh.kiosk = srv.kiosk) /\ (hh.fetch.st = "served" => hh.fetch.got = srv.kiosk)
        /\ Toggles = {} /\ cards.optimistic # {} => cards.optimistic = {srv.kiosk}
        /\ \A w \in Toggles : /\ w.st = "sent" => cards.optimistic = {w.body.kiosk}
                              /\ w.st = "ok" => cards.optimistic = {srv.kiosk}

BillingFits == cards.busy => \E w \in saves : w.kind = "billing" /\ w.heard = "card"

\* The inductive invariant of the settings.
CardsInv == CardTypes /\ SavesFit /\ FormOwn /\ AddsFit /\ ToggleFits /\ BillingFits

LEMMA CardFacts ==
    ASSUME CardsInv
    PROVE  /\ clicks.n \in Nat /\ clicks.adds \in Nat /\ clicks.icals \in Nat /\ clicks.lost \in Nat
           /\ srv.added \in Nat /\ srv.calendars \in Nat /\ MaxClicks \in Nat
           /\ IsFiniteSet(CardSent) /\ Cardinality(CardSent) \in Nat
           /\ \A k \in Adders : /\ IsFiniteSet(KindSent(k)) /\ Cardinality(KindSent(k)) \in Nat
                                /\ Made(k) \in Nat /\ Filled(k) \in Nat /\ KindSlot(k) \in {0, 1}
<1>0. srv \in SrvStates /\ clicks \in ClickCounts
  BY DEF CardsInv, CardTypes
<1>1. clicks.n \in Nat /\ clicks.adds \in Nat /\ clicks.icals \in Nat /\ clicks.lost \in Nat
  BY <1>0 DEF ClickCounts
<1>2. srv.added \in Nat /\ srv.calendars \in Nat /\ MaxClicks \in Nat
  BY <1>0, BoundsAssumption DEF SrvStates
<1>7. \A w \in saves : w.n \in Nat => w.n \in 0..clicks.n
  BY <1>1 DEF CardsInv, SavesFit
<1>3. IsFiniteSet(0..clicks.n)
  <2>1. PICK m \in Int : m = clicks.n
    BY <1>1
  <2>2. IsFiniteSet(0..m)
    BY FS_Interval
  <2> QED
    BY <2>1, <2>2
<1>4. IsFiniteSet(CardSent) /\ Cardinality(CardSent) \in Nat
  <2>1. CardSent \subseteq 0..clicks.n
    BY <1>7 DEF CardSent
  <2> QED
    BY <1>3, <2>1, FS_Subset, FS_CardinalityType
<1>5. ASSUME NEW k \in Adders
      PROVE  IsFiniteSet(KindSent(k)) /\ Cardinality(KindSent(k)) \in Nat
  <2>1. KindSent(k) \subseteq 0..clicks.n
    BY <1>7 DEF KindSent
  <2> QED
    BY <1>3, <2>1, FS_Subset, FS_CardinalityType
<1>6. \A k \in Adders : Made(k) \in Nat /\ Filled(k) \in Nat /\ KindSlot(k) \in {0, 1}
  BY <1>1, <1>2 DEF Made, Filled, KindSlot
<1> QED
  BY <1>1, <1>2, <1>4, <1>5, <1>6

\* It implies the component's types and its safety.
LEMMA CardsImply == CardsInv => C!CardsTypeOK /\ C!CardsHonest
<1> SUFFICES ASSUME CardsInv PROVE C!CardsTypeOK /\ C!CardsHonest
  OBVIOUS
<1>0. CardTypes /\ SavesFit /\ AddsFit /\ ToggleFits /\ BillingFits
      /\ srv \in SrvStates /\ list \in ListStates /\ hh \in HhStates /\ cards \in CardStates /\ clicks \in ClickCounts
  BY DEF CardsInv, CardTypes
<1>1. "create" \in Adders /\ "ical" \in Adders
  BY DEF Adders
<1>2. srv.added <= clicks.n /\ srv.calendars <= clicks.n /\ clicks.lost <= clicks.n /\ clicks.n <= MaxClicks
      /\ clicks.adds <= clicks.n /\ clicks.icals <= clicks.n
  BY <1>0, <1>1, CardFacts DEF AddsFit, Made, CardTypes
<1>3. srv \in [members : [C!Members -> 0..2], added : 0..MaxClicks, kiosk : BOOLEAN,
               topic : 0..1, prefs : BOOLEAN, calendars : 0..MaxClicks]
  <2>1. srv.added \in 0..MaxClicks /\ srv.calendars \in 0..MaxClicks
    BY <1>2, CardFacts
  <2> QED
    BY <1>0, <2>1 DEF SrvStates, MemberRows
<1>4. clicks \in [n : 0..MaxClicks, adds : 0..MaxClicks, icals : 0..MaxClicks, lost : 0..MaxClicks,
                  elsewhere : 0..1, left : 0..1, at : SUBSET {"family", "kiosk", "notify", "calendars"}]
  <2>1. clicks.n \in 0..MaxClicks /\ clicks.adds \in 0..MaxClicks /\ clicks.icals \in 0..MaxClicks /\ clicks.lost \in 0..MaxClicks
    BY <1>2, CardFacts
  <2> QED
    BY <1>0, <2>1 DEF ClickCounts
<1>5. list.members \in MemberRows /\ list.prefs \in BOOLEAN /\ list.fetch \in C!Fetches(MemberLists)
      /\ hh.kiosk \in BOOLEAN /\ hh.fetch \in C!Fetches(BOOLEAN)
  BY <1>0 DEF ListStates, HhStates
<1>6. \A w \in saves : w.st \in {"sent", "ok", "failed"} /\ w.heard \in {"card", "page", "none"}
  BY <1>0 DEF SavesFit, Saves
<1>7. C!CardsTypeOK
  BY <1>0, <1>3, <1>4, <1>5, <1>6 DEF C!CardsTypeOK, CardStates, CardForms, CardIds, MemberRows, MemberLists
<1>8. C!NoMixedMember /\ C!BillingAwaited
  BY <1>0 DEF SavesFit, BodyFits, BillingFits, C!NoMixedMember, C!BillingAwaited, C!isPending
<1>9. C!AddedOnce
  <2>1. srv.added + Cardinality(KindSent("create")) + KindSlot("create") <= clicks.adds + clicks.lost
    BY <1>0, <1>1 DEF AddsFit, Made, Filled
  <2>2. srv.calendars + Cardinality(KindSent("ical")) + KindSlot("ical") <= clicks.icals + clicks.lost
    BY <1>0, <1>1 DEF AddsFit, Made, Filled
  <2>3. srv.added <= clicks.adds + clicks.lost
    BY <1>1, <2>1, CardFacts
  <2>4. srv.calendars <= clicks.icals + clicks.lost
    BY <1>1, <2>2, CardFacts
  <2> QED
    BY <2>3, <2>4 DEF C!AddedOnce
<1>10. C!ToggleTrue
  <2>1. SUFFICES ASSUME \A w \in saves : w.kind # "settings", hh.fetch = C!IdleFetch, Undisturbed
                 PROVE  C!enabled = srv.kiosk
    BY DEF C!ToggleTrue, Undisturbed
  <2>2. Toggles = {}
    BY <2>1 DEF Toggles
  <2>3. hh.kiosk = srv.kiosk /\ (cards.optimistic # {} => cards.optimistic = {srv.kiosk})
    BY <1>0, <2>1, <2>2 DEF ToggleFits, C!IdleFetch
  <2>4. srv.kiosk \in BOOLEAN
    BY <1>0 DEF SrvStates
  <2>5. CASE cards.optimistic = {}
    BY <2>3, <2>5 DEF C!enabled
  <2>6. CASE cards.optimistic = {TRUE} /\ srv.kiosk = TRUE
    <3>1. C!enabled = (TRUE \in {TRUE})
      BY <2>6 DEF C!enabled
    <3> QED
      BY <2>6, <3>1
  <2>7. CASE cards.optimistic = {FALSE} /\ srv.kiosk = FALSE
    <3>1. C!enabled = (TRUE \in {FALSE})
      BY <2>7 DEF C!enabled
    <3>2. (TRUE \in {FALSE}) = FALSE
      OBVIOUS
    <3>3. C!enabled = FALSE
      BY <3>1, <3>2
    <3> QED
      BY <2>7, <3>3
  <2> QED
    BY <2>3, <2>4, <2>5, <2>6, <2>7
<1> QED
  BY <1>7, <1>8, <1>9, <1>10 DEF C!CardsHonest

\* The cards of a page just mounted.
LEMMA MountedTyped ==
    ASSUME NEW p \in BOOLEAN
    PROVE  /\ C!Mounted(p) \in CardStates /\ C!Mounted(p).member.open = FALSE /\ C!Mounted(p).optimistic = {}
           /\ C!Mounted(p).ical = FALSE /\ C!Mounted(p).busy = FALSE
<1>1. C!ClosedForm \in CardForms /\ C!ClosedForm.open = FALSE
  BY DEF C!ClosedForm, CardForms, CardIds
<1> QED
  BY <1>1 DEF C!Mounted, CardStates

LEMMA FetchesTyped ==
    ASSUME NEW S
    PROVE  /\ C!IdleFetch \in C!Fetches(S) /\ C!IdleFetch.st = "idle"
           /\ C!AskedFetch \in C!Fetches(S) /\ C!AskedFetch.st = "asked"
           /\ \A f \in C!Fetches(S) : /\ f.st \in {"idle", "asked", "served"}
                                      /\ f.st = "served" => f.got \in S
                                      /\ f.st = "idle" => f = C!IdleFetch
           /\ \A g \in S : [st |-> "served", got |-> g] \in C!Fetches(S)
  BY DEF C!Fetches, C!IdleFetch, C!AskedFetch

LEMMA CardsInitInv == C!CardsInit => CardsInv
<1> SUFFICES ASSUME C!CardsInit PROVE CardsInv
  OBVIOUS
<1>1. cards \in CardStates /\ cards.member.open = FALSE /\ cards.optimistic = {} /\ cards.ical = FALSE /\ cards.busy = FALSE
  BY MountedTyped DEF C!CardsInit
<1>2. srv \in SrvStates /\ srv.added = 0 /\ srv.calendars = 0 /\ srv.kiosk = FALSE /\ srv.members \in MemberRows
  BY DEF C!CardsInit, SrvStates, MemberRows
<1>3. list \in ListStates
  BY <1>2, FetchesTyped DEF C!CardsInit, ListStates
<1>4. hh \in HhStates /\ hh.kiosk = FALSE /\ hh.fetch.st = "idle"
  BY FetchesTyped DEF C!CardsInit, HhStates
<1>5. clicks \in ClickCounts /\ clicks.n = 0 /\ clicks.adds = 0 /\ clicks.icals = 0 /\ clicks.lost = 0
  BY DEF C!CardsInit, ClickCounts
<1>6. saves = {}
  BY DEF C!CardsInit
<1>7. CardTypes
  BY <1>1, <1>2, <1>3, <1>4, <1>5, BoundsAssumption DEF CardTypes
<1>8. CardSent = {} /\ \A k : KindSent(k) = {}
  BY <1>6 DEF CardSent, KindSent
<1>9. Cardinality(CardSent) = 0 /\ \A k : Cardinality(KindSent(k)) = 0
  BY <1>8, FS_EmptySet
<1>10. \A k \in Adders : Made(k) = 0 /\ Filled(k) = 0 /\ KindSlot(k) = 0
  BY <1>1, <1>2, <1>5 DEF Made, Filled, KindSlot, FormReady
<1>11. AddsFit
  BY <1>5, <1>9, <1>10 DEF AddsFit
<1>12. SavesFit /\ FormOwn /\ BillingFits
  BY <1>1, <1>6 DEF SavesFit, FormOwn, BillingFits
<1>13. ToggleFits
  BY <1>1, <1>2, <1>4, <1>6 DEF ToggleFits, Toggles
<1> QED
  BY <1>7, <1>11, <1>12, <1>13 DEF CardsInv

\* A step that sends, takes and answers nothing.
LEMMA CardsKept ==
    ASSUME CardsInv, CardTypes', FormOwn', ToggleFits', UNCHANGED saves,
           srv'.added = srv.added, srv'.calendars = srv.calendars, clicks'.n >= clicks.n,
           clicks'.lost = clicks.lost \/ (clicks'.lost = clicks.lost + 1 /\ clicks'.n = clicks.n + 1),
           cards'.busy => cards.busy,
           \A k \in Adders : \/ Filled(k)' = Filled(k) + 1
                             \/ Filled(k)' = Filled(k) /\ (FormReady(k)' => FormReady(k))
    PROVE  CardsInv'
<1>0. SavesFit /\ AddsFit /\ BillingFits /\ clicks.n \in Nat /\ clicks'.n \in Nat /\ clicks'.lost \in Nat
  BY CardFacts DEF CardsInv, CardTypes, ClickCounts
<1>1. SavesFit'
  <2>1. \A w \in saves : w.n \in Nat /\ w.n < clicks'.n
    BY <1>0 DEF SavesFit, Saves
  <2> QED
    BY <1>0, <2>1 DEF SavesFit
<1>2. BillingFits'
  BY <1>0 DEF BillingFits
<1>3. CardSent' = CardSent
  BY DEF CardSent
<1>4. clicks'.lost + Cardinality(CardSent)' <= clicks'.n
  BY <1>0, <1>3, CardFacts DEF AddsFit
<1>5. ASSUME NEW k \in Adders
      PROVE  /\ Made(k)' + Cardinality(CardSent)' <= clicks'.n
             /\ Made(k)' + Cardinality(KindSent(k))' + KindSlot(k)' <= Filled(k)' + clicks'.lost
  <2>1. Made(k)' = Made(k) /\ KindSent(k)' = KindSent(k) /\ (KindHeard(k)' <=> KindHeard(k)) /\ KindSlot(k)' \in {0, 1}
    BY DEF Made, KindSent, KindHeard, KindSlot
  <2>2. Made(k) + Cardinality(CardSent) <= clicks.n
        /\ Made(k) + Cardinality(KindSent(k)) + KindSlot(k) <= Filled(k) + clicks.lost
    BY <1>0, <1>5 DEF AddsFit
  <2>3. Made(k) \in Nat /\ Filled(k) \in Nat /\ Cardinality(KindSent(k)) \in Nat /\ KindSlot(k) \in {0, 1}
        /\ Cardinality(CardSent) \in Nat /\ clicks.lost \in Nat
    BY <1>5, CardFacts
  <2>4. Made(k)' + Cardinality(CardSent)' <= clicks'.n
    BY <1>0, <1>3, <2>1, <2>2, <2>3
  <2>5. CASE Filled(k)' = Filled(k) + 1
    BY <1>0, <2>1, <2>2, <2>3, <2>4, <2>5
  <2>6. CASE Filled(k)' = Filled(k) /\ (FormReady(k)' => FormReady(k))
    <3>1. KindSlot(k)' <= KindSlot(k)
      BY <2>1, <2>6 DEF KindSlot
    <3> QED
      BY <1>0, <2>1, <2>2, <2>3, <2>4, <2>6, <3>1
  <2> QED
    BY <1>5, <2>5, <2>6
<1>6. AddsFit'
  BY <1>4, <1>5 DEF AddsFit
<1> QED
  BY <1>1, <1>2, <1>6 DEF CardsInv

\* The toggle is not concerned.
LEMMA ToggleKept ==
    ASSUME CardsInv, UNCHANGED <<saves, hh>>, srv'.kiosk = srv.kiosk, cards'.optimistic = cards.optimistic,
           Undisturbed' => Undisturbed
    PROVE  ToggleFits'
  BY DEF CardsInv, ToggleFits, Toggles

\* One click more.
LEMMA CountedTyped ==
    ASSUME CardsInv, NEW c \in {"family", "kiosk", "notify", "calendars"}, C!Clicked
    PROVE  /\ C!Counted(c) \in ClickCounts /\ C!Counted(c).n = clicks.n + 1 /\ C!Counted(c).n <= MaxClicks
           /\ C!Counted(c).adds = clicks.adds /\ C!Counted(c).icals = clicks.icals /\ C!Counted(c).lost = clicks.lost
           /\ C!Counted(c).elsewhere = clicks.elsewhere /\ C!Counted(c).left = clicks.left
<1>0. clicks \in ClickCounts
  BY DEF CardsInv, CardTypes
<1>1. PICK m \in Nat : m = clicks.n + 1
  BY CardFacts
<1>2. PICK a \in SUBSET {"family", "kiosk", "notify", "calendars"} : a = clicks.at \cup {c}
  BY <1>0 DEF ClickCounts
<1>3. C!Counted(c) = [clicks EXCEPT !.n = m, !.at = a]
  BY <1>1, <1>2 DEF C!Counted
<1>4. m <= MaxClicks
  BY <1>1, CardFacts DEF C!Clicked
<1> QED
  BY <1>0, <1>1, <1>3, <1>4 DEF ClickCounts

\* Another form of a member.
LEMMA MemberForm ==
    ASSUME cards \in CardStates, NEW m \in CardForms, cards' = [cards EXCEPT !.member = m]
    PROVE  /\ cards' \in CardStates /\ cards'.member = m /\ cards'.optimistic = cards.optimistic
           /\ cards'.ical = cards.ical /\ cards'.busy = cards.busy
  BY DEF CardStates

\* The family's form: opening, closing and filling it.
LEMMA FormKeeps ==
    ASSUME CardsInv, C!openAdd \/ C!cancelForm \/ C!setForm \/ \E m \in C!Members : C!openEdit(m)
    PROVE  CardsInv'
<1>0. CardTypes /\ FormOwn /\ cards \in CardStates /\ list \in ListStates /\ cards.member \in CardForms
      /\ C!Fresh \notin C!Members
  BY DEF CardsInv, CardTypes, CardStates, C!Fresh, C!Members
<1>1. UNCHANGED <<srv, list, hh, saves>>
  BY DEF C!openAdd, C!cancelForm, C!setForm, C!openEdit
<1>2. clicks' = clicks \/ (C!Clicked /\ clicks' = C!Counted("family"))
      \/ (C!openAdd /\ C!Clicked /\ clicks' = [C!Counted("family") EXCEPT !.adds = @ + 1])
  BY DEF C!openAdd, C!cancelForm, C!setForm, C!openEdit, C!Click, C!Usable
<1>3. /\ clicks' \in ClickCounts /\ clicks'.n \in {clicks.n, clicks.n + 1} /\ clicks'.n <= MaxClicks
      /\ clicks'.icals = clicks.icals /\ clicks'.lost = clicks.lost
      /\ clicks'.elsewhere = clicks.elsewhere /\ clicks'.left = clicks.left
      /\ clicks'.adds = clicks.adds \/ (clicks'.adds = clicks.adds + 1 /\ clicks'.n = clicks.n + 1)
      /\ C!openAdd => clicks'.adds = clicks.adds + 1
  <2>1. C!openAdd => C!Clicked /\ clicks' = [C!Counted("family") EXCEPT !.adds = @ + 1]
    BY DEF C!openAdd, C!Usable
  <2>2. CASE C!openAdd
    <3>1. PICK c \in ClickCounts : /\ c = C!Counted("family") /\ c.n = clicks.n + 1 /\ c.n <= MaxClicks
             /\ c.adds = clicks.adds /\ c.icals = clicks.icals /\ c.lost = clicks.lost
             /\ c.elsewhere = clicks.elsewhere /\ c.left = clicks.left
      BY <2>1, <2>2, CountedTyped
    <3>2. PICK a \in Nat : a = clicks.adds + 1
      BY CardFacts
    <3>3. clicks' = [c EXCEPT !.adds = a]
      BY <2>1, <2>2, <3>1, <3>2
    <3> QED
      BY <3>1, <3>2, <3>3 DEF ClickCounts
  <2>3. CASE clicks' = clicks /\ ~C!openAdd
    BY <1>0, <2>3 DEF CardTypes
  <2>4. CASE C!Clicked /\ clicks' = C!Counted("family") /\ ~C!openAdd
    BY <2>4, CountedTyped
  <2> QED
    BY <1>2, <2>2, <2>3, <2>4
<1>4. PICK m \in CardForms : /\ cards' = [cards EXCEPT !.member = m]
                             /\ m.open => m.of \subseteq {m.editingId}
                             /\ m.open /\ m.editingId = C!Fresh => C!openAdd \/ (cards.member.open /\ cards.member.editingId = C!Fresh)
  <2>1. CASE C!openAdd
    <3>1. [open |-> TRUE, editingId |-> C!Fresh, row |-> 0, of |-> {C!Fresh}] \in CardForms
      BY DEF CardForms, CardIds
    <3> QED
      BY <2>1, <3>1 DEF C!openAdd
  <2>2. CASE C!cancelForm
    <3>0. C!Fresh \in CardIds
      BY DEF CardIds
    <3>1. PICK m \in CardForms : m = [cards.member EXCEPT !.open = FALSE, !.editingId = C!Fresh]
      BY <1>0, <3>0 DEF CardForms
    <3>3. m.open = FALSE
      BY <1>0, <3>1 DEF CardForms
    <3>2. cards' = [cards EXCEPT !.member = m]
      BY <1>0, <2>2, <3>1 DEF C!cancelForm, CardStates, CardForms
    <3> QED
      BY <3>2, <3>3
  <2>3. CASE C!setForm
    <3>1. PICK row \in 0..2 : cards' = [cards EXCEPT !.member.row = row, !.member.of = @ \cup {cards.member.editingId}]
      BY <2>3 DEF C!setForm
    <3>2. cards.member.of \cup {cards.member.editingId} \in SUBSET CardIds
      BY <1>0 DEF CardForms
    <3>3. PICK o \in SUBSET CardIds : o = cards.member.of \cup {cards.member.editingId}
      BY <3>2
    <3>4. PICK m \in CardForms : m = [cards.member EXCEPT !.row = row, !.of = o]
      BY <1>0 DEF CardForms
    <3>5. m.open = cards.member.open /\ m.editingId = cards.member.editingId /\ m.of = o
      BY <1>0, <3>4 DEF CardForms
    <3>6. cards' = [cards EXCEPT !.member = m]
      BY <1>0, <3>1, <3>3, <3>4 DEF CardStates, CardForms
    <3> QED
      BY <1>0, <3>3, <3>5, <3>6 DEF FormOwn
  <2>4. CASE \E x \in C!Members : C!openEdit(x)
    <3>0. PICK x \in C!Members : C!openEdit(x)
      BY <2>4
    <3>1. list.members[x] \in 0..2
      BY <1>0 DEF ListStates, MemberRows
    <3>2. [open |-> TRUE, editingId |-> x, row |-> list.members[x], of |-> {x}] \in CardForms
      BY <3>1 DEF CardForms, CardIds
    <3> QED
      BY <1>0, <3>0, <3>2 DEF C!openEdit
  <2> QED
    BY <2>1, <2>2, <2>3, <2>4
<1>5. /\ cards' \in CardStates /\ cards'.member = m /\ cards'.optimistic = cards.optimistic
      /\ cards'.ical = cards.ical /\ cards'.busy = cards.busy
  BY <1>0, <1>4, MemberForm
<1>6. CardTypes'
  <2>1. clicks'.adds <= clicks'.n /\ clicks'.icals <= clicks'.n
    BY <1>0, <1>3, CardFacts DEF CardTypes
  <2> QED
    BY <1>0, <1>1, <1>3, <1>5, <2>1 DEF CardTypes
<1>7. FormOwn'
  BY <1>4, <1>5 DEF FormOwn
<1>8. ToggleFits'
  BY <1>1, <1>3, <1>5, ToggleKept DEF Undisturbed
<1>9. \A k \in Adders : \/ Filled(k)' = Filled(k) + 1
                        \/ Filled(k)' = Filled(k) /\ (FormReady(k)' => FormReady(k))
  BY <1>3, <1>4, <1>5 DEF Filled, FormReady, Adders
<1>10. clicks'.n >= clicks.n /\ srv'.added = srv.added /\ srv'.calendars = srv.calendars
  BY <1>1, <1>3, CardFacts
<1> QED
  BY <1>1, <1>3, <1>5, <1>6, <1>7, <1>8, <1>9, <1>10, CardsKept

\* The fields of the other cards.
LEMMA FieldsKeep ==
    ASSUME CardsInv, C!setNotify \/ C!setIcal \/ C!setShowForm
    PROVE  CardsInv'
<1>0. CardTypes /\ FormOwn /\ cards \in CardStates /\ clicks \in ClickCounts
  BY DEF CardsInv, CardTypes
<1>1. UNCHANGED <<srv, list, hh, saves>>
  BY DEF C!setNotify, C!setIcal, C!setShowForm
<1>2. /\ cards' \in CardStates /\ cards'.member = cards.member /\ cards'.optimistic = cards.optimistic
      /\ cards'.busy = cards.busy /\ (cards'.ical = cards.ical \/ C!setIcal)
  <2>1. CASE C!setIcal
    BY <1>0, <2>1 DEF C!setIcal, CardStates
  <2>2. CASE C!setShowForm
    <3>1. PICK b \in BOOLEAN : b = ~cards.showForm
      OBVIOUS
    <3>2. cards' = [cards EXCEPT !.showForm = b]
      BY <2>2, <3>1 DEF C!setShowForm
    <3> QED
      BY <1>0, <3>2 DEF CardStates
  <2>3. CASE cards' = [cards EXCEPT !.topic = 1 - @]
    <3>1. PICK t \in 0..1 : t = 1 - cards.topic
      BY <1>0 DEF CardStates
    <3>2. cards' = [cards EXCEPT !.topic = t]
      BY <2>3, <3>1
    <3> QED
      BY <1>0, <3>2 DEF CardStates
  <2>4. CASE cards' = [cards EXCEPT !.prefs = ~@]
    <3>1. PICK b \in BOOLEAN : b = ~cards.prefs
      OBVIOUS
    <3>2. cards' = [cards EXCEPT !.prefs = b]
      BY <2>4, <3>1
    <3> QED
      BY <1>0, <3>2 DEF CardStates
  <2> QED
    BY <2>1, <2>2, <2>3, <2>4 DEF C!setNotify
<1>3. /\ clicks' \in ClickCounts /\ clicks'.n \in {clicks.n, clicks.n + 1} /\ clicks'.n <= MaxClicks
      /\ clicks'.adds = clicks.adds /\ clicks'.lost = clicks.lost
      /\ clicks'.elsewhere = clicks.elsewhere /\ clicks'.left = clicks.left
      /\ (clicks'.icals = clicks.icals /\ ~C!setIcal) \/ (clicks'.icals = clicks.icals + 1 /\ clicks'.n = clicks.n + 1)
  <2>1. CASE C!setIcal
    <3>1. C!Clicked /\ clicks' = [C!Counted("calendars") EXCEPT !.icals = @ + 1]
      BY <2>1 DEF C!setIcal, C!Usable
    <3>2. PICK c \in ClickCounts : /\ c = C!Counted("calendars") /\ c.n = clicks.n + 1 /\ c.n <= MaxClicks
             /\ c.adds = clicks.adds /\ c.icals = clicks.icals /\ c.lost = clicks.lost
             /\ c.elsewhere = clicks.elsewhere /\ c.left = clicks.left
      BY <3>1, CountedTyped
    <3>3. PICK a \in Nat : a = clicks.icals + 1
      BY CardFacts
    <3>4. clicks' = [c EXCEPT !.icals = a]
      BY <3>1, <3>2, <3>3
    <3> QED
      BY <3>2, <3>3, <3>4 DEF ClickCounts
  <2>2. CASE C!setShowForm /\ ~C!setIcal
    <3>1. PICK a \in SUBSET {"family", "kiosk", "notify", "calendars"} : a = clicks.at \cup {"calendars"}
      BY <1>0 DEF ClickCounts
    <3>2. clicks' = [clicks EXCEPT !.at = a]
      BY <2>2, <3>1 DEF C!setShowForm
    <3>3. clicks' \in ClickCounts /\ clicks'.n = clicks.n /\ clicks'.adds = clicks.adds /\ clicks'.lost = clicks.lost
          /\ clicks'.elsewhere = clicks.elsewhere /\ clicks'.left = clicks.left /\ clicks'.icals = clicks.icals
      BY <1>0, <3>2 DEF ClickCounts
    <3> QED
      BY <1>0, <2>2, <3>3 DEF CardTypes
  <2>3. CASE C!setNotify /\ ~C!setIcal
    <3>1. C!Clicked /\ clicks' = C!Counted("notify")
      BY <2>3 DEF C!setNotify, C!Click, C!Usable
    <3> QED
      BY <2>3, <3>1, CountedTyped
  <2> QED
    BY <2>1, <2>2, <2>3
<1>4. CardTypes'
  <2>1. clicks'.adds <= clicks'.n /\ clicks'.icals <= clicks'.n
    BY <1>0, <1>3, CardFacts DEF CardTypes
  <2> QED
    BY <1>0, <1>1, <1>2, <1>3, <2>1 DEF CardTypes
<1>5. FormOwn'
  BY <1>0, <1>2 DEF FormOwn
<1>6. ToggleFits'
  BY <1>1, <1>2, <1>3, ToggleKept DEF Undisturbed
<1>7. \A k \in Adders : \/ Filled(k)' = Filled(k) + 1
                        \/ Filled(k)' = Filled(k) /\ (FormReady(k)' => FormReady(k))
  BY <1>2, <1>3 DEF Filled, FormReady, Adders
<1>8. clicks'.n >= clicks.n /\ srv'.added = srv.added /\ srv'.calendars = srv.calendars
  BY <1>1, <1>3, CardFacts
<1> QED
  BY <1>1, <1>2, <1>3, <1>4, <1>5, <1>6, <1>7, <1>8, CardsKept

\* A request of kind k is sent, from a form that may add or a card that is not waiting.
LEMMA CardSendKeeps ==
    ASSUME CardsInv, CardTypes', NEW kind \in SaveKinds, NEW body \in Bodies, BodyFits(kind, body), C!Send(kind, body),
           UNCHANGED <<srv, list, hh>>, cards'.member = cards.member, cards'.ical = cards.ical,
           clicks'.n = clicks.n + 1, clicks'.adds = clicks.adds, clicks'.icals = clicks.icals,
           clicks'.lost = clicks.lost, clicks'.elsewhere = clicks.elsewhere, clicks'.left = clicks.left,
           cards'.busy => cards.busy \/ kind = "billing",
           kind \in Adders => FormReady(kind) /\ ~KindHeard(kind),
           kind = "settings" => cards'.optimistic = {body.kiosk} /\ ~C!isPending({"settings"}),
           kind # "settings" => cards'.optimistic = cards.optimistic
    PROVE  CardsInv'
<1>0. SavesFit /\ FormOwn /\ AddsFit /\ ToggleFits /\ BillingFits /\ clicks.n \in Nat /\ clicks'.n \in Nat
  BY CardFacts DEF CardsInv
<1>1. PICK s \in Saves : /\ saves' = saves \cup {s} /\ s.kind = kind /\ s.body = body /\ s.n = clicks.n
                         /\ s.heard = "card" /\ s.st = "sent"
  <2>1. PICK m \in Nat : m = clicks.n
    BY <1>0
  <2>2. [kind |-> kind, body |-> body, n |-> m, heard |-> "card", st |-> "sent"] \in Saves
    BY DEF Saves
  <2> QED
    BY <2>1, <2>2 DEF C!Send
<1>2. \A w \in saves : w.n \in Nat /\ w.n < clicks.n
  BY <1>0 DEF SavesFit, Saves
<1>3. SavesFit'
  <2>1. saves' \subseteq Saves
    BY <1>0, <1>1 DEF SavesFit
  <2>2. \A w \in saves' : w.n < clicks'.n /\ BodyFits(w.kind, w.body)
    BY <1>0, <1>1, <1>2 DEF SavesFit
  <2>3. \A w, v \in saves' : w.n = v.n => w = v
    BY <1>0, <1>1, <1>2 DEF SavesFit
  <2> QED
    BY <2>1, <2>2, <2>3 DEF SavesFit, BodyFits
<1>4. FormOwn' /\ BillingFits'
  BY <1>0, <1>1 DEF FormOwn, BillingFits
<1>5. CardSent' = CardSent \cup {clicks.n} /\ clicks.n \notin CardSent
  BY <1>0, <1>1, <1>2 DEF CardSent
<1>6. Cardinality(CardSent)' = Cardinality(CardSent) + 1
  BY <1>5, CardFacts, FS_AddElement
<1>7. clicks'.lost + Cardinality(CardSent)' <= clicks'.n
  BY <1>0, <1>6, CardFacts DEF AddsFit
<1>8. ASSUME NEW k \in Adders
      PROVE  /\ Made(k)' + Cardinality(CardSent)' <= clicks'.n
             /\ Made(k)' + Cardinality(KindSent(k))' + KindSlot(k)' <= Filled(k)' + clicks'.lost
  <2>1. Made(k)' = Made(k) /\ Filled(k)' = Filled(k) /\ (FormReady(k)' <=> FormReady(k))
    BY DEF Made, Filled, FormReady
  <2>2. Made(k) + Cardinality(CardSent) <= clicks.n
        /\ Made(k) + Cardinality(KindSent(k)) + KindSlot(k) <= Filled(k) + clicks.lost
    BY <1>0, <1>8 DEF AddsFit
  <2>3. Made(k) \in Nat /\ Filled(k) \in Nat /\ Cardinality(KindSent(k)) \in Nat /\ IsFiniteSet(KindSent(k))
        /\ KindSlot(k) \in {0, 1} /\ Cardinality(CardSent) \in Nat /\ clicks.lost \in Nat
    BY <1>8, CardFacts
  <2>4. Made(k)' + Cardinality(CardSent)' <= clicks'.n
    BY <1>0, <1>6, <2>1, <2>2, <2>3
  <2>5. CASE k = kind
    <3>1. KindSent(k)' = KindSent(k) \cup {clicks.n} /\ clicks.n \notin KindSent(k)
      BY <1>0, <1>1, <1>2, <2>5 DEF KindSent
    <3>2. Cardinality(KindSent(k))' = Cardinality(KindSent(k)) + 1
      BY <2>3, <3>1, FS_AddElement
    <3>3. KindHeard(k)'
      BY <1>1, <2>5 DEF KindHeard
    <3>4. KindSlot(k)' = 0
      BY <3>3 DEF KindSlot
    <3>5. KindSlot(k) = 1
      BY <1>8, <2>5 DEF KindSlot
    <3> QED
      BY <2>1, <2>2, <2>3, <2>4, <3>2, <3>4, <3>5
  <2>6. CASE k # kind
    <3>1. KindSent(k)' = KindSent(k)
      BY <1>1, <2>6 DEF KindSent
    <3>2. KindHeard(k)' <=> KindHeard(k)
      BY <1>1, <2>6 DEF KindHeard
    <3>3. KindSlot(k)' = KindSlot(k)
      BY <2>1, <3>2 DEF KindSlot
    <3> QED
      BY <2>1, <2>2, <2>3, <2>4, <3>1, <3>3
  <2> QED
    BY <2>5, <2>6
<1>9. AddsFit'
  BY <1>7, <1>8 DEF AddsFit
<1>10. ToggleFits'
  <2>1. SUFFICES ASSUME Undisturbed'
                 PROVE  ToggleFits'
    BY DEF ToggleFits
  <2>2. Undisturbed
    BY <2>1 DEF Undisturbed
  <2>3. CASE kind = "settings"
    <3>1. Toggles = {} /\ Toggles' = {s}
      BY <1>0, <1>1, <2>2, <2>3 DEF ToggleFits, Toggles, C!isPending
    <3> QED
      BY <1>0, <1>1, <2>2, <2>3, <3>1 DEF ToggleFits
  <2>4. CASE kind # "settings"
    <3>1. Toggles' = Toggles
      BY <1>1, <2>4 DEF Toggles
    <3> QED
      BY <1>0, <1>1, <2>2, <2>4, <3>1 DEF ToggleFits
  <2> QED
    BY <2>3, <2>4
<1> QED
  BY <1>3, <1>4, <1>9, <1>10 DEF CardsInv

\* The clicks that send.
LEMMA ClickTypes ==
    ASSUME CardsInv, NEW c \in {"family", "kiosk", "notify", "calendars"}, C!Click(c),
           UNCHANGED <<srv, list, hh>>, cards' \in CardStates
    PROVE  /\ CardTypes' /\ clicks'.n = clicks.n + 1 /\ clicks'.adds = clicks.adds /\ clicks'.icals = clicks.icals
           /\ clicks'.lost = clicks.lost /\ clicks'.elsewhere = clicks.elsewhere /\ clicks'.left = clicks.left
<1>1. C!Clicked /\ clicks' = C!Counted(c)
  BY DEF C!Click, C!Usable
<1>2. /\ clicks' \in ClickCounts /\ clicks'.n = clicks.n + 1 /\ clicks'.n <= MaxClicks
      /\ clicks'.adds = clicks.adds /\ clicks'.icals = clicks.icals /\ clicks'.lost = clicks.lost
      /\ clicks'.elsewhere = clicks.elsewhere /\ clicks'.left = clicks.left
  BY <1>1, CountedTyped
<1>3. CardTypes
  BY DEF CardsInv
<1>4. clicks'.adds <= clicks'.n /\ clicks'.icals <= clicks'.n
  BY <1>2, <1>3, CardFacts DEF CardTypes
<1> QED
  BY <1>2, <1>3, <1>4 DEF CardTypes

LEMMA SubmitKeeps ==
    ASSUME CardsInv, C!handleSubmit
    PROVE  CardsInv'
<1>0. CardTypes /\ FormOwn /\ cards \in CardStates /\ cards.member \in CardForms
  BY DEF CardsInv, CardTypes, CardStates
<1>1. /\ cards.member.open /\ ~C!isPending({"create", "update"}) /\ C!Click("family")
      /\ UNCHANGED <<srv, list, hh, cards>>
  BY DEF C!handleSubmit
<1>2. PICK kind \in {"create", "update"} : kind = IF cards.member.editingId = C!Fresh THEN "create" ELSE "update"
  OBVIOUS
<1>3. PICK body \in MemberBodies : body = [id |-> cards.member.editingId, row |-> cards.member.row, of |-> cards.member.of]
  BY <1>0 DEF CardForms, MemberBodies
<1>4. C!Send(kind, body)
  BY <1>2, <1>3 DEF C!handleSubmit
<1>5. kind \in SaveKinds /\ body \in Bodies
  BY <1>2, <1>3 DEF SaveKinds, Bodies
<1>6. body.id = cards.member.editingId /\ body.of = cards.member.of
  BY <1>3
<1>7. BodyFits(kind, body)
  <2>1. body.of \subseteq {body.id}
    BY <1>0, <1>1, <1>6 DEF FormOwn
  <2>2. kind = "update" => body.id \in C!Members
    BY <1>0, <1>2, <1>6 DEF CardForms, CardIds
  <2> QED
    BY <1>2, <1>3, <2>1, <2>2 DEF BodyFits
<1>8. kind \in Adders => FormReady(kind) /\ ~KindHeard(kind)
  <2>1. kind \in Adders => kind = "create" /\ cards.member.editingId = C!Fresh
    BY <1>2 DEF Adders
  <2> QED
    BY <1>1, <2>1 DEF FormReady, KindHeard, C!isPending
<1>9. /\ CardTypes' /\ clicks'.n = clicks.n + 1 /\ clicks'.adds = clicks.adds /\ clicks'.icals = clicks.icals
      /\ clicks'.lost = clicks.lost /\ clicks'.elsewhere = clicks.elsewhere /\ clicks'.left = clicks.left
  BY <1>0, <1>1, ClickTypes
<1> QED
  BY <1>1, <1>2, <1>4, <1>5, <1>7, <1>8, <1>9, CardSendKeeps

LEMMA DeleteKeeps ==
    ASSUME CardsInv, NEW m \in C!Members, C!handleDelete(m)
    PROVE  CardsInv'
<1>0. cards \in CardStates
  BY DEF CardsInv, CardTypes
<1>1. C!Click("family") /\ UNCHANGED <<srv, list, hh, cards>>
  BY DEF C!handleDelete
<1>2. PICK body \in DeleteBodies : body = [id |-> m]
  BY DEF DeleteBodies
<1>3. C!Send("delete", body) /\ "delete" \in SaveKinds /\ body \in Bodies /\ BodyFits("delete", body)
  BY <1>2 DEF C!handleDelete, SaveKinds, Bodies, BodyFits
<1>4. /\ CardTypes' /\ clicks'.n = clicks.n + 1 /\ clicks'.adds = clicks.adds /\ clicks'.icals = clicks.icals
      /\ clicks'.lost = clicks.lost /\ clicks'.elsewhere = clicks.elsewhere /\ clicks'.left = clicks.left
  BY <1>0, <1>1, ClickTypes
<1>5. "delete" \notin Adders
  BY DEF Adders
<1> QED
  BY <1>1, <1>3, <1>4, <1>5, CardSendKeeps

LEMMA ToggleKeeps ==
    ASSUME CardsInv, C!handleToggle
    PROVE  CardsInv'
<1>0. cards \in CardStates
  BY DEF CardsInv, CardTypes
<1>1. C!Click("kiosk") /\ UNCHANGED <<srv, list, hh>> /\ ~C!isPending({"settings"})
  BY DEF C!handleToggle
<1>2. PICK b \in BOOLEAN : b = ~C!enabled
  OBVIOUS
<1>3. cards' = [cards EXCEPT !.optimistic = {b}] /\ C!Send("settings", [kiosk |-> b])
  BY <1>2 DEF C!handleToggle
<1>4. PICK body \in KioskBodies : body = [kiosk |-> b]
  BY DEF KioskBodies
<1>5. C!Send("settings", body) /\ "settings" \in SaveKinds /\ body \in Bodies /\ BodyFits("settings", body) /\ body.kiosk = b
  BY <1>3, <1>4 DEF SaveKinds, Bodies, BodyFits
<1>6. /\ cards' \in CardStates /\ cards'.optimistic = {b} /\ cards'.member = cards.member
      /\ cards'.ical = cards.ical /\ cards'.busy = cards.busy
  BY <1>0, <1>3 DEF CardStates
<1>7. /\ CardTypes' /\ clicks'.n = clicks.n + 1 /\ clicks'.adds = clicks.adds /\ clicks'.icals = clicks.icals
      /\ clicks'.lost = clicks.lost /\ clicks'.elsewhere = clicks.elsewhere /\ clicks'.left = clicks.left
  BY <1>1, <1>6, ClickTypes
<1>8. "settings" \notin Adders
  BY DEF Adders
<1> QED
  BY <1>1, <1>5, <1>6, <1>7, <1>8, CardSendKeeps

LEMMA NotifyKeeps ==
    ASSUME CardsInv, C!handleSave
    PROVE  CardsInv'
<1>0. cards \in CardStates
  BY DEF CardsInv, CardTypes
<1>1. C!Click("notify") /\ UNCHANGED <<srv, list, hh, cards>>
  BY DEF C!handleSave
<1>2. PICK body \in NotifyBodies : body = C!NotifyRequest
  BY <1>0 DEF CardStates, NotifyBodies, C!NotifyRequest
<1>3. C!Send("notify", body) /\ "notify" \in SaveKinds /\ body \in Bodies /\ BodyFits("notify", body)
  BY <1>2 DEF C!handleSave, SaveKinds, Bodies, BodyFits
<1>4. /\ CardTypes' /\ clicks'.n = clicks.n + 1 /\ clicks'.adds = clicks.adds /\ clicks'.icals = clicks.icals
      /\ clicks'.lost = clicks.lost /\ clicks'.elsewhere = clicks.elsewhere /\ clicks'.left = clicks.left
  BY <1>0, <1>1, ClickTypes
<1>5. "notify" \notin Adders
  BY DEF Adders
<1> QED
  BY <1>1, <1>3, <1>4, <1>5, CardSendKeeps

LEMMA IcalKeeps ==
    ASSUME CardsInv, C!submitIcal
    PROVE  CardsInv'
<1>0. cards \in CardStates
  BY DEF CardsInv, CardTypes
<1>1. C!Click("calendars") /\ UNCHANGED <<srv, list, hh, cards>> /\ cards.ical /\ ~C!isPending({"ical"})
  BY DEF C!submitIcal
<1>2. PICK body \in Bodies : body = C!NoBody
  BY DEF Bodies
<1>3. C!Send("ical", body) /\ "ical" \in SaveKinds /\ BodyFits("ical", body)
  BY <1>2 DEF C!submitIcal, SaveKinds, BodyFits
<1>4. /\ CardTypes' /\ clicks'.n = clicks.n + 1 /\ clicks'.adds = clicks.adds /\ clicks'.icals = clicks.icals
      /\ clicks'.lost = clicks.lost /\ clicks'.elsewhere = clicks.elsewhere /\ clicks'.left = clicks.left
  BY <1>0, <1>1, ClickTypes
<1>5. FormReady("ical") /\ ~KindHeard("ical")
  BY <1>1 DEF FormReady, KindHeard, C!isPending
<1> QED
  BY <1>1, <1>3, <1>4, <1>5, CardSendKeeps

LEMMA BillingKeeps ==
    ASSUME CardsInv, C!handleBilling
    PROVE  CardsInv'
<1>0. cards \in CardStates /\ clicks \in ClickCounts /\ CardTypes
  BY DEF CardsInv, CardTypes
<1>1. C!Clicked /\ clicks' = [clicks EXCEPT !.n = @ + 1] /\ UNCHANGED <<srv, list, hh>>
      /\ cards' = [cards EXCEPT !.busy = TRUE]
  BY DEF C!handleBilling
<1>2. PICK body \in Bodies : body = C!NoBody
  BY DEF Bodies
<1>3. C!Send("billing", body) /\ "billing" \in SaveKinds /\ BodyFits("billing", body) /\ "billing" \notin Adders
  BY <1>2 DEF C!handleBilling, SaveKinds, BodyFits, Adders
<1>4. /\ cards' \in CardStates /\ cards'.optimistic = cards.optimistic /\ cards'.member = cards.member /\ cards'.ical = cards.ical
  BY <1>0, <1>1 DEF CardStates
<1>5. /\ CardTypes' /\ clicks'.n = clicks.n + 1 /\ clicks'.adds = clicks.adds /\ clicks'.icals = clicks.icals
      /\ clicks'.lost = clicks.lost /\ clicks'.elsewhere = clicks.elsewhere /\ clicks'.left = clicks.left
  <2>1. PICK m \in Nat : m = clicks.n + 1
    BY CardFacts
  <2>2. /\ clicks' \in ClickCounts /\ clicks'.n = m /\ clicks'.adds = clicks.adds /\ clicks'.icals = clicks.icals
        /\ clicks'.lost = clicks.lost /\ clicks'.elsewhere = clicks.elsewhere /\ clicks'.left = clicks.left
    BY <1>0, <1>1, <2>1 DEF ClickCounts
  <2>3. clicks'.n <= MaxClicks /\ clicks'.adds <= clicks'.n /\ clicks'.icals <= clicks'.n
    BY <1>0, <1>1, <2>1, <2>2, CardFacts DEF C!Clicked, CardTypes
  <2> QED
    BY <1>0, <1>1, <1>4, <2>1, <2>2, <2>3 DEF CardTypes
<1> QED
  BY <1>1, <1>3, <1>4, <1>5, CardSendKeeps

\* What the server holds once it has taken a request.
LEMMA AppliedFacts ==
    ASSUME CardsInv, NEW w \in saves
    PROVE  /\ C!Applied(w) \in SrvStates
           /\ C!Applied(w).added = IF w.kind = "create" THEN srv.added + 1 ELSE srv.added
           /\ C!Applied(w).calendars = IF w.kind = "ical" THEN srv.calendars + 1 ELSE srv.calendars
           /\ C!Applied(w).kiosk = IF w.kind = "settings" THEN w.body.kiosk ELSE srv.kiosk
           /\ srv.topic # 0 => C!Applied(w).topic # 0
<1>0. srv \in SrvStates /\ w \in Saves /\ BodyFits(w.kind, w.body)
  BY DEF CardsInv, CardTypes, SavesFit
<1>1. w.kind \in SaveKinds
  BY <1>0 DEF Saves
<1>2. CASE w.kind = "create"
  <2>1. PICK a \in Nat : a = srv.added + 1
    BY CardFacts
  <2>2. C!Applied(w) = [srv EXCEPT !.added = a]
    BY <1>2, <2>1 DEF C!Applied
  <2> QED
    BY <1>0, <1>2, <2>1, <2>2 DEF SrvStates
<1>3. CASE w.kind \in {"update", "delete"}
  <2>1. PICK m \in C!Members : m = w.body.id
    BY <1>0, <1>3 DEF BodyFits, DeleteBodies
  <2>2. PICK r \in 0..2 : r = IF w.kind = "update" THEN w.body.row ELSE 0
    BY <1>0, <1>3 DEF BodyFits, MemberBodies
  <2>3. C!Applied(w) = [srv EXCEPT !.members[m] = r]
    BY <1>3, <2>1, <2>2 DEF C!Applied
  <2>4. PICK f \in MemberRows : f = [srv.members EXCEPT ![m] = r]
    BY <1>0 DEF SrvStates, MemberRows
  <2>5. C!Applied(w) = [srv EXCEPT !.members = f]
    BY <1>0, <2>3, <2>4 DEF SrvStates
  <2> QED
    BY <1>0, <1>3, <2>5 DEF SrvStates
<1>4. CASE w.kind = "settings"
  <2>1. PICK b \in BOOLEAN : b = w.body.kiosk
    BY <1>0, <1>4 DEF BodyFits, KioskBodies
  <2>2. C!Applied(w) = [srv EXCEPT !.kiosk = b]
    BY <1>4, <2>1 DEF C!Applied
  <2> QED
    BY <1>0, <1>4, <2>1, <2>2 DEF SrvStates
<1>5. CASE w.kind = "notify"
  <2>1. PICK b \in BOOLEAN : b = w.body.prefs
    BY <1>0, <1>5 DEF BodyFits, NotifyBodies
  <2>2. PICK t \in 0..1 : t = (IF w.body.topic = 0 THEN srv.topic ELSE w.body.topic) /\ (srv.topic # 0 => t # 0)
    BY <1>0, <1>5 DEF BodyFits, NotifyBodies, SrvStates
  <2>3. C!Applied(w) = [srv EXCEPT !.topic = t, !.prefs = b]
    BY <1>5, <2>1, <2>2 DEF C!Applied, C!KeepsTopic
  <2> QED
    BY <1>0, <1>5, <2>2, <2>3 DEF SrvStates
<1>6. CASE w.kind = "ical"
  <2>1. PICK a \in Nat : a = srv.calendars + 1
    BY CardFacts
  <2>2. C!Applied(w) = [srv EXCEPT !.calendars = a]
    BY <1>6, <2>1 DEF C!Applied
  <2> QED
    BY <1>0, <1>6, <2>1, <2>2 DEF SrvStates
<1>7. CASE w.kind = "billing"
  <2>1. C!Applied(w) = srv
    BY <1>7 DEF C!Applied
  <2> QED
    BY <1>0, <1>7, <2>1
<1> QED
  BY <1>1, <1>2, <1>3, <1>4, <1>5, <1>6, <1>7 DEF SaveKinds

\* A request under way becomes one that was answered.
LEMMA Resolved ==
    ASSUME CardsInv, NEW w \in saves, w.st = "sent", NEW v \in Saves, v.n = w.n, v.kind = w.kind, v.body = w.body,
           v.heard = w.heard, v.st \in {"ok", "failed"}, saves' = (saves \ {w}) \cup {v}, clicks'.n = clicks.n, cards' = cards
    PROVE  /\ SavesFit' /\ FormOwn' /\ BillingFits'
           /\ Cardinality(CardSent)' = Cardinality(CardSent) - 1
           /\ \A k \in Adders : /\ k = w.kind => /\ Cardinality(KindSent(k))' = Cardinality(KindSent(k)) - 1
                                                 /\ v.st = "ok" => KindSlot(k)' = KindSlot(k)
                                /\ k # w.kind => Cardinality(KindSent(k))' = Cardinality(KindSent(k)) /\ KindSlot(k)' = KindSlot(k)
<1>0. SavesFit /\ FormOwn /\ BillingFits /\ w \in Saves /\ w.n \in Nat
      /\ \A s, t \in saves : s.n = t.n => s = t
  BY DEF CardsInv, SavesFit, Saves
<1>1. SavesFit'
  <2>1. saves' \subseteq Saves
    BY <1>0 DEF SavesFit
  <2>2. \A s \in saves' : s.n < clicks'.n /\ BodyFits(s.kind, s.body)
    BY <1>0 DEF SavesFit
  <2>3. \A s, t \in saves' : s.n = t.n => s = t
    BY <1>0
  <2> QED
    BY <2>1, <2>2, <2>3 DEF SavesFit, BodyFits
<1>2. FormOwn' /\ BillingFits'
  BY <1>0 DEF FormOwn, BillingFits
<1>3. CardSent' = CardSent \ {w.n} /\ w.n \in CardSent
  BY <1>0 DEF CardSent
<1>4. Cardinality(CardSent)' = Cardinality(CardSent) - 1
  BY <1>3, CardFacts, FS_RemoveElement
<1>5. ASSUME NEW k \in Adders, k = w.kind
      PROVE  /\ Cardinality(KindSent(k))' = Cardinality(KindSent(k)) - 1
             /\ v.st = "ok" => KindSlot(k)' = KindSlot(k)
  <2>1. KindSent(k)' = KindSent(k) \ {w.n} /\ w.n \in KindSent(k)
    BY <1>0, <1>5 DEF KindSent
  <2>2. IsFiniteSet(KindSent(k))
    BY <1>5, CardFacts
  <2>3. Cardinality(KindSent(k))' = Cardinality(KindSent(k)) - 1
    BY <2>1, <2>2, FS_RemoveElement
  <2>4. v.st = "ok" => (KindHeard(k)' <=> KindHeard(k))
    BY DEF KindHeard
  <2>5. FormReady(k)' <=> FormReady(k)
    BY DEF FormReady
  <2> QED
    BY <2>3, <2>4, <2>5 DEF KindSlot
<1>6. ASSUME NEW k \in Adders, k # w.kind
      PROVE  Cardinality(KindSent(k))' = Cardinality(KindSent(k)) /\ KindSlot(k)' = KindSlot(k)
  <2>1. KindSent(k)' = KindSent(k)
    BY <1>0, <1>6 DEF KindSent
  <2>2. KindHeard(k)' <=> KindHeard(k)
    BY <1>6 DEF KindHeard
  <2>3. FormReady(k)' <=> FormReady(k)
    BY DEF FormReady
  <2> QED
    BY <2>1, <2>2, <2>3 DEF KindSlot
<1> QED
  BY <1>1, <1>2, <1>4, <1>5, <1>6

\* The server takes a request, or it fails.
LEMMA TakeKeeps ==
    ASSUME CardsInv, NEW w \in saves, C!ServerTakes(w)
    PROVE  CardsInv' /\ (srv.topic # 0 => srv'.topic # 0)
<1>0. /\ CardTypes /\ SavesFit /\ AddsFit /\ ToggleFits /\ w \in Saves /\ w.st = "sent"
      /\ clicks \in ClickCounts /\ clicks.n \in Nat /\ clicks.lost \in Nat
  BY CardFacts DEF CardsInv, CardTypes, SavesFit, C!ServerTakes
<1>1. UNCHANGED <<list, hh, cards>>
  BY DEF C!ServerTakes
<1>2. PICK st \in {"ok", "failed"} :
         /\ saves' = (saves \ {w}) \cup {[w EXCEPT !.st = st]}
         /\ \/ st = "failed" /\ UNCHANGED <<srv, clicks>>
            \/ st = "ok" /\ srv' = C!Applied(w) /\ UNCHANGED clicks
            \/ st = "failed" /\ srv' = C!Applied(w) /\ clicks' = [clicks EXCEPT !.lost = @ + 1]
  BY DEF C!ServerTakes
<1>3. PICK v \in Saves : /\ saves' = (saves \ {w}) \cup {v} /\ v.n = w.n /\ v.kind = w.kind /\ v.body = w.body
                         /\ v.heard = w.heard /\ v.st = st
  <2>1. [w EXCEPT !.st = st] \in Saves
    BY <1>0 DEF Saves
  <2> QED
    BY <1>0, <1>2, <2>1 DEF Saves
<1>4. /\ clicks' \in ClickCounts /\ clicks'.n = clicks.n /\ clicks'.adds = clicks.adds /\ clicks'.icals = clicks.icals
      /\ clicks'.elsewhere = clicks.elsewhere /\ clicks'.left = clicks.left
      /\ clicks'.lost = clicks.lost \/ (clicks'.lost = clicks.lost + 1 /\ st = "failed")
      /\ st = "failed" => clicks'.lost = clicks.lost + 1 \/ srv' = srv
  <2>1. CASE clicks' = [clicks EXCEPT !.lost = @ + 1] /\ st = "failed"
    <3>1. PICK l \in Nat : l = clicks.lost + 1
      BY <1>0
    <3>2. clicks' = [clicks EXCEPT !.lost = l]
      BY <2>1, <3>1
    <3> QED
      BY <1>0, <2>1, <3>1, <3>2 DEF ClickCounts
  <2>2. CASE UNCHANGED clicks /\ (st = "failed" => srv' = srv)
    BY <1>0, <2>2
  <2> QED
    BY <1>2, <2>1, <2>2
<1>5. /\ srv' \in SrvStates /\ (srv.topic # 0 => srv'.topic # 0)
      /\ srv'.added = srv.added \/ (srv'.added = srv.added + 1 /\ w.kind = "create" /\ srv' = C!Applied(w))
      /\ srv'.calendars = srv.calendars \/ (srv'.calendars = srv.calendars + 1 /\ w.kind = "ical" /\ srv' = C!Applied(w))
      /\ srv'.kiosk = srv.kiosk \/ w.kind = "settings"
  <2>1. CASE srv' = C!Applied(w)
    BY <2>1, AppliedFacts
  <2>2. CASE srv' = srv
    BY <1>0, <2>2 DEF CardTypes
  <2> QED
    BY <1>2, <2>1, <2>2
<1>6. CardTypes'
  BY <1>0, <1>1, <1>4, <1>5 DEF CardTypes
<1>7. /\ SavesFit' /\ FormOwn' /\ BillingFits' /\ Cardinality(CardSent)' = Cardinality(CardSent) - 1
      /\ \A k \in Adders : /\ k = w.kind => /\ Cardinality(KindSent(k))' = Cardinality(KindSent(k)) - 1
                                            /\ v.st = "ok" => KindSlot(k)' = KindSlot(k)
                           /\ k # w.kind => Cardinality(KindSent(k))' = Cardinality(KindSent(k)) /\ KindSlot(k)' = KindSlot(k)
  BY <1>0, <1>1, <1>3, <1>4, Resolved
<1>8. clicks'.lost + Cardinality(CardSent)' <= clicks'.n
  BY <1>0, <1>4, <1>7, CardFacts DEF AddsFit
<1>9. ASSUME NEW k \in Adders
      PROVE  /\ Made(k)' + Cardinality(CardSent)' <= clicks'.n
             /\ Made(k)' + Cardinality(KindSent(k))' + KindSlot(k)' <= Filled(k)' + clicks'.lost
  <2>1. /\ Filled(k)' = Filled(k) /\ KindSlot(k)' \in {0, 1}
        /\ Made(k)' = Made(k) \/ (Made(k)' = Made(k) + 1 /\ k = w.kind /\ srv' = C!Applied(w))
    BY <1>4, <1>5 DEF Made, Filled, KindSlot, Adders
  <2>2. Made(k) + Cardinality(CardSent) <= clicks.n
        /\ Made(k) + Cardinality(KindSent(k)) + KindSlot(k) <= Filled(k) + clicks.lost
    BY <1>0, <1>9 DEF AddsFit
  <2>3. Made(k) \in Nat /\ Filled(k) \in Nat /\ Cardinality(KindSent(k)) \in Nat
        /\ KindSlot(k) \in {0, 1} /\ Cardinality(CardSent) \in Nat
    BY <1>9, CardFacts
  <2>4. Made(k)' + Cardinality(CardSent)' <= clicks'.n
    BY <1>0, <1>4, <1>7, <2>1, <2>2, <2>3
  <2>5. CASE k # w.kind
    BY <1>0, <1>4, <1>7, <2>1, <2>2, <2>3, <2>4, <2>5
  <2>6. CASE k = w.kind /\ st = "ok"
    BY <1>0, <1>3, <1>4, <1>7, <2>1, <2>2, <2>3, <2>4, <2>6
  <2>7. CASE k = w.kind /\ st = "failed"
    <3>1. Made(k)' = Made(k) \/ clicks'.lost = clicks.lost + 1
      <4>1. srv' = srv => Made(k)' = Made(k)
        BY DEF Made
      <4> QED
        BY <1>4, <2>1, <2>7, <4>1
    <3> QED
      BY <1>0, <1>4, <1>7, <2>1, <2>2, <2>3, <2>4, <2>7, <3>1
  <2> QED
    BY <2>5, <2>6, <2>7
<1>10. AddsFit'
  BY <1>8, <1>9 DEF AddsFit
<1>11. ToggleFits'
  <2>1. SUFFICES ASSUME Undisturbed'
                 PROVE  ToggleFits'
    BY DEF ToggleFits
  <2>2. Undisturbed /\ clicks'.lost # clicks.lost + 1
    BY <1>0, <1>4, <2>1 DEF Undisturbed
  <2>3. CASE w.kind = "settings"
    <3>1. Toggles = {w} /\ Toggles' = {v}
      BY <1>0, <1>3, <2>2, <2>3 DEF ToggleFits, Toggles
    <3>2. w.heard = "card" /\ cards.optimistic = {w.body.kiosk}
      BY <1>0, <2>2, <3>1 DEF ToggleFits
    <3>3. st = "ok" => srv'.kiosk = w.body.kiosk
      BY <1>2, <2>3, AppliedFacts
    <3>4. st = "failed" => srv' = srv
      BY <1>2, <1>4, <2>2
    <3> QED
      BY <1>0, <1>1, <1>2, <1>3, <2>2, <3>1, <3>2, <3>3, <3>4 DEF ToggleFits
  <2>4. CASE w.kind # "settings"
    <3>1. Toggles' = Toggles /\ srv'.kiosk = srv.kiosk
      BY <1>3, <1>5, <2>4 DEF Toggles
    <3> QED
      BY <1>0, <1>1, <1>3, <2>2, <3>1 DEF ToggleFits
  <2> QED
    BY <2>3, <2>4
<1> QED
  BY <1>5, <1>6, <1>7, <1>10, <1>11 DEF CardsInv

\* The page is mounted anew, and hears the requests under way differently.
LEMMA MountedAnew ==
    ASSUME CardsInv, CardTypes', ToggleFits', UNCHANGED srv, NEW R \in SUBSET saves, \A r \in saves \ R : r.st # "sent",
           saves' \subseteq Saves,
           \A s \in saves' : \E r \in R : s.n = r.n /\ s.kind = r.kind /\ s.body = r.body /\ s.st = r.st,
           \A r \in R : \E s \in saves' : s.n = r.n /\ s.kind = r.kind /\ s.body = r.body /\ s.st = r.st,
           \A s, t \in saves' : s.n = t.n => s = t,
           cards'.member.open = FALSE, cards'.ical = FALSE, cards'.busy = FALSE, clicks'.n >= clicks.n,
           clicks'.lost = clicks.lost, clicks'.adds = clicks.adds, clicks'.icals = clicks.icals
    PROVE  CardsInv'
<1>0. SavesFit /\ AddsFit /\ clicks.n \in Nat /\ clicks'.n \in Nat /\ clicks.lost \in Nat
  BY CardFacts DEF CardsInv, CardTypes, ClickCounts
<1>1. SavesFit'
  <2>1. \A r \in saves : r.n \in Nat /\ r.n < clicks'.n /\ BodyFits(r.kind, r.body)
    BY <1>0 DEF SavesFit, Saves
  <2>2. \A s \in saves' : s.n < clicks'.n /\ BodyFits(s.kind, s.body)
    BY <2>1
  <2> QED
    BY <2>2 DEF SavesFit, BodyFits
<1>2. FormOwn' /\ BillingFits'
  BY DEF FormOwn, BillingFits
<1>3. CardSent' = CardSent
  BY DEF CardSent
<1>4. clicks'.lost + Cardinality(CardSent)' <= clicks'.n
  BY <1>0, <1>3, CardFacts DEF AddsFit
<1>5. ASSUME NEW k \in Adders
      PROVE  /\ Made(k)' + Cardinality(CardSent)' <= clicks'.n
             /\ Made(k)' + Cardinality(KindSent(k))' + KindSlot(k)' <= Filled(k)' + clicks'.lost
  <2>1. Made(k)' = Made(k) /\ Filled(k)' = Filled(k) /\ ~FormReady(k)'
    BY DEF Made, Filled, FormReady
  <2>2. KindSent(k)' = KindSent(k)
    BY DEF KindSent
  <2>3. KindSlot(k)' = 0
    BY <2>1 DEF KindSlot
  <2>4. Made(k) + Cardinality(CardSent) <= clicks.n
        /\ Made(k) + Cardinality(KindSent(k)) + KindSlot(k) <= Filled(k) + clicks.lost
    BY <1>0, <1>5 DEF AddsFit
  <2>5. Made(k) \in Nat /\ Filled(k) \in Nat /\ Cardinality(KindSent(k)) \in Nat
        /\ KindSlot(k) \in {0, 1} /\ Cardinality(CardSent) \in Nat
    BY <1>5, CardFacts
  <2> QED
    BY <1>0, <1>3, <2>1, <2>2, <2>3, <2>4, <2>5
<1>6. AddsFit'
  BY <1>4, <1>5 DEF AddsFit
<1> QED
  BY <1>1, <1>2, <1>6 DEF CardsInv

\* The checkout's URL takes the browser away, and it comes back to a loaded page.
LEMMA CheckoutKeeps ==
    ASSUME CardsInv, NEW w \in saves, w.st # "sent", C!Loaded(saves \ {w}), UNCHANGED srv,
           clicks' = [clicks EXCEPT !.left = IF saves = {w} THEN @ ELSE 1]
    PROVE  CardsInv'
<1>0. CardTypes /\ SavesFit /\ saves \subseteq Saves /\ srv \in SrvStates /\ clicks \in ClickCounts
  BY DEF CardsInv, CardTypes, SavesFit
<1>1. srv.members \in MemberRows /\ srv.prefs \in BOOLEAN /\ srv.kiosk \in BOOLEAN
  BY <1>0 DEF SrvStates
<1>2. /\ cards' \in CardStates /\ cards'.member.open = FALSE /\ cards'.optimistic = {}
      /\ cards'.ical = FALSE /\ cards'.busy = FALSE
  BY <1>1, MountedTyped DEF C!Loaded
<1>3. list' \in ListStates /\ hh' \in HhStates /\ hh'.kiosk = srv.kiosk /\ hh'.fetch.st = "idle"
  BY <1>1, FetchesTyped DEF C!Loaded, ListStates, HhStates
<1>4. /\ clicks' \in ClickCounts /\ clicks'.n = clicks.n /\ clicks'.adds = clicks.adds /\ clicks'.icals = clicks.icals
      /\ clicks'.lost = clicks.lost /\ (saves # {w} => clicks'.left = 1)
  <2>1. PICK l \in 0..1 : l = (IF saves = {w} THEN clicks.left ELSE 1) /\ (saves # {w} => l = 1)
    BY <1>0 DEF ClickCounts
  <2>2. clicks' = [clicks EXCEPT !.left = l]
    BY <2>1
  <2> QED
    BY <1>0, <2>1, <2>2 DEF ClickCounts
<1>5. CardTypes'
  BY <1>0, <1>2, <1>3, <1>4 DEF CardTypes
<1>6. PICK R \in SUBSET saves : R = saves \ {w}
  OBVIOUS
<1>7. saves' = {[s EXCEPT !.heard = "none"] : s \in R}
  BY <1>6 DEF C!Loaded
<1>8. \A s \in Saves : \E t \in Saves : /\ t = [s EXCEPT !.heard = "none"]
                                        /\ t.n = s.n /\ t.kind = s.kind /\ t.body = s.body /\ t.st = s.st
  <2>1. SUFFICES ASSUME NEW s \in Saves
                 PROVE  \E t \in Saves : /\ t = [s EXCEPT !.heard = "none"]
                                         /\ t.n = s.n /\ t.kind = s.kind /\ t.body = s.body /\ t.st = s.st
    OBVIOUS
  <2>2. [s EXCEPT !.heard = "none"] \in Saves
    BY DEF Saves
  <2> QED
    BY <2>2 DEF Saves
<1>9. R \subseteq Saves /\ \A r \in saves \ R : r.st # "sent"
  BY <1>0, <1>6
<1>10. saves' \subseteq Saves
  BY <1>7, <1>8, <1>9
<1>11. \A s \in saves' : \E r \in R : s.n = r.n /\ s.kind = r.kind /\ s.body = r.body /\ s.st = r.st
  BY <1>7, <1>8, <1>9
<1>12. \A r \in R : \E s \in saves' : s.n = r.n /\ s.kind = r.kind /\ s.body = r.body /\ s.st = r.st
  BY <1>7, <1>8, <1>9
<1>13. \A s, t \in saves' : s.n = t.n => s = t
  <2>1. \A r, q \in R : r.n = q.n => r = q
    BY <1>0 DEF SavesFit
  <2>2. \A s \in saves' : \E r \in R : s = [r EXCEPT !.heard = "none"] /\ s.n = r.n
    BY <1>7, <1>8, <1>9
  <2> QED
    BY <2>1, <2>2
<1>14. ToggleFits'
  <2>1. SUFFICES ASSUME Undisturbed'
                 PROVE  ToggleFits'
    BY DEF ToggleFits
  <2>2. R = {}
    BY <1>4, <1>6, <2>1 DEF Undisturbed
  <2>3. saves' = {} /\ Toggles' = {}
    BY <1>7, <2>2 DEF Toggles
  <2> QED
    BY <1>2, <1>3, <2>3 DEF ToggleFits
<1>15. clicks'.n >= clicks.n
  BY <1>4, CardFacts
<1> QED
  BY <1>2, <1>4, <1>5, <1>9, <1>10, <1>11, <1>12, <1>13, <1>14, <1>15, MountedAnew

\* Another page and back.
LEMMA RevisitKeeps ==
    ASSUME CardsInv, C!Revisit
    PROVE  CardsInv'
<1>0. CardTypes /\ SavesFit /\ ToggleFits /\ saves \subseteq Saves /\ list \in ListStates /\ hh \in HhStates /\ clicks \in ClickCounts
  BY DEF CardsInv, CardTypes, SavesFit
<1>1. UNCHANGED srv /\ C!Clicked
  BY DEF C!Revisit
<1>2. /\ cards' \in CardStates /\ cards'.member.open = FALSE /\ cards'.optimistic = {}
      /\ cards'.ical = FALSE /\ cards'.busy = FALSE
  <2>1. list.prefs \in BOOLEAN
    BY <1>0 DEF ListStates
  <2> QED
    BY <2>1, MountedTyped DEF C!Revisit
<1>3. list' \in ListStates /\ hh' \in HhStates /\ (hh' = hh \/ hh'.fetch.st = "asked")
  BY <1>0, FetchesTyped DEF C!Revisit, ListStates, HhStates
<1>4. /\ clicks' \in ClickCounts /\ clicks'.n = clicks.n + 1 /\ clicks'.adds = clicks.adds /\ clicks'.icals = clicks.icals
      /\ clicks'.lost = clicks.lost /\ clicks'.elsewhere = clicks.elsewhere /\ clicks'.n <= MaxClicks
      /\ (IF saves = {} THEN clicks'.left = clicks.left ELSE clicks'.left = 1)
  <2>1. PICK l \in 0..1 : /\ l = (IF saves = {} THEN clicks.left ELSE 1)
                          /\ (IF saves = {} THEN l = clicks.left ELSE l = 1)
    BY <1>0 DEF ClickCounts
  <2>2. PICK m \in Nat : m = clicks.n + 1 /\ m <= MaxClicks
    BY <1>1, CardFacts DEF C!Clicked
  <2>3. clicks' = [clicks EXCEPT !.n = m, !.left = l]
    BY <2>1, <2>2 DEF C!Revisit
  <2> QED
    BY <1>0, <2>1, <2>2, <2>3 DEF ClickCounts
<1>5. CardTypes'
  <2>1. clicks'.adds <= clicks'.n /\ clicks'.icals <= clicks'.n
    BY <1>0, <1>4, CardFacts DEF CardTypes
  <2> QED
    BY <1>0, <1>1, <1>2, <1>3, <1>4, <2>1 DEF CardTypes
<1>7. saves' = {[s EXCEPT !.heard = IF @ = "card" THEN "page" ELSE @] : s \in saves}
  BY DEF C!Revisit
<1>8. \A s \in Saves : \E t \in Saves : /\ t = [s EXCEPT !.heard = IF @ = "card" THEN "page" ELSE @]
                                        /\ t.n = s.n /\ t.kind = s.kind /\ t.body = s.body /\ t.st = s.st
  <2>1. SUFFICES ASSUME NEW s \in Saves
                 PROVE  \E t \in Saves : /\ t = [s EXCEPT !.heard = IF @ = "card" THEN "page" ELSE @]
                                         /\ t.n = s.n /\ t.kind = s.kind /\ t.body = s.body /\ t.st = s.st
    OBVIOUS
  <2>2. PICK h \in {"card", "page", "none"} : h = IF s.heard = "card" THEN "page" ELSE s.heard
    BY DEF Saves
  <2>3. [s EXCEPT !.heard = IF @ = "card" THEN "page" ELSE @] = [s EXCEPT !.heard = h]
    BY <2>2
  <2>4. [s EXCEPT !.heard = h] \in Saves
    BY DEF Saves
  <2> QED
    BY <2>3, <2>4 DEF Saves
<1>10. saves' \subseteq Saves
  BY <1>0, <1>7, <1>8
<1>11. \A s \in saves' : \E r \in saves : s.n = r.n /\ s.kind = r.kind /\ s.body = r.body /\ s.st = r.st
  BY <1>0, <1>7, <1>8
<1>12. \A r \in saves : \E s \in saves' : s.n = r.n /\ s.kind = r.kind /\ s.body = r.body /\ s.st = r.st
  BY <1>0, <1>7, <1>8
<1>13. \A s, t \in saves' : s.n = t.n => s = t
  <2>1. \A r, q \in saves : r.n = q.n => r = q
    BY <1>0 DEF SavesFit
  <2>2. \A s \in saves' : \E r \in saves : s = [r EXCEPT !.heard = IF @ = "card" THEN "page" ELSE @] /\ s.n = r.n
    BY <1>0, <1>7, <1>8
  <2> QED
    BY <2>1, <2>2
<1>14. ToggleFits'
  <2>1. SUFFICES ASSUME Undisturbed'
                 PROVE  ToggleFits'
    BY DEF ToggleFits
  <2>2. saves = {} /\ Undisturbed
    BY <1>4, <2>1 DEF Undisturbed
  <2>3. saves' = {} /\ Toggles' = {} /\ Toggles = {}
    BY <1>7, <2>2 DEF Toggles
  <2> QED
    BY <1>0, <1>1, <1>2, <1>3, <2>2, <2>3 DEF ToggleFits
<1>15. clicks'.n >= clicks.n
  BY <1>4, CardFacts
<1> QED
  BY <1>1, <1>2, <1>4, <1>5, <1>10, <1>11, <1>12, <1>13, <1>14, <1>15, MountedAnew

\* The cards after an answer.
LEMMA HeardFacts ==
    ASSUME CardsInv, NEW w \in saves, w.st # "sent", ~(w.kind = "billing" /\ w.st = "ok"), w.heard = "card"
    PROVE  /\ C!Heard(w) \in CardStates /\ (C!Heard(w).member.open => C!Heard(w).member = cards.member)
           /\ C!Heard(w).ical => cards.ical
           /\ \A k \in Adders : k = w.kind /\ w.st = "ok" => IF k = "create" THEN ~C!Heard(w).member.open ELSE ~C!Heard(w).ical
           /\ C!Heard(w).busy => cards.busy /\ w.kind # "billing"
           /\ C!Heard(w).optimistic = IF w.kind = "settings" /\ w.st = "failed" THEN {} ELSE cards.optimistic
<1>0. cards \in CardStates /\ cards.member \in CardForms /\ w \in Saves
  BY DEF CardsInv, CardTypes, CardStates, SavesFit
<1>1. w.kind \in SaveKinds /\ w.st \in {"ok", "failed"}
  BY <1>0 DEF Saves
<1>2. CASE w.kind \in {"create", "update"} /\ w.st = "ok"
  <2>0. C!Fresh \in CardIds
    BY DEF CardIds
  <2>1. PICK m \in CardForms : m = [cards.member EXCEPT !.open = FALSE, !.editingId = C!Fresh]
    BY <1>0, <2>0 DEF CardForms
  <2>2. m.open = FALSE
    BY <1>0, <2>1 DEF CardForms
  <2>3. C!Heard(w) = [cards EXCEPT !.member = m]
    BY <1>0, <1>2, <2>1 DEF C!Heard, CardStates, CardForms
  <2> QED
    BY <1>0, <1>2, <2>2, <2>3 DEF CardStates, Adders
<1>3. CASE w.kind = "settings" /\ w.st = "failed"
  <2>1. C!Heard(w) = [cards EXCEPT !.optimistic = {}]
    BY <1>3 DEF C!Heard
  <2> QED
    BY <1>0, <1>3, <2>1 DEF CardStates, Adders
<1>4. CASE w.kind = "ical" /\ w.st = "ok"
  <2>1. C!Heard(w) = [cards EXCEPT !.ical = FALSE, !.showForm = FALSE]
    BY <1>4 DEF C!Heard
  <2> QED
    BY <1>0, <1>4, <2>1 DEF CardStates, Adders
<1>5. CASE w.kind = "billing"
  <2>1. C!Heard(w) = [cards EXCEPT !.busy = FALSE]
    BY <1>5 DEF C!Heard
  <2> QED
    BY <1>0, <1>5, <2>1 DEF CardStates, Adders
<1>6. CASE /\ ~(w.kind \in {"create", "update"} /\ w.st = "ok") /\ ~(w.kind = "settings" /\ w.st = "failed")
           /\ ~(w.kind = "ical" /\ w.st = "ok") /\ w.kind # "billing"
  <2>1. C!Heard(w) = cards
    BY <1>6 DEF C!Heard
  <2> QED
    BY <1>0, <1>6, <2>1 DEF Adders
<1> QED
  BY <1>2, <1>3, <1>4, <1>5, <1>6

\* An answer arrives.
LEMMA CardAnswerKeeps ==
    ASSUME CardsInv, NEW w \in saves, C!Answered(w)
    PROVE  CardsInv' /\ UNCHANGED srv
<1>0. /\ CardTypes /\ SavesFit /\ FormOwn /\ AddsFit /\ ToggleFits /\ BillingFits /\ w \in Saves /\ w.st # "sent"
      /\ UNCHANGED srv /\ w.st \in {"ok", "failed"} /\ list \in ListStates /\ hh \in HhStates /\ cards \in CardStates
  BY DEF CardsInv, CardTypes, SavesFit, Saves, C!Answered
<1>1. CASE w.kind = "billing" /\ w.st = "ok" /\ w.heard # "none"
  <2>1. C!Loaded(saves \ {w}) /\ clicks' = [clicks EXCEPT !.left = IF saves = {w} THEN @ ELSE 1]
    BY <1>1 DEF C!Answered
  <2> QED
    BY <1>0, <2>1, CheckoutKeeps
<1>2. CASE ~(w.kind = "billing" /\ w.st = "ok" /\ w.heard # "none")
  <2>1. /\ saves' = saves \ {w} /\ UNCHANGED clicks
        /\ cards' = IF w.heard = "card" THEN C!Heard(w) ELSE cards
        /\ list' = list \/ list' = [list EXCEPT !.fetch = C!AskedFetch]
        /\ hh' = IF w.st = "ok" /\ w.heard # "none" /\ w.kind = "settings" THEN [hh EXCEPT !.fetch = C!AskedFetch] ELSE hh
    BY <1>2 DEF C!Answered, C!InvalidatesHousehold
  <2>2. /\ cards' \in CardStates /\ (cards'.member.open => cards'.member = cards.member)
        /\ cards'.ical => cards.ical
        /\ \A k \in Adders : k = w.kind /\ w.st = "ok" /\ w.heard = "card" => IF k = "create" THEN ~cards'.member.open ELSE ~cards'.ical
        /\ cards'.busy => cards.busy /\ ~(w.kind = "billing" /\ w.heard = "card")
        /\ cards'.optimistic = IF w.kind = "settings" /\ w.st = "failed" /\ w.heard = "card" THEN {} ELSE cards.optimistic
    <3>1. CASE w.heard = "card"
      <4>1. cards' = C!Heard(w) /\ ~(w.kind = "billing" /\ w.st = "ok")
        BY <1>2, <2>1, <3>1
      <4> QED
        BY <1>0, <3>1, <4>1, HeardFacts
    <3>2. CASE w.heard # "card"
      BY <1>0, <2>1, <3>2
    <3> QED
      BY <3>1, <3>2
  <2>3. list' \in ListStates
    BY <1>0, <2>1, FetchesTyped DEF ListStates
  <2>4. hh' \in HhStates /\ (hh' = hh \/ hh'.fetch.st = "asked")
    BY <1>0, <2>1, FetchesTyped DEF HhStates
  <2>5. CardTypes'
    BY <1>0, <2>1, <2>2, <2>3, <2>4 DEF CardTypes
  <2>6. SavesFit' /\ FormOwn' /\ BillingFits'
    <3>1. SavesFit'
      BY <1>0, <2>1 DEF SavesFit, BodyFits
    <3> QED
      BY <1>0, <2>1, <2>2, <3>1 DEF FormOwn, BillingFits
  <2>7. CardSent' = CardSent
    BY <1>0, <2>1 DEF CardSent
  <2>8. ASSUME NEW k \in Adders
        PROVE  /\ Made(k)' + Cardinality(CardSent)' <= clicks'.n
               /\ Made(k)' + Cardinality(KindSent(k))' + KindSlot(k)' <= Filled(k)' + clicks'.lost
    <3>1. Made(k)' = Made(k) /\ Filled(k)' = Filled(k) /\ KindSent(k)' = KindSent(k) /\ KindSlot(k)' \in {0, 1}
      BY <1>0, <2>1 DEF Made, Filled, KindSent, KindSlot
    <3>2. FormReady(k)' => FormReady(k)
      BY <2>2 DEF FormReady
    <3>3. KindSlot(k)' <= KindSlot(k)
      <4>1. CASE k = w.kind /\ w.st = "ok" /\ w.heard = "card"
        <5>1. ~FormReady(k)'
          BY <2>2, <2>8, <4>1 DEF FormReady
        <5> QED
          BY <5>1 DEF KindSlot
      <4>2. CASE ~(k = w.kind /\ w.st = "ok" /\ w.heard = "card")
        <5>1. KindHeard(k)' <=> KindHeard(k)
          BY <1>0, <2>1, <4>2 DEF KindHeard
        <5> QED
          BY <3>2, <5>1 DEF KindSlot
      <4> QED
        BY <4>1, <4>2
    <3>4. Made(k) + Cardinality(CardSent) <= clicks.n
          /\ Made(k) + Cardinality(KindSent(k)) + KindSlot(k) <= Filled(k) + clicks.lost
      BY <1>0, <2>8 DEF AddsFit
    <3>5. Made(k) \in Nat /\ Filled(k) \in Nat /\ Cardinality(KindSent(k)) \in Nat
          /\ KindSlot(k) \in {0, 1} /\ Cardinality(CardSent) \in Nat /\ clicks.n \in Nat /\ clicks.lost \in Nat
      BY <2>8, CardFacts
    <3> QED
      BY <2>1, <2>7, <3>1, <3>3, <3>4, <3>5
  <2>9. AddsFit'
    BY <1>0, <2>1, <2>7, <2>8 DEF AddsFit
  <2>10. ToggleFits'
    <3>1. SUFFICES ASSUME Undisturbed'
                   PROVE  ToggleFits'
      BY DEF ToggleFits
    <3>2. Undisturbed
      BY <2>1, <3>1 DEF Undisturbed
    <3>3. CASE w.kind = "settings"
      <4>1. Toggles = {w} /\ Toggles' = {} /\ w.heard = "card"
        BY <1>0, <2>1, <3>2, <3>3 DEF ToggleFits, Toggles
      <4>2. CASE w.st = "ok"
        <5>1. hh'.fetch.st = "asked"
          BY <1>0, <2>1, <3>3, <4>1, <4>2, FetchesTyped DEF HhStates
        <5>2. cards'.optimistic = {srv.kiosk}
          BY <1>0, <2>2, <3>2, <4>1, <4>2 DEF ToggleFits
        <5> QED
          BY <1>0, <2>1, <3>2, <4>1, <5>1, <5>2 DEF ToggleFits
      <4>3. CASE w.st = "failed"
        BY <1>0, <2>1, <2>2, <3>2, <3>3, <4>1, <4>3 DEF ToggleFits
      <4> QED
        BY <1>0, <4>2, <4>3
    <3>4. CASE w.kind # "settings"
      <4>1. Toggles' = Toggles /\ hh' = hh /\ cards'.optimistic = cards.optimistic
        BY <2>1, <2>2, <3>4 DEF Toggles
      <4> QED
        BY <1>0, <2>1, <3>2, <4>1 DEF ToggleFits
    <3> QED
      BY <3>3, <3>4
  <2> QED
    BY <1>0, <2>5, <2>6, <2>9, <2>10 DEF CardsInv
<1> QED
  BY <1>0, <1>1, <1>2

\* The page's fetches, and the other device.
LEMMA CardFetchKeeps ==
    ASSUME CardsInv, C!FetchServed \/ C!FetchFails \/ C!FetchLands \/ C!OtherDevice
    PROVE  CardsInv' /\ srv'.topic = srv.topic
<1>0. /\ CardTypes /\ FormOwn /\ ToggleFits /\ list \in ListStates /\ hh \in HhStates /\ srv \in SrvStates /\ clicks \in ClickCounts
      /\ list.fetch \in C!Fetches(MemberLists) /\ hh.fetch \in C!Fetches(BOOLEAN)
      /\ srv.members \in MemberRows /\ srv.prefs \in BOOLEAN /\ srv.kiosk \in BOOLEAN
  BY DEF CardsInv, CardTypes, ListStates, HhStates, SrvStates
<1>1. UNCHANGED <<cards, saves>>
  BY DEF C!FetchServed, C!FetchFails, C!FetchLands, C!OtherDevice
<1>2. /\ srv' \in SrvStates /\ srv'.added = srv.added /\ srv'.calendars = srv.calendars /\ srv'.topic = srv.topic
      /\ srv' = srv \/ C!OtherDevice
  <2>1. CASE UNCHANGED srv
    BY <1>0, <2>1
  <2>2. ASSUME C!OtherDevice, NEW m \in C!Members, NEW row \in 0..2, srv' = [srv EXCEPT !.members[m] = row]
        PROVE  srv' \in SrvStates /\ srv'.added = srv.added /\ srv'.calendars = srv.calendars /\ srv'.topic = srv.topic
    <3>1. PICK f \in MemberRows : f = [srv.members EXCEPT ![m] = row]
      BY <1>0 DEF MemberRows
    <3>2. srv' = [srv EXCEPT !.members = f]
      BY <1>0, <2>2, <3>1 DEF SrvStates
    <3> QED
      BY <1>0, <3>2 DEF SrvStates
  <2>3. CASE srv' = [srv EXCEPT !.kiosk = ~@] /\ C!OtherDevice
    <3>1. PICK b \in BOOLEAN : b = ~srv.kiosk
      OBVIOUS
    <3>2. srv' = [srv EXCEPT !.kiosk = b]
      BY <2>3, <3>1
    <3> QED
      BY <1>0, <2>3, <3>2 DEF SrvStates
  <2>4. CASE C!OtherDevice
    BY <2>2, <2>3, <2>4 DEF C!OtherDevice
  <2> QED
    BY <2>1, <2>4 DEF C!FetchServed, C!FetchFails, C!FetchLands
<1>3. /\ clicks' \in ClickCounts /\ clicks'.n >= clicks.n /\ clicks'.n <= MaxClicks
      /\ clicks'.adds = clicks.adds /\ clicks'.icals = clicks.icals
      /\ clicks'.lost = clicks.lost \/ (clicks'.lost = clicks.lost + 1 /\ clicks'.n = clicks.n + 1)
      /\ C!FetchFails => clicks'.lost # 0
      /\ C!OtherDevice => clicks'.elsewhere = 1
      /\ ~C!FetchFails /\ ~C!OtherDevice => clicks' = clicks
  <2>0. C!Clicked => clicks.n + 1 <= MaxClicks
    BY CardFacts DEF C!Clicked
  <2>1. PICK m \in Nat : m = clicks.n + 1 /\ m >= clicks.n
    BY CardFacts
  <2>2. PICK l \in Nat : l = clicks.lost + 1 /\ l # 0
    BY CardFacts
  <2>3. CASE C!FetchFails
    <3>1. clicks' = [clicks EXCEPT !.n = m, !.lost = l] /\ C!Clicked
      BY <2>1, <2>2, <2>3 DEF C!FetchFails
    <3>2. /\ clicks' \in ClickCounts /\ clicks'.n = m /\ clicks'.lost = l /\ clicks'.adds = clicks.adds
          /\ clicks'.icals = clicks.icals /\ clicks'.elsewhere = clicks.elsewhere
      BY <1>0, <3>1 DEF ClickCounts
    <3>3. C!OtherDevice => clicks'.lost = clicks.lost
      BY <1>0 DEF C!OtherDevice, ClickCounts
    <3>4. ~C!OtherDevice
      BY <2>2, <3>2, <3>3, CardFacts
    <3> QED
      BY <2>0, <2>1, <2>2, <2>3, <3>1, <3>2, <3>4
  <2>4. CASE C!OtherDevice /\ ~C!FetchFails
    <3>0. PICK e \in 0..1 : e = 1
      OBVIOUS
    <3>1. clicks' = [clicks EXCEPT !.n = m, !.elsewhere = e] /\ C!Clicked
      BY <2>1, <2>4, <3>0 DEF C!OtherDevice
    <3>2. /\ clicks' \in ClickCounts /\ clicks'.n = m /\ clicks'.lost = clicks.lost /\ clicks'.adds = clicks.adds
          /\ clicks'.icals = clicks.icals /\ clicks'.elsewhere = 1
      BY <1>0, <3>0, <3>1 DEF ClickCounts
    <3> QED
      BY <2>0, <2>1, <2>4, <3>1, <3>2
  <2>5. CASE (C!FetchServed \/ C!FetchLands) /\ ~C!FetchFails /\ ~C!OtherDevice
    <3>1. clicks' = clicks
      BY <2>5 DEF C!FetchServed, C!FetchLands
    <3> QED
      BY <1>0, <2>5, <3>1, CardFacts DEF CardTypes
  <2> QED
    BY <2>3, <2>4, <2>5
<1>4. list' \in ListStates
  <2>1. CASE UNCHANGED list
    BY <1>0, <2>1
  <2>2. CASE list' = [list EXCEPT !.fetch = C!IdleFetch]
    BY <1>0, <2>2, FetchesTyped DEF ListStates
  <2>3. CASE list' = [list EXCEPT !.fetch = [st |-> "served", got |-> [members |-> srv.members, prefs |-> srv.prefs]]]
    <3>1. PICK g \in MemberLists : g = [members |-> srv.members, prefs |-> srv.prefs]
      BY <1>0 DEF MemberLists
    <3>2. PICK f \in C!Fetches(MemberLists) : f = [st |-> "served", got |-> g]
      BY FetchesTyped
    <3>3. list' = [list EXCEPT !.fetch = f]
      BY <2>3, <3>1, <3>2
    <3> QED
      BY <1>0, <3>3 DEF ListStates
  <2>4. CASE /\ list.fetch.st = "served"
             /\ list' = [members |-> list.fetch.got.members, prefs |-> list.fetch.got.prefs, fetch |-> C!IdleFetch]
    <3>1. list.fetch.got \in MemberLists
      BY <1>0, <2>4, FetchesTyped
    <3>2. list.fetch.got.members \in MemberRows /\ list.fetch.got.prefs \in BOOLEAN
      BY <3>1 DEF MemberLists
    <3> QED
      BY <2>4, <3>2, FetchesTyped DEF ListStates
  <2> QED
    BY <2>1, <2>2, <2>3, <2>4 DEF C!FetchServed, C!FetchFails, C!FetchLands, C!OtherDevice
<1>5. hh' \in HhStates
  <2>1. CASE UNCHANGED hh
    BY <1>0, <2>1
  <2>2. CASE hh' = [hh EXCEPT !.fetch = C!IdleFetch]
    BY <1>0, <2>2, FetchesTyped DEF HhStates
  <2>3. CASE hh' = [hh EXCEPT !.fetch = [st |-> "served", got |-> srv.kiosk]]
    <3>1. PICK f \in C!Fetches(BOOLEAN) : f = [st |-> "served", got |-> srv.kiosk]
      BY <1>0, FetchesTyped
    <3> QED
      BY <1>0, <2>3, <3>1 DEF HhStates
  <2>4. CASE hh.fetch.st = "served" /\ hh' = [kiosk |-> hh.fetch.got, fetch |-> C!IdleFetch]
    <3>1. hh.fetch.got \in BOOLEAN
      BY <1>0, <2>4, FetchesTyped
    <3> QED
      BY <2>4, <3>1, FetchesTyped DEF HhStates
  <2> QED
    BY <2>1, <2>2, <2>3, <2>4 DEF C!FetchServed, C!FetchFails, C!FetchLands, C!OtherDevice
<1>6. CardTypes' /\ FormOwn'
  <2>1. clicks'.adds <= clicks'.n /\ clicks'.icals <= clicks'.n
    <3>1. clicks'.n \in Nat
      BY <1>3 DEF ClickCounts
    <3> QED
      BY <1>0, <1>3, <3>1, CardFacts DEF CardTypes
  <2> QED
    BY <1>0, <1>1, <1>2, <1>3, <1>4, <1>5, <2>1 DEF CardTypes, FormOwn
<1>7. ToggleFits'
  <2>1. SUFFICES ASSUME Undisturbed'
                 PROVE  ToggleFits'
    BY DEF ToggleFits
  <2>2. ~C!FetchFails /\ ~C!OtherDevice
    BY <1>3, <2>1 DEF Undisturbed
  <2>3. Undisturbed /\ srv' = srv /\ Toggles' = Toggles
    BY <1>1, <1>2, <1>3, <2>1, <2>2 DEF Undisturbed, Toggles
  <2>4. CASE hh' = hh
    BY <1>0, <1>1, <2>3, <2>4 DEF ToggleFits
  <2>5. CASE hh' = [hh EXCEPT !.fetch = [st |-> "served", got |-> srv.kiosk]]
    <3>1. hh'.fetch.st = "served" /\ hh'.fetch.got = srv.kiosk
      BY <1>0, <2>5 DEF HhStates
    <3> QED
      BY <1>0, <1>1, <2>3, <3>1 DEF ToggleFits
  <2>6. CASE hh.fetch.st = "served" /\ hh' = [kiosk |-> hh.fetch.got, fetch |-> C!IdleFetch]
    <3>1. hh'.fetch.st = "idle" /\ hh'.kiosk = hh.fetch.got
      BY <2>6 DEF C!IdleFetch
    <3> QED
      BY <1>0, <1>1, <2>3, <2>6, <3>1 DEF ToggleFits
  <2> QED
    BY <2>2, <2>4, <2>5, <2>6 DEF C!FetchServed, C!FetchLands
<1>8. \A k \in Adders : Filled(k)' = Filled(k) /\ (FormReady(k)' => FormReady(k))
  BY <1>1, <1>3 DEF Filled, FormReady
<1> QED
  BY <1>1, <1>2, <1>3, <1>6, <1>7, <1>8, CardsKept

\* Every step of the settings.
LEMMA CardsNextKeeps ==
    ASSUME CardsInv, C!CardsNext
    PROVE  CardsInv' /\ (srv.topic # 0 => srv'.topic # 0)
<1>1. CASE C!openAdd \/ C!cancelForm \/ C!setForm \/ \E m \in C!Members : C!openEdit(m)
  <2>1. UNCHANGED srv
    BY <1>1 DEF C!openAdd, C!cancelForm, C!setForm, C!openEdit
  <2> QED
    BY <1>1, <2>1, FormKeeps
<1>2. CASE C!setNotify \/ C!setIcal \/ C!setShowForm
  <2>1. UNCHANGED srv
    BY <1>2 DEF C!setNotify, C!setIcal, C!setShowForm
  <2> QED
    BY <1>2, <2>1, FieldsKeep
<1>3. CASE C!handleSubmit \/ (\E m \in C!Members : C!handleDelete(m)) \/ C!handleToggle \/ C!handleSave
           \/ C!submitIcal \/ C!handleBilling
  <2>1. UNCHANGED srv
    BY <1>3 DEF C!handleSubmit, C!handleDelete, C!handleToggle, C!handleSave, C!submitIcal, C!handleBilling
  <2> QED
    BY <1>3, <2>1, SubmitKeeps, DeleteKeeps, ToggleKeeps, NotifyKeeps, IcalKeeps, BillingKeeps
<1>4. CASE \E w \in saves : C!ServerTakes(w)
  BY <1>4, TakeKeeps
<1>5. CASE \E w \in saves : C!Answered(w)
  BY <1>5, CardAnswerKeeps
<1>6. CASE C!FetchServed \/ C!FetchFails \/ C!FetchLands \/ C!OtherDevice
  BY <1>6, CardFetchKeeps
<1>7. CASE C!Revisit
  <2>1. UNCHANGED srv
    BY <1>7 DEF C!Revisit
  <2> QED
    BY <1>7, <2>1, RevisitKeeps
<1> QED
  BY <1>1, <1>2, <1>3, <1>4, <1>5, <1>6, <1>7 DEF C!CardsNext

-----------------------------------------------------------------------------
(* The calendar's views, of any rows.                                      *)

\* The views' lists are those of Listings.
LEMMA ViewLists ==
    /\ \A s, T : V!Filtered(s, T) = Filtered(s, T)
    /\ \A s, R : V!Arranged(s, R) = Arranged(s, R)
    /\ \A key : V!ByKey(key) = ByKey(key)
    /\ \A ss : V!Flattened(ss) = Flattened(ss) /\ V!Cells(ss) = Cells(ss)
    /\ \A s : V!Elements(s) = Elements(s)
    /\ \A S : V!Listing(S, V!Ascending(S)) = Listing(S, Ascending(S))
<1>0. \A S : V!Cardinality(S) = Cardinality(S)
  BY DEF V!Cardinality, Cardinality
<1>1. ASSUME NEW S, NEW R PROVE V!Listing(S, R) = Listing(S, R)
  <2>1. PICK up : up = [x \in S |-> Cardinality({y \in S : <<y, x>> \in R})]
    OBVIOUS
  <2>2. \A x \in S : V!Cardinality({y \in S : <<y, x>> \in R}) = up[x] /\ Cardinality({y \in S : <<y, x>> \in R}) = up[x]
    BY <1>0, <2>1
  <2>3. \A n : (CHOOSE x \in S : V!Cardinality({y \in S : <<y, x>> \in R}) = n)
                = (CHOOSE x \in S : Cardinality({y \in S : <<y, x>> \in R}) = n)
    BY <2>2
  <2> DEFINE kth(n) == CHOOSE x \in S : V!Cardinality({y \in S : <<y, x>> \in R}) = n
             nth(n) == CHOOSE x \in S : Cardinality({y \in S : <<y, x>> \in R}) = n
  <2>4. V!Listing(S, R) = [n \in 1..V!Cardinality(S) |-> kth(n)]
    BY DEF V!Listing
  <2>5. Listing(S, R) = [n \in 1..Cardinality(S) |-> nth(n)]
    BY DEF Listing
  <2>6. \A n : kth(n) = nth(n)
    BY <2>3
  <2>7. V!Cardinality(S) = Cardinality(S)
    BY <1>0
  <2> HIDE DEF kth, nth
  <2> QED
    BY <2>4, <2>5, <2>6, <2>7
<1>2. \A T : V!Ascending(T) = Ascending(T)
  BY DEF V!Ascending, Ascending
<1>3. \A ss : V!Cells(ss) = Cells(ss)
  BY DEF V!Cells, Cells
<1>4. \A T : V!Reading(T) = Reading(T)
  BY DEF V!Reading, Reading
<1>5. \A s, T : V!Filtered(s, T) = Filtered(s, T)
  BY <1>1, <1>2 DEF V!Filtered, Filtered
<1>6. \A s, R : V!Arranged(s, R) = Arranged(s, R)
  BY <1>1 DEF V!Arranged, Arranged
<1>7. \A key : V!ByKey(key) = ByKey(key)
  BY DEF V!ByKey, ByKey
<1>8. \A ss : V!Flattened(ss) = Flattened(ss)
  BY <1>1, <1>3, <1>4 DEF V!Flattened, Flattened
<1>9. \A s : V!Elements(s) = Elements(s)
  BY DEF V!Elements, Elements
<1>10. \A S : V!Listing(S, V!Ascending(S)) = Listing(S, Ascending(S))
  BY <1>1, <1>2
<1> QED
  BY <1>3, <1>5, <1>6, <1>7, <1>8, <1>9, <1>10

\* Rows by start: none lost, in time order.
LEMMA ByStartIs ==
    ASSUME NEW s, Once(s), \A x \in Elements(s) : x.start \in Int, NEW t, t = V!ByStart(s)
    PROVE  /\ Once(t) /\ Elements(t) = Elements(s)
           /\ \A i, j \in DOMAIN t : i < j => t[i].start <= t[j].start
<1>1. PICK N \in Nat : DOMAIN s = 1..N
  BY DEF Once
<1>2. PICK key : key = [k \in DOMAIN s |-> s[k].start]
  OBVIOUS
<1>3. key \in [1..N -> Int]
  <2>1. \A k \in 1..N : s[k] \in Elements(s)
    BY <1>1 DEF Elements
  <2> QED
    BY <1>1, <1>2, <2>1
<1>4. t = Arranged(s, ByKey(key))
  BY <1>2, ViewLists DEF V!ByStart
<1>5. Once(t) /\ Elements(t) = Elements(s)
  BY <1>1, <1>3, <1>4, OnceSorted
<1>6. PICK at : at = From(s, ByKey(key))
  OBVIOUS
<1>7. Picks(t, s, at, 1..N) /\ Cardinality(1..N) = N /\ \A m, n \in 1..N : m < n => key[at[m]] <= key[at[n]]
  BY <1>1, <1>3, <1>4, <1>6, SortedIs
<1>8. DOMAIN t = 1..N /\ \A n \in 1..N : at[n] \in 1..N /\ t[n] = s[at[n]]
  BY <1>7 DEF Picks
<1>9. \A n \in 1..N : t[n].start = key[at[n]]
  BY <1>1, <1>2, <1>8
<1> QED
  BY <1>5, <1>7, <1>8, <1>9

\* A column: the rows of its local day, in time order.
LEMMA ColumnIs ==
    ASSUME NEW s, Once(s), \A x \in Elements(s) : x.start \in Int, NEW d, NEW zone,
           NEW col, col = V!Column(s, d, zone)
    PROVE  /\ Once(col) /\ Elements(col) = {x \in Elements(s) : V!LocalDay(x.start, zone) = d}
           /\ \A i, j \in DOMAIN col : i < j => col[i].start <= col[j].start
<1>1. PICK T : T = {k \in DOMAIN s : V!LocalDay(s[k].start, zone) = d}
  OBVIOUS
<1>2. PICK t : t = Filtered(s, T)
  OBVIOUS
<1>3. T \in SUBSET DOMAIN s
  BY <1>1
<1>4. Once(t) /\ Elements(t) = {s[k] : k \in T}
  BY <1>2, <1>3, OnceFiltered
<1>5. Elements(t) = {x \in Elements(s) : V!LocalDay(x.start, zone) = d}
  BY <1>1, <1>4 DEF Elements
<1>6. col = V!ByStart(t)
  BY <1>1, <1>2, ViewLists DEF V!Column
<1>7. \A x \in Elements(t) : x.start \in Int
  BY <1>5
<1> QED
  BY <1>4, <1>5, <1>6, <1>7, ByStartIs

\* Rows of the server: each an event with its times, none a series.
RowsOK(table) ==
    /\ Once(table)
    /\ \A e \in Elements(table) : e.start \in Int /\ e.end \in Int /\ e.start <= e.end /\ e.rule = 0

\* What a range answers.
LEMMA ListIs ==
    ASSUME NEW table, RowsOK(table), NEW from, NEW to, NEW f, f = V!ListInRange(table, from, to)
    PROVE  Once(f) /\ Elements(f) = {e \in Elements(table) : e.end >= from /\ e.start <= to}
<1>1. PICK T : T = {k \in DOMAIN table : table[k].end >= from /\ table[k].start <= to}
  OBVIOUS
<1>2. PICK t : t = Filtered(table, T)
  OBVIOUS
<1>3. T \in SUBSET DOMAIN table /\ Once(table)
  BY <1>1 DEF RowsOK
<1>4. Once(t) /\ Elements(t) = {table[k] : k \in T}
  BY <1>2, <1>3, OnceFiltered
<1>5. Elements(t) = {e \in Elements(table) : e.end >= from /\ e.start <= to}
  BY <1>1, <1>4 DEF Elements
<1>6. PICK rows : rows = V!ListEventsInRange(table, from, to)
  OBVIOUS
<1>7. rows = V!ByStart(t)
  BY <1>1, <1>2, <1>6, ViewLists DEF V!ListEventsInRange
<1>8. \A e \in Elements(t) : e.start \in Int /\ e.rule = 0
  BY <1>5 DEF RowsOK
<1>9. Once(rows) /\ Elements(rows) = Elements(t)
  BY <1>4, <1>7, <1>8, ByStartIs
<1>10. PICK N \in Nat : DOMAIN rows = 1..N
  BY <1>9 DEF Once
<1>11. PICK ss : ss = [k \in 1..N |-> <<rows[k]>>]
  OBVIOUS
<1>12. \A k \in 1..N : rows[k].rule = 0 /\ rows[k] \in Elements(rows)
  BY <1>8, <1>9, <1>10 DEF Elements
<1>13. f = Flattened(ss)
  <2>1. V!ListInRange(table, from, to) =
           V!Flattened([k \in DOMAIN rows |-> IF rows[k].rule = 0 THEN <<rows[k]>> ELSE V!ExpandRRule(rows[k], from, to)])
    BY <1>6 DEF V!ListInRange
  <2>2. [k \in DOMAIN rows |-> IF rows[k].rule = 0 THEN <<rows[k]>> ELSE V!ExpandRRule(rows[k], from, to)] = ss
    BY <1>10, <1>11, <1>12
  <2> QED
    BY <2>1, <2>2, ViewLists
<1>14. ASSUME NEW k \in 1..N PROVE Once(ss[k]) /\ Elements(ss[k]) = {rows[k]}
  <2>1. PICK e : e = rows[k]
    OBVIOUS
  <2>2. ss[k] = <<e>>
    BY <1>11, <2>1
  <2> QED
    BY <2>1, <2>2, OnceOfOne
<1>15. \A g, h \in 1..N : \A e \in Elements(ss[g]) : e \in Elements(ss[h]) => g = h
  <2> SUFFICES ASSUME NEW g \in 1..N, NEW h \in 1..N, NEW e \in Elements(ss[g]), e \in Elements(ss[h]) PROVE g = h
    OBVIOUS
  <2>1. rows[g] = rows[h]
    BY <1>14
  <2> QED
    BY <1>9, <1>10, <2>1 DEF Once
<1>16. DOMAIN ss = 1..N /\ \A k \in 1..N : Once(ss[k])
  BY <1>11, <1>14
<1>17. Once(f) /\ \A e : e \in Elements(f) <=> \E k \in 1..N : e \in Elements(ss[k])
  BY <1>13, <1>15, <1>16, OnceFlattened
<1>18. Elements(f) = Elements(rows)
  <2>1. \A e : e \in Elements(f) <=> \E k \in 1..N : e = rows[k]
    BY <1>14, <1>17
  <2>2. Elements(rows) = {rows[k] : k \in 1..N}
    BY <1>10 DEF Elements
  <2> QED
    BY <2>1, <2>2
<1> QED
  BY <1>5, <1>9, <1>17, <1>18

\* The column of a day of the week, of what the week asked for.
LEMMA WeekColumn ==
    ASSUME NEW table, RowsOK(table), NEW zone \in Int, NEW d \in 0..6,
           NEW col, col = V!Column(V!Fetched(table, 0, 6, zone), d, zone)
    PROVE  /\ Once(col) /\ Elements(col) = {e \in Elements(table) : V!LocalDay(e.start, zone) = d}
           /\ \A i, j \in DOMAIN col : i < j => col[i].start <= col[j].start
<1>1. PICK f : f = V!ListInRange(table, -zone, 27 - zone)
  OBVIOUS
<1>2. f = V!Fetched(table, 0, 6, zone)
  <2>1. V!RangeOf(0, 6, zone).start = -zone /\ V!RangeOf(0, 6, zone).end = 27 - zone
    BY DEF V!RangeOf, V!Day
  <2> QED
    BY <1>1, <2>1 DEF V!Fetched
<1>3. Once(f) /\ Elements(f) = {e \in Elements(table) : e.end >= -zone /\ e.start <= 27 - zone}
  BY <1>1, ListIs
<1>4. \A e \in Elements(f) : e.start \in Int
  BY <1>3 DEF RowsOK
<1>5. /\ Once(col) /\ Elements(col) = {e \in Elements(f) : V!LocalDay(e.start, zone) = d}
      /\ \A i, j \in DOMAIN col : i < j => col[i].start <= col[j].start
  BY <1>2, <1>3, <1>4, ColumnIs
<1>6. ASSUME NEW e \in Elements(table), V!LocalDay(e.start, zone) = d PROVE e \in Elements(f)
  <2>1. PICK a \in Int, b \in Int : a = e.start /\ b = e.end /\ a <= b
    BY DEF RowsOK
  <2>2. (a + zone) \div 4 = d
    BY <1>6, <2>1 DEF V!LocalDay, V!Day
  <2>3. a + zone >= 0 /\ a + zone <= 27
    BY <2>2
  <2> QED
    BY <1>3, <2>1, <2>3
<1> QED
  BY <1>3, <1>5, <1>6

\* For any rows and any time zone, the week's columns are complete (CalWeek).
THEOREM WeekOfAll ==
    ASSUME NEW table, RowsOK(table), NEW zone \in Int
    PROVE  V!WeekComplete(table, zone)
<1>1. ASSUME NEW d \in 0..6, NEW col, col = V!CalWeek(table, zone)[d],
             NEW own, own = {k \in DOMAIN table : V!LocalDay(table[k].start, zone) = d}
      PROVE  /\ Elements(col) = {table[k] : k \in own} /\ Len(col) = Cardinality(own)
             /\ \A i, j \in DOMAIN col : i < j => col[i].start <= col[j].start
  <2>1. col = V!Column(V!Fetched(table, 0, 6, zone), d, zone)
    BY <1>1 DEF V!CalWeek
  <2>2. /\ Once(col) /\ Elements(col) = {e \in Elements(table) : V!LocalDay(e.start, zone) = d}
        /\ \A i, j \in DOMAIN col : i < j => col[i].start <= col[j].start
    BY <2>1, WeekColumn
  <2>3. Elements(col) = {table[k] : k \in own}
    BY <1>1, <2>2 DEF Elements
  <2>4. PICK t, at : t = Filtered(table, own) /\ at = Indexes(own)
    OBVIOUS
  <2>5. own \in SUBSET DOMAIN table /\ Once(table)
    BY <1>1 DEF RowsOK
  <2>6. Once(t) /\ Elements(t) = {table[k] : k \in own}
    BY <2>4, <2>5, OnceFiltered
  <2>7. PICK N \in Nat : DOMAIN table = 1..N
    BY <2>5 DEF Once
  <2>8. Picks(t, table, at, own)
    BY <2>4, <2>5, <2>7, FilteredIs
  <2>9. Len(t) = Cardinality(own)
    BY <2>8 DEF Picks
  <2>10. Len(col) = Len(t)
    BY <2>2, <2>3, <2>6, OnceCounts
  <2> QED
    BY <2>2, <2>3, <2>9, <2>10
<1>2. \A s : V!Elements(s) = Elements(s)
  BY ViewLists
<1>3. \A S : V!Cardinality(S) = Cardinality(S)
  BY DEF V!Cardinality, Cardinality
<1> QED
  BY <1>1, <1>2, <1>3 DEF V!WeekComplete

\* The first three of a list.
LEMMA FirstThreeIs ==
    ASSUME NEW s, Once(s), NEW c, c = V!FirstThree(s)
    PROVE  /\ V!FirstOf(c, Elements(s))
           /\ \A k \in DOMAIN c : k \in DOMAIN s /\ c[k] = s[k]
           /\ \A e \in Elements(s) \ Elements(c) : \A k \in DOMAIN c : \E j \in DOMAIN s : s[j] = e /\ k < j
<1>1. PICK N \in Nat : N = Len(s) /\ DOMAIN s = 1..N
  BY DEF Once
<1>2. PICK n \in Nat : n = (IF N < 3 THEN N ELSE 3) /\ n <= N
  OBVIOUS
<1>3. c = SubSeq(s, 1, n)
  BY <1>1, <1>2 DEF V!FirstThree
<1>4. PICK A : A = Elements(s)
  OBVIOUS
<1>5. \A i \in 1..n : s[i] \in A
  BY <1>1, <1>2, <1>4 DEF Elements
<1>6. c \in Seq(A) /\ Len(c) = n /\ \A i \in 1..n : c[i] = s[i]
  <2>1. /\ SubSeq(s, 1, n) \in Seq(A)
        /\ Len(SubSeq(s, 1, n)) = IF 1 <= n THEN n - 1 + 1 ELSE 0
        /\ \A i \in 1..n - 1 + 1 : SubSeq(s, 1, n)[i] = s[1 + i - 1]
    BY <1>5, SubSeqProperties
  <2>2. Len(SubSeq(s, 1, n)) = n
    BY <2>1
  <2>3. \A i \in 1..n : i \in 1..n - 1 + 1 /\ 1 + i - 1 = i
    OBVIOUS
  <2> QED
    BY <1>3, <2>1, <2>2, <2>3
<1>7. DOMAIN c = 1..n
  BY <1>6, LenProperties
<1>8. \A k \in DOMAIN c : k \in DOMAIN s /\ c[k] = s[k]
  BY <1>1, <1>2, <1>6, <1>7
<1>9. Elements(c) \subseteq A
  BY <1>4, <1>8 DEF Elements
<1>10. Once(c)
  <2>1. c \in Seq(Elements(c))
    <3>1. c = [k \in 1..n |-> c[k]]
      BY <1>6, <1>7, LenProperties
    <3> QED
      BY <3>1, FunctionIsList
  <2>2. \A k, m \in DOMAIN c : c[k] = c[m] => k = m
    BY <1>8 DEF Once
  <2> QED
    BY <1>6, <1>7, <2>1, <2>2 DEF Once
<1>11. Cardinality(A) = N /\ Cardinality(Elements(c)) = n
  BY <1>1, <1>4, <1>6, <1>10, OnceCounts
<1>12. V!FirstOf(c, A)
  <2>1. (\A S : V!Cardinality(S) = Cardinality(S)) /\ \A t : V!Elements(t) = Elements(t)
    BY ViewLists DEF V!Cardinality, Cardinality
  <2> QED
    BY <1>2, <1>6, <1>9, <1>11, <2>1 DEF V!FirstOf
<1>13. ASSUME NEW e \in A \ Elements(c), NEW k \in DOMAIN c PROVE \E j \in DOMAIN s : s[j] = e /\ k < j
  <2>1. PICK j \in 1..N : s[j] = e
    BY <1>1, <1>4, <1>13 DEF Elements
  <2>2. ~(j <= n)
    <3> SUFFICES ASSUME j <= n PROVE FALSE
      OBVIOUS
    <3>1. j \in DOMAIN c
      BY <1>7
    <3>2. e \in Elements(c)
      BY <1>8, <2>1, <3>1 DEF Elements
    <3> QED
      BY <1>13, <3>2
  <2> QED
    BY <1>1, <1>7, <2>1, <2>2
<1> QED
  BY <1>4, <1>8, <1>12, <1>13

\* For any rows and any time zone, the month's cells have the first three of their day (CalMonth).
THEOREM CellsOfAll ==
    ASSUME NEW table, RowsOK(table), NEW zone \in Int
    PROVE  V!CellsComplete(table, zone)
<1>1. ASSUME NEW d \in 0..6, NEW cell, cell = V!MonthCell(table, d, zone),
             NEW today, today = {e \in Elements(table) : V!LocalDay(e.start, zone) = d}
      PROVE  /\ V!FirstOf(cell, today)
             /\ \A e \in today \ Elements(cell), k \in DOMAIN cell : cell[k].start <= e.start
  <2>1. PICK col : col = V!Column(V!Fetched(table, 0, 6, zone), d, zone)
    OBVIOUS
  <2>2. /\ Once(col) /\ Elements(col) = today
        /\ \A i, j \in DOMAIN col : i < j => col[i].start <= col[j].start
    BY <1>1, <2>1, WeekColumn
  <2>3. cell = V!FirstThree(col)
    BY <1>1, <2>1 DEF V!MonthCell, V!eventsForDay
  <2>4. /\ V!FirstOf(cell, Elements(col))
        /\ \A k \in DOMAIN cell : k \in DOMAIN col /\ cell[k] = col[k]
        /\ \A e \in Elements(col) \ Elements(cell) : \A k \in DOMAIN cell : \E j \in DOMAIN col : col[j] = e /\ k < j
    BY <2>2, <2>3, FirstThreeIs
  <2> QED
    BY <2>2, <2>4
<1>2. \A s : V!Elements(s) = Elements(s)
  BY ViewLists
<1> QED
  BY <1>1, <1>2 DEF V!CellsComplete

\* For any events, what the day draws is in the columns of its members (CalDay).
THEOREM DayOfAll ==
    ASSUME NEW table, Once(table), NEW members
    PROVE  V!DayComplete(table, members)
<1>1. PICK drawn : drawn = V!CalDay(table, members)
  OBVIOUS
<1>2. PICK col : col = [m \in members |-> Filtered(table, {k \in DOMAIN table : m \in table[k].who})]
  OBVIOUS
<1>3. [m \in members |-> V!Filtered(table, {k \in DOMAIN table : m \in table[k].who})] = col
  BY <1>2, ViewLists
<1>4. drawn = V!Crash \/ drawn = col
  BY <1>1, <1>3 DEF V!CalDay
<1>5. ASSUME NEW m \in members, NEW e \in Elements(table) PROVE m \in e.who <=> e \in Elements(col[m])
  <2>1. PICK T : T = {k \in DOMAIN table : m \in table[k].who}
    OBVIOUS
  <2>2. col[m] = Filtered(table, T) /\ T \in SUBSET DOMAIN table
    BY <1>2, <2>1
  <2>3. Elements(col[m]) = {table[k] : k \in T}
    BY <2>2, OnceFiltered
  <2>4. PICK j \in DOMAIN table : e = table[j]
    BY DEF Elements
  <2> QED
    BY <2>1, <2>3, <2>4
<1>6. \A s : V!Elements(s) = Elements(s)
  BY ViewLists
<1> QED
  BY <1>1, <1>4, <1>5, <1>6 DEF V!DayComplete

\* Three parts, one after another, each numbered from one.
Parts(prev, n, m, a, b, c, ab, paper) ==
    /\ m = prev + n
    /\ \A k \in 1..prev : a[k] = k
    /\ \A k \in 1..n : b[k] = k
    /\ \A k \in 1..31 : c[k] = k
    /\ \A i \in 1..m : ab[i] = IF i <= prev THEN a[i] ELSE b[i - prev]
    /\ \A i \in 1..m + 31 : paper[i] = IF i <= m THEN ab[i] ELSE c[i - m]

\* What is read at a place of the paper.
Read(prev, n, paper) ==
    \A i \in 1..prev + n + 31 :
       paper[i] = IF i <= prev THEN i ELSE IF i <= prev + n THEN i - prev ELSE i - prev - n

\* Reading the paper reads the parts.
LEMMA PartsRead ==
    ASSUME NEW prev \in Nat, NEW n \in Nat, NEW m \in Nat, NEW a, NEW b, NEW c, NEW ab, NEW paper,
           Parts(prev, n, m, a, b, c, ab, paper)
    PROVE  Read(prev, n, paper)
<1>0. /\ m = prev + n
      /\ \A k \in 1..prev : a[k] = k
      /\ \A k \in 1..n : b[k] = k
      /\ \A k \in 1..31 : c[k] = k
      /\ \A i \in 1..m : ab[i] = IF i <= prev THEN a[i] ELSE b[i - prev]
      /\ \A i \in 1..m + 31 : paper[i] = IF i <= m THEN ab[i] ELSE c[i - m]
  BY DEF Parts
<1>1. ASSUME NEW i \in 1..m + 31
      PROVE  paper[i] = IF i <= prev THEN i ELSE IF i <= m THEN i - prev ELSE i - m
  <2>1. CASE i <= prev
    BY <1>0, <2>1
  <2>2. CASE i > prev /\ i <= m
    BY <1>0, <2>2
  <2>3. CASE i > m
    <3>1. i > prev /\ i - m \in 1..31
      BY <1>0, <2>3
    <3>2. paper[i] = c[i - m] /\ c[i - m] = i - m
      BY <1>0, <2>3, <3>1
    <3> QED
      BY <1>0, <2>3, <3>1, <3>2
  <2> QED
    BY <1>0, <2>1, <2>2, <2>3
<1> QED
  BY <1>0, <1>1 DEF Read

\* The numbers on the paper: the end of the month before, the month, the month after.
LEMMA PaperIs ==
    ASSUME NEW n \in Nat, NEW prev \in Nat, NEW paper,
           paper = [k \in 1..prev |-> k] \o [k \in 1..n |-> k] \o [k \in 1..31 |-> k]
    PROVE  Read(prev, n, paper)
<1>1. \A m \in Nat : [k \in 1..m |-> k] \in Seq(Nat) /\ Len([k \in 1..m |-> k]) = m
  OBVIOUS
<1>2. PICK a, b, c : a = [k \in 1..prev |-> k] /\ b = [k \in 1..n |-> k] /\ c = [k \in 1..31 |-> k]
  OBVIOUS
<1>3. a \in Seq(Nat) /\ b \in Seq(Nat) /\ c \in Seq(Nat) /\ Len(a) = prev /\ Len(b) = n /\ Len(c) = 31
  BY <1>1, <1>2
<1>4. /\ \A k \in 1..prev : a[k] = k
      /\ \A k \in 1..n : b[k] = k
      /\ \A k \in 1..31 : c[k] = k
  BY <1>2
<1>5. PICK ab : ab = a \o b
  OBVIOUS
<1>6. ab \in Seq(Nat) /\ Len(ab) = Len(a) + Len(b)
      /\ \A i \in 1..Len(a) + Len(b) : ab[i] = IF i <= Len(a) THEN a[i] ELSE b[i - Len(a)]
  <2>1. a \in Seq(Nat) /\ b \in Seq(Nat)
    BY <1>3
  <2> QED
    BY <1>5, <2>1, ConcatProperties, Zenon
<1>7. Len(ab) = prev + n /\ \A i \in 1..prev + n : ab[i] = IF i <= prev THEN a[i] ELSE b[i - prev]
  BY <1>3, <1>6
<1>8. paper = ab \o c
  BY <1>2, <1>5
<1>9. PICK m \in Nat : m = prev + n
  OBVIOUS
<1>10. \A i \in 1..m + 31 : paper[i] = IF i <= m THEN ab[i] ELSE c[i - m]
  <2>1. ab \in Seq(Nat) /\ c \in Seq(Nat)
    BY <1>3, <1>6
  <2>2. \A i \in 1..Len(ab) + Len(c) : (ab \o c)[i] = IF i <= Len(ab) THEN ab[i] ELSE c[i - Len(ab)]
    BY <2>1, ConcatProperties, Zenon
  <2>3. Len(ab) = m /\ Len(c) = 31
    BY <1>3, <1>7, <1>9
  <2> QED
    BY <1>8, <2>2, <2>3
<1> QED
  <2>1. \A i \in 1..m : ab[i] = IF i <= prev THEN a[i] ELSE b[i - prev]
    BY <1>7, <1>9
  <2>2. Parts(prev, n, m, a, b, c, ab, paper)
    BY <1>4, <1>9, <1>10, <2>1 DEF Parts
  <2> QED
    BY <2>2, PartsRead

\* The month's grid, wherever the month starts and however long it and the one before are
\* (visibleCells, dispNum).
THEOREM GridOfAll ==
    ASSUME NEW f \in 0..6, NEW n \in 28..31, NEW prev \in 28..31
    PROVE  V!GridRight(f, n, prev)
<1>1. PICK paper : paper = [k \in 1..prev |-> k] \o [k \in 1..n |-> k] \o [k \in 1..31 |-> k]
  OBVIOUS
<1>2. \A i \in 1..prev + n + 31 :
         paper[i] = IF i <= prev THEN i ELSE IF i <= prev + n THEN i - prev ELSE i - prev - n
  <2>1. n \in Nat /\ prev \in Nat
    OBVIOUS
  <2> QED
    BY <1>1, <2>1, PaperIs DEF Read
<1>3. PICK cells \in Nat : cells = V!visibleCells(f, n) /\ cells \in {35, 42} /\ cells >= f + n
  BY DEF V!visibleCells
<1>4. cells % 7 = 0
  BY <1>3
<1>5. ASSUME NEW d \in 1..n
      PROVE  \E i \in 0..cells - 1 : V!dayNum(i, f) = d /\ i % 7 = (f + d - 1) % 7
  <2>1. PICK i \in 0..cells - 1 : i = f + d - 1
    BY <1>3
  <2> QED
    BY <2>1 DEF V!dayNum
<1>6. ASSUME NEW i \in 0..cells - 1
      PROVE  V!dispNum(i, f, n, prev) = paper[prev - f + i + 1]
  <2>1. PICK j \in Int : j = prev - f + i + 1
    OBVIOUS
  <2>2. j \in 1..prev + n + 31
    BY <1>3, <2>1
  <2>3. paper[j] = IF j <= prev THEN j ELSE IF j <= prev + n THEN j - prev ELSE j - prev - n
    BY <1>2, <2>2
  <2>4. PICK e \in Int : e = i - f + 1
    OBVIOUS
  <2>5. V!dispNum(i, f, n, prev) = IF e \in 1..n THEN e ELSE IF e <= 0 THEN prev + e ELSE e - n
    BY <2>4 DEF V!dispNum, V!dayNum
  <2> QED
    BY <2>1, <2>3, <2>4, <2>5
<1> QED
  BY <1>1, <1>3, <1>4, <1>5, <1>6 DEF V!GridRight

\* The chevrons, from any day of any month (anchor, shiftMonth).
THEOREM StepsOfAll ==
    ASSUME NEW month \in 0..11, NEW day, NEW steps \in {1, -1}
    PROVE  V!StepsRight(month, day, steps)
<1>1. \A m \in 0..11 : V!Lengths[m] >= 1
  BY DEF V!Lengths
<1>2. ASSUME NEW m \in 0..11, NEW s \in {1, -1}
      PROVE  V!shiftMonth([month |-> m, day |-> 1], s) = [month |-> (m + s) % 12, day |-> 1] /\ (m + s) % 12 \in 0..11
  <2>1. PICK a : a = [month |-> m, day |-> 1]
    OBVIOUS
  <2>2. a.month = m /\ a.day = 1
    BY <2>1
  <2>3. PICK k \in 0..11 : k = (m + s) % 12
    OBVIOUS
  <2>4. V!Lengths[k] >= 1
    BY <1>1
  <2> QED
    BY <2>1, <2>2, <2>3, <2>4 DEF V!shiftMonth
<1>3. PICK n \in 0..11 : n = (month + steps) % 12
  OBVIOUS
<1>4. PICK back \in {1, -1} : back = -steps
  OBVIOUS
<1>5. (n + back) % 12 = month
  BY <1>3, <1>4
<1>6. V!Anchor(month, day) = [month |-> month, day |-> 1]
  BY DEF V!Anchor
<1>7. V!shiftMonth(V!Anchor(month, day), steps) = [month |-> n, day |-> 1]
  BY <1>2, <1>3, <1>6
<1>8. V!shiftMonth([month |-> n, day |-> 1], back) = [month |-> month, day |-> 1]
  BY <1>2, <1>5
<1> QED
  BY <1>3, <1>4, <1>6, <1>7, <1>8 DEF V!StepsRight

\* For any events and any draft, the form warns of those that overlap it (EventModal).
THEOREM WarnsOfAll ==
    ASSUME NEW table, Once(table), \A e \in Elements(table) : e.start \in Int /\ e.end \in Int /\ e.start < e.end,
           NEW own, NEW from \in Int, NEW to \in Int
    PROVE  V!WarnsOf(table, own, from, to)
<1>1. PICK told : told = V!conflicts(table, own, from, to)
  OBVIOUS
<1>2. PICK A : A = {e \in Elements(table) : e.id # own /\ (e.start..e.end - 1) \cap (from..to - 1) # {}}
  OBVIOUS
<1>3. ASSUME NEW e \in Elements(table)
      PROVE  (e.start..e.end - 1) \cap (from..to - 1) # {} <=> from < to /\ e.start < to /\ e.end > from
  <2>1. PICK a \in Int, b \in Int : a = e.start /\ b = e.end /\ a < b
    OBVIOUS
  <2>2. ASSUME from < to, a < to, b > from PROVE \E x : x \in (a..b - 1) \cap (from..to - 1)
    <3>1. CASE a <= from
      BY <2>1, <2>2, <3>1
    <3>2. CASE a > from
      BY <2>1, <2>2, <3>2
    <3> QED
      BY <2>1, <3>1, <3>2
  <2>3. ASSUME NEW x \in (a..b - 1) \cap (from..to - 1) PROVE from < to /\ a < to /\ b > from
    BY <2>1
  <2> QED
    BY <2>1, <2>2, <2>3
<1>4. V!FirstOf(told, A)
  <2>1. CASE to <= from
    <3>1. told = <<>> /\ A = {}
      BY <1>1, <1>2, <1>3, <2>1 DEF V!conflicts
    <3>2. V!FirstThree(<<>>) = <<>>
      <4>1. PICK s : s = <<>>
        OBVIOUS
      <4>2. Len(s) = 0
        BY <4>1
      <4>3. SubSeq(s, 1, 0) = <<>>
        BY SubSeqEmpty
      <4> QED
        BY <4>1, <4>2, <4>3 DEF V!FirstThree
    <3> QED
      BY <3>1, <3>2, OnceOfNone, FirstThreeIs
  <2>2. CASE from < to
    <3>1. PICK T : T = {k \in DOMAIN table : table[k].id # own /\ V!Overlaps(table[k], from, to)}
      OBVIOUS
    <3>2. PICK s : s = Filtered(table, T)
      OBVIOUS
    <3>3. told = V!FirstThree(s)
      BY <1>1, <2>2, <3>1, <3>2, ViewLists DEF V!conflicts
    <3>4. T \in SUBSET DOMAIN table
      BY <3>1
    <3>5. Once(s) /\ Elements(s) = {table[k] : k \in T}
      BY <3>2, <3>4, OnceFiltered
    <3>6. {table[k] : k \in T} = {e \in Elements(table) : e.id # own /\ V!Overlaps(e, from, to)}
      BY <3>1 DEF Elements
    <3>7. \A e \in Elements(table) : V!Overlaps(e, from, to) <=> (e.start..e.end - 1) \cap (from..to - 1) # {}
      BY <1>3, <2>2 DEF V!Overlaps
    <3>8. Elements(s) = A
      BY <1>2, <3>5, <3>6, <3>7
    <3> QED
      BY <3>3, <3>5, <3>8, FirstThreeIs
  <2> QED
    BY <2>1, <2>2
<1>5. \A s : V!Elements(s) = Elements(s)
  BY ViewLists
<1> QED
  BY <1>1, <1>2, <1>4, <1>5 DEF V!WarnsOf

\* Groups by day: group g holds, once each, the events of G on day[g], the days in order.
GroupsOK(groups, day, G) ==
    \E D \in Nat :
        /\ DOMAIN groups = 1..D
        /\ \A g \in 1..D : /\ Once(groups[g]) /\ day[g] \in Int
                           /\ \A e \in Elements(groups[g]) : e \in G /\ V!UtcDay(e.start) = day[g]
        /\ \A g, h \in 1..D : g < h => day[g] < day[h]
        /\ \A e \in G : \E g \in 1..D : e \in Elements(groups[g])

\* The cards of such groups: what is in G once each, in date order.
LEMMA CardsAre ==
    ASSUME NEW groups, NEW day, NEW G, GroupsOK(groups, day, G), NEW drawn, drawn = V!AgendaCards(groups)
    PROVE  /\ Once(drawn) /\ Elements(drawn) = G
           /\ \A i, j \in DOMAIN drawn : i < j => V!UtcDay(drawn[i].start) <= V!UtcDay(drawn[j].start)
<1>1. PICK D \in Nat :
         /\ DOMAIN groups = 1..D
         /\ \A g \in 1..D : /\ Once(groups[g]) /\ day[g] \in Int
                            /\ \A e \in Elements(groups[g]) : e \in G /\ V!UtcDay(e.start) = day[g]
         /\ \A g, h \in 1..D : g < h => day[g] < day[h]
         /\ \A e \in G : \E g \in 1..D : e \in Elements(groups[g])
  BY DEF GroupsOK
<1>2. drawn = Flattened(groups)
  BY ViewLists DEF V!AgendaCards
<1>3. \A g \in 1..D : Once(groups[g])
  BY <1>1
<1>4. \A g, h \in 1..D : \A e \in Elements(groups[g]) : e \in Elements(groups[h]) => g = h
  <2> SUFFICES ASSUME NEW g \in 1..D, NEW h \in 1..D, NEW e \in Elements(groups[g]), e \in Elements(groups[h]) PROVE g = h
    OBVIOUS
  <2>1. day[g] = day[h] /\ day[g] \in Int
    BY <1>1
  <2>2. ~(g < h) /\ ~(h < g)
    BY <1>1, <2>1
  <2> QED
    BY <2>2
<1>5. Once(drawn) /\ \A e : e \in Elements(drawn) <=> \E g \in 1..D : e \in Elements(groups[g])
  BY <1>1, <1>2, <1>3, <1>4, OnceFlattened
<1>6. Elements(drawn) = G
  BY <1>1, <1>5
<1>7. PICK P, at : P = Cells(groups) /\ at = Spots(groups)
  OBVIOUS
<1>8. \A g \in 1..D : groups[g] \in Seq(Elements(groups[g]))
  BY <1>3 DEF Once
<1>9. /\ Picks(drawn, There(groups), at, P)
      /\ \A m, n \in DOMAIN drawn : m < n =>
            at[m][1] < at[n][1] \/ (at[m][1] = at[n][1] /\ at[m][2] < at[n][2])
  BY <1>1, <1>2, <1>7, <1>8, FlattenedIs
<1>10. \A x \in P : x[1] \in 1..D /\ x[2] \in 1..Len(groups[x[1]]) /\ DOMAIN groups[x[1]] = 1..Len(groups[x[1]])
  BY <1>1, <1>7, <1>8, CellsAre
<1>11. \A n \in DOMAIN drawn : at[n] \in P /\ drawn[n] = There(groups)[at[n]]
  BY <1>9 DEF Picks
<1>12. ASSUME NEW n \in DOMAIN drawn PROVE at[n][1] \in 1..D /\ V!UtcDay(drawn[n].start) = day[at[n][1]]
  <2>1. PICK x : x = at[n]
    OBVIOUS
  <2>2. x \in P /\ drawn[n] = groups[x[1]][x[2]]
    BY <1>7, <1>11, <2>1 DEF There
  <2>3. x[1] \in 1..D /\ x[2] \in DOMAIN groups[x[1]]
    BY <1>10, <2>2
  <2>4. drawn[n] \in Elements(groups[x[1]])
    BY <2>2, <2>3 DEF Elements
  <2> QED
    BY <1>1, <2>1, <2>3, <2>4
<1>13. ASSUME NEW i \in DOMAIN drawn, NEW j \in DOMAIN drawn, i < j
       PROVE  V!UtcDay(drawn[i].start) <= V!UtcDay(drawn[j].start)
  <2>1. PICK g, h : g = at[i][1] /\ h = at[j][1]
    OBVIOUS
  <2>2. g \in 1..D /\ h \in 1..D /\ V!UtcDay(drawn[i].start) = day[g] /\ V!UtcDay(drawn[j].start) = day[h]
    BY <1>12, <2>1
  <2>3. g < h \/ g = h
    BY <1>9, <1>13, <2>1
  <2>4. day[g] \in Int /\ day[h] \in Int /\ (g < h => day[g] < day[h])
    BY <1>1, <2>2
  <2> QED
    BY <2>2, <2>3, <2>4
<1> QED
  BY <1>5, <1>6, <1>13

\* The groups of a list of events are such groups, none of them empty.
LEMMA GroupsAre ==
    ASSUME NEW evs, Once(evs), \A e \in Elements(evs) : e.start \in Int, NEW groups, groups = V!Groups(evs)
    PROVE  /\ \E day : GroupsOK(groups, day, Elements(evs))
           /\ \A g \in DOMAIN groups : groups[g] # <<>>
<1>1. PICK N \in Nat : DOMAIN evs = 1..N
  BY DEF Once
<1>2. PICK on : on = [k \in 1..N |-> V!UtcDay(evs[k].start)]
  OBVIOUS
<1>3. PICK days : days = {on[k] : k \in 1..N}
  OBVIOUS
<1>4. ASSUME NEW k \in 1..N PROVE on[k] \in Int /\ evs[k] \in Elements(evs)
  <2>1. evs[k] \in Elements(evs)
    BY <1>1 DEF Elements
  <2>2. PICK a \in Int : a = evs[k].start
    BY <2>1
  <2> QED
    BY <1>2, <2>1, <2>2 DEF V!UtcDay, V!Day
<1>5. IsFiniteSet(days) /\ days \in SUBSET Int
  <2>1. IsFiniteSet(1..N)
    BY FS_Interval
  <2>2. on \in [1..N -> days]
    BY <1>2, <1>3
  <2>3. on \in Surjection(1..N, days)
    BY <1>3, <2>2 DEF Surjection
  <2>4. IsFiniteSet(days)
    BY <2>1, <2>3, FS_Surjection
  <2> QED
    BY <1>3, <1>4, <2>4
<1>6. PICK keys : keys = Listing(days, Ascending(days))
  OBVIOUS
<1>7. Enumerates(keys, days, Ascending(days))
  BY <1>5, <1>6, AscendingTotal, ListingLists
<1>8. PICK D \in Nat : D = Cardinality(days)
  BY <1>7 DEF Enumerates
<1>9. DOMAIN keys = 1..D /\ \A g \in 1..D : keys[g] \in days
  BY <1>7, <1>8 DEF Enumerates
<1>10. \A x \in days : \E g \in 1..D : keys[g] = x
  BY <1>7, <1>8 DEF Enumerates
<1>11. \A g, h \in 1..D : g < h => keys[g] < keys[h]
  <2> SUFFICES ASSUME NEW g \in 1..D, NEW h \in 1..D, g < h PROVE keys[g] < keys[h]
    OBVIOUS
  <2>1. keys[g] # keys[h] /\ <<keys[g], keys[h]>> \in Ascending(days)
    BY <1>7, <1>8 DEF Enumerates
  <2>2. keys[g] <= keys[h] /\ keys[g] \in Int /\ keys[h] \in Int
    BY <1>5, <1>9, <2>1 DEF Ascending
  <2> QED
    BY <2>1, <2>2
<1>12. groups = [g \in 1..D |-> Filtered(evs, {k \in 1..N : on[k] = keys[g]})]
  <2> DEFINE ofDay(x) == Filtered(evs, {k \in 1..N : on[k] = x})
  <2>1. days = {V!UtcDay(evs[k].start) : k \in DOMAIN evs}
    BY <1>1, <1>2, <1>3
  <2>2. \A x : {k \in DOMAIN evs : V!UtcDay(evs[k].start) = x} = {k \in 1..N : on[k] = x}
    BY <1>1, <1>2
  <2>3. V!Listing(days, V!Ascending(days)) = keys
    BY <1>6, ViewLists
  <2>4. \A x : V!Filtered(evs, {k \in DOMAIN evs : V!UtcDay(evs[k].start) = x}) = ofDay(x)
    BY <2>2, ViewLists
  <2>5. V!Groups(evs) = [g \in DOMAIN keys |-> V!Filtered(evs, {k \in DOMAIN evs : V!UtcDay(evs[k].start) = keys[g]})]
    BY <2>1, <2>3 DEF V!Groups
  <2> HIDE DEF ofDay
  <2>6. V!Groups(evs) = [g \in 1..D |-> ofDay(keys[g])]
    BY <1>9, <2>4, <2>5
  <2> QED
    BY <2>6 DEF ofDay
<1>13. ASSUME NEW g \in 1..D
       PROVE  /\ Once(groups[g]) /\ keys[g] \in Int /\ groups[g] # <<>>
              /\ \A e \in Elements(groups[g]) : e \in Elements(evs) /\ V!UtcDay(e.start) = keys[g]
              /\ \A k \in 1..N : on[k] = keys[g] => evs[k] \in Elements(groups[g])
  <2>1. PICK T : T = {k \in 1..N : on[k] = keys[g]}
    OBVIOUS
  <2>2. PICK t : t = groups[g]
    OBVIOUS
  <2>3. t = Filtered(evs, T) /\ T \in SUBSET DOMAIN evs
    BY <1>1, <1>12, <2>1, <2>2
  <2>4. Once(t) /\ Elements(t) = {evs[k] : k \in T}
    BY <2>3, OnceFiltered
  <2>5. \A e \in Elements(t) : e \in Elements(evs) /\ V!UtcDay(e.start) = keys[g]
    BY <1>2, <1>4, <2>1, <2>4
  <2>6. \A k \in 1..N : on[k] = keys[g] => evs[k] \in Elements(t)
    BY <2>1, <2>4
  <2>7. keys[g] \in days
    BY <1>9
  <2>8. t # <<>>
    <3>1. PICK k \in 1..N : on[k] = keys[g]
      BY <1>3, <2>7
    <3>2. evs[k] \in Elements(t)
      BY <2>6, <3>1
    <3> QED
      BY <3>2, OnceOfNone
  <2> QED
    BY <1>5, <2>2, <2>4, <2>5, <2>6, <2>7, <2>8
<1>14. \A e \in Elements(evs) : \E g \in 1..D : e \in Elements(groups[g])
  <2> SUFFICES ASSUME NEW e \in Elements(evs) PROVE \E g \in 1..D : e \in Elements(groups[g])
    OBVIOUS
  <2>1. PICK k \in 1..N : e = evs[k]
    BY <1>1 DEF Elements
  <2>2. PICK g \in 1..D : keys[g] = on[k]
    BY <1>3, <1>10
  <2> QED
    BY <1>13, <2>1, <2>2
<1>15. DOMAIN groups = 1..D
  BY <1>12
<1>16. GroupsOK(groups, keys, Elements(evs))
  BY <1>11, <1>13, <1>14, <1>15 DEF GroupsOK
<1> QED
  BY <1>13, <1>15, <1>16

\* What a search leaves of each group, and the groups it leaves something of.
Searched(all) == [g \in DOMAIN all |-> Filtered(all[g], {k \in DOMAIN all[g] : V!Matches(all[g][k])})]
Nonempty(found) == Filtered(found, {g \in DOMAIN found : found[g] # <<>>})

\* A search leaves groups of what matches.
LEMMA FoundAre ==
    ASSUME NEW all, NEW day, NEW G, GroupsOK(all, day, G)
    PROVE  /\ \E days : GroupsOK(Nonempty(Searched(all)), days, {e \in G : V!Matches(e)})
           /\ \A n \in DOMAIN Nonempty(Searched(all)) : Nonempty(Searched(all))[n] # <<>>
<1>0. PICK found, left : found = Searched(all) /\ left = Nonempty(found)
  OBVIOUS
<1>1. PICK D \in Nat :
         /\ DOMAIN all = 1..D
         /\ \A g \in 1..D : /\ Once(all[g]) /\ day[g] \in Int
                            /\ \A e \in Elements(all[g]) : e \in G /\ V!UtcDay(e.start) = day[g]
         /\ \A g, h \in 1..D : g < h => day[g] < day[h]
         /\ \A e \in G : \E g \in 1..D : e \in Elements(all[g])
  BY DEF GroupsOK
<1>2. DOMAIN found = 1..D
  BY <1>0, <1>1 DEF Searched
<1>3. ASSUME NEW g \in 1..D
      PROVE  Once(found[g]) /\ Elements(found[g]) = {e \in Elements(all[g]) : V!Matches(e)}
  <2>1. PICK s, t : s = all[g] /\ t = found[g]
    OBVIOUS
  <2>2. PICK T : T = {k \in DOMAIN s : V!Matches(s[k])}
    OBVIOUS
  <2>3. t = Filtered(s, T)
    BY <1>0, <1>1, <2>1, <2>2 DEF Searched
  <2>4. Once(s)
    BY <1>1, <2>1
  <2>5. T \in SUBSET DOMAIN s
    BY <2>2
  <2>6. Once(t) /\ Elements(t) = {s[k] : k \in T}
    BY <2>3, <2>4, <2>5, OnceFiltered
  <2>7. Elements(t) = {e \in Elements(s) : V!Matches(e)}
    BY <2>2, <2>6 DEF Elements
  <2> QED
    BY <2>1, <2>6, <2>7
<1>4. PICK T : T = {g \in 1..D : found[g] # <<>>}
  OBVIOUS
<1>5. PICK at : at = Indexes(T)
  OBVIOUS
<1>6. left = Filtered(found, T)
  BY <1>0, <1>2, <1>4 DEF Nonempty
<1>7. Picks(left, found, at, T) /\ \A m, n \in DOMAIN left : m < n => at[m] < at[n]
  BY <1>4, <1>5, <1>6, FilteredIs
<1>8. PICK F \in Nat : DOMAIN left = 1..F
  BY <1>7 DEF Picks
<1>9. \A n \in 1..F : at[n] \in T /\ left[n] = found[at[n]]
  BY <1>7, <1>8 DEF Picks
<1>10. \A g \in T : \E n \in 1..F : at[n] = g
  BY <1>7, <1>8 DEF Picks
<1>11. PICK days : days = [n \in 1..F |-> day[at[n]]]
  OBVIOUS
<1>12. ASSUME NEW n \in 1..F
       PROVE  /\ Once(left[n]) /\ days[n] \in Int /\ left[n] # <<>>
              /\ \A e \in Elements(left[n]) : e \in {x \in G : V!Matches(x)} /\ V!UtcDay(e.start) = days[n]
  <2>1. PICK g : g = at[n]
    OBVIOUS
  <2>2. g \in 1..D /\ found[g] # <<>> /\ left[n] = found[g] /\ days[n] = day[g]
    BY <1>4, <1>9, <1>11, <2>1
  <2>3. Once(found[g]) /\ Elements(found[g]) = {e \in Elements(all[g]) : V!Matches(e)}
    BY <1>3, <2>2
  <2>4. day[g] \in Int /\ \A e \in Elements(all[g]) : e \in G /\ V!UtcDay(e.start) = day[g]
    BY <1>1, <2>2
  <2> QED
    BY <2>2, <2>3, <2>4
<1>13. \A m, n \in 1..F : m < n => days[m] < days[n]
  <2> SUFFICES ASSUME NEW m \in 1..F, NEW n \in 1..F, m < n PROVE days[m] < days[n]
    OBVIOUS
  <2>1. PICK g, h : g = at[m] /\ h = at[n]
    OBVIOUS
  <2>2. g \in 1..D /\ h \in 1..D /\ g < h
    BY <1>4, <1>7, <1>8, <1>9, <2>1
  <2>3. days[m] = day[g] /\ days[n] = day[h]
    BY <1>11, <2>1
  <2> QED
    BY <1>1, <2>2, <2>3
<1>14. ASSUME NEW e \in {x \in G : V!Matches(x)} PROVE \E n \in 1..F : e \in Elements(left[n])
  <2>1. PICK g \in 1..D : e \in Elements(all[g])
    BY <1>1
  <2>2. e \in Elements(found[g])
    BY <1>3, <2>1
  <2>3. found[g] # <<>>
    BY <2>2, OnceOfNone
  <2>4. PICK n \in 1..F : at[n] = g
    BY <1>4, <1>10, <2>3
  <2> QED
    BY <1>9, <2>2, <2>4
<1>15. GroupsOK(left, days, {e \in G : V!Matches(e)})
  BY <1>8, <1>12, <1>13, <1>14 DEF GroupsOK
<1>16. \A n \in DOMAIN left : left[n] # <<>>
  BY <1>8, <1>12
<1> QED
  BY <1>0, <1>15, <1>16

\* For any events, member and search, the agenda shows each wanted event once, in date order
\* (CalAgenda, filterEventsByMember).
THEOREM AgendaOfAll ==
    ASSUME NEW table, Once(table), \A e \in Elements(table) : e.start \in Int,
           NEW member, NEW query \in BOOLEAN
    PROVE  V!AgendaShows(table, member, query)
<1>1. PICK evs : evs = V!filterEventsByMember(table, member)
  OBVIOUS
<1>2. Once(evs) /\ Elements(evs) = {e \in Elements(table) : member = "all" \/ member \in e.who}
  <2>1. CASE member = "all"
    BY <1>1, <2>1 DEF V!filterEventsByMember
  <2>2. CASE member # "all"
    <3>1. PICK T : T = {k \in DOMAIN table : member \in table[k].who}
      OBVIOUS
    <3>2. evs = Filtered(table, T) /\ T \in SUBSET DOMAIN table
      BY <1>1, <2>2, <3>1, ViewLists DEF V!filterEventsByMember
    <3>3. Once(evs) /\ Elements(evs) = {table[k] : k \in T}
      BY <3>2, OnceFiltered
    <3> QED
      BY <2>2, <3>1, <3>3 DEF Elements
  <2> QED
    BY <2>1, <2>2
<1>3. PICK all : all = V!Groups(evs)
  OBVIOUS
<1>4. PICK G : G = Elements(evs)
  OBVIOUS
<1>5. \A e \in Elements(evs) : e.start \in Int
  BY <1>2
<1>6. (\E day : GroupsOK(all, day, G)) /\ \A g \in DOMAIN all : all[g] # <<>>
  BY <1>2, <1>3, <1>4, <1>5, GroupsAre
<1>7. PICK day : GroupsOK(all, day, G)
  BY <1>6
<1>8. PICK groups : groups = V!CalAgenda(table, member, query)
  OBVIOUS
<1>9. PICK wanted : wanted = {e \in Elements(table) : (member = "all" \/ member \in e.who) /\ (query => e.title \/ e.place)}
  OBVIOUS
<1>10. (\E days : GroupsOK(groups, days, wanted)) /\ \A g \in DOMAIN groups : groups[g] # <<>>
  <2>1. CASE ~query
    <3>1. groups = all
      BY <1>1, <1>3, <1>8, <2>1 DEF V!CalAgenda
    <3>2. wanted = G
      BY <1>2, <1>4, <1>9, <2>1
    <3> QED
      BY <1>6, <3>1, <3>2
  <2>2. CASE query
    <3>1. PICK found : found = Searched(all)
      OBVIOUS
    <3>2. groups = Nonempty(found)
      <4>1. [g \in DOMAIN all |-> V!Filtered(all[g], {k \in DOMAIN all[g] : V!Matches(all[g][k])})] = found
        BY <3>1, ViewLists DEF Searched
      <4>2. groups = V!Filtered(found, {g \in DOMAIN found : found[g] # <<>>})
        BY <1>1, <1>3, <1>8, <2>2, <4>1 DEF V!CalAgenda
      <4> QED
        BY <4>2, ViewLists DEF Nonempty
    <3>3. wanted = {e \in G : V!Matches(e)}
      BY <1>2, <1>4, <1>9, <2>2 DEF V!Matches
    <3>4. groups = Nonempty(Searched(all))
      BY <3>1, <3>2
    <3>5. /\ \E days : GroupsOK(Nonempty(Searched(all)), days, {e \in G : V!Matches(e)})
          /\ \A g \in DOMAIN Nonempty(Searched(all)) : Nonempty(Searched(all))[g] # <<>>
      BY <1>7, FoundAre
    <3> QED
      BY <3>3, <3>4, <3>5
  <2> QED
    BY <2>1, <2>2
<1>11. PICK days : GroupsOK(groups, days, wanted)
  BY <1>10
<1>12. PICK drawn : drawn = V!AgendaCards(groups)
  OBVIOUS
<1>13. /\ Once(drawn) /\ Elements(drawn) = wanted
       /\ \A i, j \in DOMAIN drawn : i < j => V!UtcDay(drawn[i].start) <= V!UtcDay(drawn[j].start)
  BY <1>11, <1>12, CardsAre
<1>14. Len(drawn) = Cardinality(wanted)
  BY <1>13, OnceCounts
<1>15. (\A s : V!Elements(s) = Elements(s)) /\ \A S : V!Cardinality(S) = Cardinality(S)
  BY ViewLists DEF V!Cardinality, Cardinality
<1> QED
  BY <1>8, <1>9, <1>10, <1>12, <1>13, <1>14, <1>15 DEF V!AgendaShows

\* An event's fields.
LEMMA EventIs ==
    ASSUME NEW i \in Nat, NEW s \in Int, NEW n \in Nat, NEW r, NEW e, e = V!Event(i, s, n, r)
    PROVE  e.id = i /\ e.start = s /\ e.end = s + n /\ e.rule = r /\ e.start \in Int /\ e.end \in Int
  BY DEF V!Event

\* A table of four rows with ids of their own.
LEMMA OnceOfFour ==
    ASSUME NEW s, s = [k \in 1..4 |-> s[k]], \A k \in 1..4 : s[k].id = k
    PROVE  Once(s) /\ Elements(s) = {s[k] : k \in 1..4}
<1>1. s \in Seq(Elements(s)) /\ Len(s) = 4 /\ DOMAIN s = 1..4
  BY FunctionIsList
<1> QED
  BY <1>1 DEF Once, Elements

\* A table of one row.
LEMMA OneRow ==
    ASSUME NEW e, e.start \in Int, e.end \in Int, e.start <= e.end, e.rule = 0
    PROVE  RowsOK(<<e>>)
  BY OnceOfOne DEF RowsOK

\* Whatever the input, the views are exact.
LEMMA ViewsOfInputs == look \in V!LookInputs \cup {[kind |-> "none"]} => V!ViewsExact
<1> DEFINE
      weeks  == {[kind |-> "week", zone |-> z, table |-> <<V!Event(1, s, n, 0)>>] : z \in V!Zones, s \in -6..31, n \in {0, 1, 5}}
      cells  == {[kind |-> "cells", zone |-> z, table |-> [k \in 1..4 |-> V!Event(k, s[k], 1, 0)]]
                    : z \in V!Zones, s \in [1..4 -> 0..4]}
      days   == {[kind |-> "day", table |-> <<[id |-> 1, who |-> a, sample |-> l], [id |-> 2, who |-> b, sample |-> l]>>]
                    : a \in SUBSET {"mom", "kid", "gone"}, b \in SUBSET {"mom", "kid", "gone"}, l \in BOOLEAN}
      series == {[kind |-> "series", zone |-> 0, table |-> <<V!Event(1, s, 1, r)>>] : s \in -3..8, r \in {0, V!Day}}
      months == {[kind |-> "month", first |-> f, days |-> n, prev |-> p] : f \in 0..6, n \in 28..31, p \in 28..31}
      steps  == {[kind |-> "step", month |-> m, day |-> d, steps |-> s] : m \in 0..11, d \in 1..31, s \in {1, -1}}
      agenda == {[kind |-> "agenda", zone |-> 0, table |-> <<a, b>>, query |-> q, member |-> f]
                    : a \in V!Entry(1), b \in V!Entry(2), q \in BOOLEAN, f \in V!MemberFilterChips({"mom", "kid"})}
      drafts == {[kind |-> "draft", own |-> o, from |-> s, to |-> e,
                  table |-> <<V!Event(1, 1, 2, 0), V!Event(2, x, 1, 0), V!Event(3, x, 2, 0), V!Event(4, 2, n, 0)>>]
                    : o \in {0, 1}, s \in 0..4, e \in 0..4, x \in 0..4, n \in {1, 3}}
<1>1. look \in weeks => V!ViewsExact
  <2> SUFFICES ASSUME NEW z \in V!Zones, NEW s \in -6..31, NEW n \in {0, 1, 5},
                      look = [kind |-> "week", zone |-> z, table |-> <<V!Event(1, s, n, 0)>>]
               PROVE  V!ViewsExact
    OBVIOUS
  <2>1. PICK e : e = V!Event(1, s, n, 0)
    OBVIOUS
  <2>2. e.start \in Int /\ e.end \in Int /\ e.start <= e.end /\ e.rule = 0
    BY <2>1, EventIs
  <2>3. RowsOK(<<e>>)
    BY <2>2, OneRow
  <2>4. z \in Int
    BY DEF V!Zones
  <2>5. V!WeekComplete(<<e>>, z)
    BY <2>3, <2>4, WeekOfAll
  <2> QED
    BY <2>1, <2>5 DEF V!ViewsExact, V!ColumnsComplete, V!MonthGridRight, V!MonthStepsRight,
             V!AgendaExact, V!ConflictsRight
<1>2. look \in cells => V!ViewsExact
  <2> SUFFICES ASSUME NEW z \in V!Zones, NEW s \in [1..4 -> 0..4],
                      look = [kind |-> "cells", zone |-> z, table |-> [k \in 1..4 |-> V!Event(k, s[k], 1, 0)]]
               PROVE  V!ViewsExact
    OBVIOUS
  <2>1. PICK t : t = [k \in 1..4 |-> V!Event(k, s[k], 1, 0)]
    OBVIOUS
  <2>2. ASSUME NEW k \in 1..4
        PROVE  t[k].id = k /\ t[k].start \in Int /\ t[k].end \in Int /\ t[k].start <= t[k].end /\ t[k].rule = 0
    <3>1. PICK a \in Int : a = s[k]
      OBVIOUS
    <3>2. t[k] = V!Event(k, a, 1, 0)
      BY <2>1, <3>1
    <3> QED
      BY <3>1, <3>2, EventIs
  <2>3. t = [k \in 1..4 |-> t[k]]
    BY <2>1
  <2>4. Once(t) /\ Elements(t) = {t[k] : k \in 1..4}
    BY <2>2, <2>3, OnceOfFour
  <2>5. RowsOK(t)
    BY <2>2, <2>4 DEF RowsOK
  <2>6. z \in Int
    BY DEF V!Zones
  <2>7. V!WeekComplete(t, z) /\ V!CellsComplete(t, z)
    BY <2>5, <2>6, WeekOfAll, CellsOfAll
  <2> QED
    BY <2>1, <2>7 DEF V!ViewsExact, V!ColumnsComplete, V!MonthGridRight, V!MonthStepsRight,
             V!AgendaExact, V!ConflictsRight
<1>3. look \in days => V!ViewsExact
  <2> SUFFICES ASSUME NEW a, NEW b, NEW l,
                      look = [kind |-> "day", table |-> <<[id |-> 1, who |-> a, sample |-> l], [id |-> 2, who |-> b, sample |-> l]>>]
               PROVE  V!ViewsExact
    OBVIOUS
  <2>1. PICK x, y : x = [id |-> 1, who |-> a, sample |-> l] /\ y = [id |-> 2, who |-> b, sample |-> l]
    OBVIOUS
  <2>2. x # y
    <3>1. x.id = 1 /\ y.id = 2
      BY <2>1
    <3> QED
      BY <3>1
  <2>3. Once(<<x, y>>)
    BY <2>2, OnceOfTwo
  <2>4. V!DayComplete(<<x, y>>, {"mom", "kid"})
    BY <2>3, DayOfAll
  <2> QED
    BY <2>1, <2>4 DEF V!ViewsExact, V!ColumnsComplete, V!MonthGridRight, V!MonthStepsRight,
             V!AgendaExact, V!ConflictsRight
<1>4. look \in series => V!ViewsExact
  BY DEF V!ViewsExact, V!ColumnsComplete, V!MonthGridRight, V!MonthStepsRight,
         V!AgendaExact, V!ConflictsRight
<1>5. look \in months => V!ViewsExact
  <2> SUFFICES ASSUME NEW f \in 0..6, NEW n \in 28..31, NEW p \in 28..31,
                      look = [kind |-> "month", first |-> f, days |-> n, prev |-> p]
               PROVE  V!ViewsExact
    OBVIOUS
  <2>1. V!GridRight(f, n, p)
    BY GridOfAll
  <2> QED
    BY <2>1 DEF V!ViewsExact, V!ColumnsComplete, V!MonthGridRight, V!MonthStepsRight,
             V!AgendaExact, V!ConflictsRight
<1>6. look \in steps => V!ViewsExact
  <2> SUFFICES ASSUME NEW m \in 0..11, NEW d \in 1..31, NEW s \in {1, -1},
                      look = [kind |-> "step", month |-> m, day |-> d, steps |-> s]
               PROVE  V!ViewsExact
    OBVIOUS
  <2>1. V!StepsRight(m, d, s)
    BY StepsOfAll
  <2> QED
    BY <2>1 DEF V!ViewsExact, V!ColumnsComplete, V!MonthGridRight, V!MonthStepsRight,
             V!AgendaExact, V!ConflictsRight
<1>7. look \in agenda => V!ViewsExact
  <2> SUFFICES ASSUME NEW a \in V!Entry(1), NEW b \in V!Entry(2), NEW q \in BOOLEAN, NEW f,
                      look = [kind |-> "agenda", zone |-> 0, table |-> <<a, b>>, query |-> q, member |-> f]
               PROVE  V!ViewsExact
    OBVIOUS
  <2>1. a.id = 1 /\ b.id = 2 /\ a.start \in Int /\ b.start \in Int
    BY DEF V!Entry
  <2>2. Once(<<a, b>>) /\ Elements(<<a, b>>) = {a, b}
    BY <2>1, OnceOfTwo
  <2>3. \A e \in Elements(<<a, b>>) : e.start \in Int
    BY <2>1, <2>2
  <2>4. V!AgendaShows(<<a, b>>, f, q)
    BY <2>2, <2>3, AgendaOfAll
  <2> QED
    BY <2>4 DEF V!ViewsExact, V!ColumnsComplete, V!MonthGridRight, V!MonthStepsRight,
             V!AgendaExact, V!ConflictsRight
<1>8. look \in drafts => V!ViewsExact
  <2> SUFFICES ASSUME NEW o \in {0, 1}, NEW s \in 0..4, NEW e \in 0..4, NEW x \in 0..4, NEW n \in {1, 3},
                      look = [kind |-> "draft", own |-> o, from |-> s, to |-> e,
                  table |-> <<V!Event(1, 1, 2, 0), V!Event(2, x, 1, 0), V!Event(3, x, 2, 0), V!Event(4, 2, n, 0)>>]
               PROVE  V!ViewsExact
    OBVIOUS
  <2>1. PICK a, b, c, d : a = V!Event(1, 1, 2, 0) /\ b = V!Event(2, x, 1, 0) /\ c = V!Event(3, x, 2, 0) /\ d = V!Event(4, 2, n, 0)
    OBVIOUS
  <2>2. PICK t : t = <<a, b, c, d>>
    OBVIOUS
  <2>3. a.id = 1 /\ a.start \in Int /\ a.end \in Int /\ a.start < a.end
    BY <2>1 DEF V!Event
  <2>4. b.id = 2 /\ b.start \in Int /\ b.end \in Int /\ b.start < b.end
    BY <2>1 DEF V!Event
  <2>5. c.id = 3 /\ c.start \in Int /\ c.end \in Int /\ c.start < c.end
    BY <2>1 DEF V!Event
  <2>6. d.id = 4 /\ d.start \in Int /\ d.end \in Int /\ d.start < d.end
    BY <2>1 DEF V!Event
  <2>7. t = [k \in 1..4 |-> t[k]] /\ t[1] = a /\ t[2] = b /\ t[3] = c /\ t[4] = d
    BY <2>2
  <2>8. \A k \in 1..4 : k = 1 \/ k = 2 \/ k = 3 \/ k = 4
    OBVIOUS
  <2>9. \A k \in 1..4 : t[k].id = k /\ t[k].start \in Int /\ t[k].end \in Int /\ t[k].start < t[k].end
    BY <2>3, <2>4, <2>5, <2>6, <2>7, <2>8
  <2>10. Once(t) /\ Elements(t) = {t[k] : k \in 1..4}
    BY <2>7, <2>9, OnceOfFour
  <2>11. \A r \in Elements(t) : r.start \in Int /\ r.end \in Int /\ r.start < r.end
    BY <2>9, <2>10
  <2>12. V!WarnsOf(t, o, s, e)
    BY <2>10, <2>11, WarnsOfAll
  <2> QED
    BY <2>1, <2>2, <2>12 DEF V!ViewsExact, V!ColumnsComplete, V!MonthGridRight, V!MonthStepsRight,
             V!AgendaExact, V!ConflictsRight
<1>9. look = [kind |-> "none"] => V!ViewsExact
  BY DEF V!ViewsExact, V!ColumnsComplete, V!MonthGridRight, V!MonthStepsRight,
         V!AgendaExact, V!ConflictsRight
<1>10. V!LookInputs = weeks \cup cells \cup days \cup series \cup months \cup steps \cup agenda \cup drafts
  BY DEF V!LookInputs
<1> HIDE DEF weeks, cells, days, series, months, steps, agenda, drafts
<1> QED
  BY <1>1, <1>2, <1>3, <1>4, <1>5, <1>6, <1>7, <1>8, <1>9, <1>10

-----------------------------------------------------------------------------
(* The parts together.  A part that is not chosen stays as it is.          *)

LEMMA JoinStill == ASSUME JoinInv, UNCHANGED joinVars PROVE JoinInv'
<1>1. UNCHANGED <<page, ask, lookups, codes, reqs, joined, dialogs>>
  BY DEF joinVars
<1>2. Decided' = Decided
  BY <1>1 DEF Decided
<1>3. \A d : Owes(d)' = Owes(d)
  BY <1>1, <1>2 DEF Owes
<1> QED
  BY <1>1, <1>2, <1>3 DEF JoinInv, JoinTypes, AskFits

LEMMA WizStill == ASSUME NEW n, WizInv(n), UNCHANGED wizVars PROVE WizInv(n)'
<1>1. UNCHANGED <<limit, wiz, call, rolls>>
  BY DEF wizVars
<1>2. WizTypes(n)'
  BY <1>1 DEF WizInv, WizTypes
<1>3. CallFits'
  BY <1>1 DEF WizInv, CallFits
<1>4. SavedOrDue' /\ W!SelfLinked'
  BY <1>1 DEF WizInv, SavedOrDue, W!SelfLinked
<1> QED
  BY <1>2, <1>3, <1>4 DEF WizInv

LEMMA EditStill == ASSUME EditInv, UNCHANGED editVars PROVE EditInv'
<1>1. UNCHANGED <<events, created, linked, fetch, link, modal, form, busy, writes, count>>
  BY DEF editVars
<1>2. EditTypes' /\ FormFits'
  BY <1>1 DEF EditInv, EditTypes, FormFits
<1>3. WritesFit' /\ GhostFree'
  BY <1>1 DEF EditInv, WritesFit, GhostFree
<1>4. Sent' = Sent /\ Adding' = Adding /\ Slot' = Slot
  BY <1>1 DEF Sent, Adding, Slot, CreateHeard
<1>5. CountsFit'
  BY <1>1, <1>4 DEF EditInv, CountsFit
<1> QED
  BY <1>2, <1>3, <1>5 DEF EditInv

LEMMA CardsStill == ASSUME CardsInv, UNCHANGED cardVars PROVE CardsInv'
<1>1. UNCHANGED <<srv, list, hh, cards, saves, clicks>>
  BY DEF cardVars
<1>2. CardTypes' /\ FormOwn' /\ ToggleFits'
  BY <1>1 DEF CardsInv, CardTypes, FormOwn, ToggleFits, Toggles, Undisturbed
<1>3. clicks.n \in Nat /\ \A k \in Adders : Filled(k)' = Filled(k) /\ (FormReady(k)' => FormReady(k))
  BY <1>1, CardFacts DEF Filled, FormReady
<1> QED
  BY <1>1, <1>2, <1>3, CardsKept

\* The inductive invariant of the household's screens.
HouseInv == JoinInv /\ (\E n \in Nat : WizInv(n)) /\ EditInv /\ CardsInv

LEMMA HouseInitInv == Init => HouseInv
<1> SUFFICES ASSUME Init PROVE HouseInv
  OBVIOUS
<1>1. W!Init /\ J!Init /\ E!EditInit /\ C!CardsInit
  BY DEF Init
<1>2. PICK n \in Nat : limit.drafts = n
  BY <1>1, BoundsAssumption DEF W!Init
<1>3. WizInv(n)
  BY <1>1, <1>2, WizInitInv
<1> QED
  BY <1>1, <1>3, JoinInitInv, EditInitInv, CardsInitInv DEF HouseInv

LEMMA HouseNextKeeps == HouseInv /\ [Next]_vars => HouseInv'
<1> SUFFICES ASSUME HouseInv, [Next]_vars PROVE HouseInv'
  OBVIOUS
<1>1. PICK n \in Nat : WizInv(n)
  BY DEF HouseInv
<1>2. JoinInv /\ EditInv /\ CardsInv
  BY DEF HouseInv
<1>3. /\ W!Next \/ UNCHANGED wizVars
      /\ J!Next \/ UNCHANGED joinVars
      /\ E!EditNext \/ UNCHANGED editVars
      /\ C!CardsNext \/ UNCHANGED cardVars
  BY DEF Next, vars
<1>4. WizInv(n)'
  BY <1>1, <1>3, WizNextKeeps, WizStill
<1>5. JoinInv'
  BY <1>2, <1>3, JoinNextKeeps, JoinStill
<1>6. EditInv'
  BY <1>2, <1>3, EditNextKeeps, EditStill
<1>7. CardsInv'
  BY <1>2, <1>3, CardsNextKeeps, CardsStill
<1> QED
  BY <1>4, <1>5, <1>6, <1>7 DEF HouseInv

\* HouseInv holds in every reachable state, whatever the bounds.
THEOREM HouseInvHolds == Spec => []HouseInv
  BY HouseInitInv, HouseNextKeeps, PTL DEF Spec

LEMMA HouseImplies == HouseInv => TypeOK /\ RosterHonest /\ FormHonest /\ CardsHonest
<1> SUFFICES ASSUME HouseInv PROVE TypeOK /\ RosterHonest /\ FormHonest /\ CardsHonest
  OBVIOUS
<1>1. J!TypeOK
  BY JoinImplies DEF HouseInv
<1>2. W!TypeOK /\ W!RosterHonest
  BY WizImplies DEF HouseInv
<1>3. E!EditTypeOK /\ E!FormHonest
  BY EditImplies DEF HouseInv
<1>4. C!CardsTypeOK /\ C!CardsHonest
  BY CardsImply DEF HouseInv
<1> QED
  BY <1>1, <1>2, <1>3, <1>4 DEF TypeOK, RosterHonest, FormHonest, CardsHonest

\* Type correctness of the four parts that move, for every bound.
THEOREM HouseTypeCorrect == Spec => []TypeOK
  BY HouseInvHolds, HouseImplies, PTL

\* The wizard's roster (advance of the onboarding page): from the family step on the
\* account is linked to a member of the household, and only children have PINs,
\* whatever failed and was retried on the way and however many drafts there were.
THEOREM RosterHonestHolds == Spec => []RosterHonest
  BY HouseInvHolds, HouseImplies, PTL

\* The event form (handleSave and handleDelete of the calendar's modal): a request is about
\* the event the form was opened for, an event is added once per form but for lost answers,
\* what was deleted is not shown again, and the form waits only for an answer to come.
THEOREM FormHonestHolds == Spec => []FormHonest
  BY HouseInvHolds, HouseImplies, PTL

\* The settings (FamilyCard, CalendarsCard, KioskCard, BillingCard): no member is saved with
\* another's fields, what was filled in once is added once but for lost answers, an
\* undisturbed kiosk toggle is true at rest, and billing is disabled only while it waits.
THEOREM CardsHonestHolds == Spec => []CardsHonest
  BY HouseInvHolds, HouseImplies, PTL

\* The door (internal/service/invite.go): no row is made with a code that was replaced before
\* the join request was sent, and a decided request that no review is past its check of
\* stays as it is.
THEOREM DoorKeptHolds == Spec => DoorKept
<1>1. HouseInv /\ [Next]_vars => [Len(reqs') > Len(reqs) => J!Last(reqs').code >= ask.since]_(J!joinVars)
  <2>1. SUFFICES ASSUME HouseInv, [Next]_vars
                 PROVE  [Len(reqs') > Len(reqs) => J!Last(reqs').code >= ask.since]_(J!joinVars)
    OBVIOUS
  <2>2. JoinInv /\ (J!Next \/ UNCHANGED J!joinVars)
    BY <2>1 DEF HouseInv, Next, vars, joinVars, J!joinVars
  <2> QED
    BY <2>2, OldCodeStep
<1>2. HouseInv /\ [Next]_vars =>
        [\A r \in DOMAIN reqs : J!Settled(r) => J!Settled(r)' /\ reqs'[r] = reqs[r]]_(J!joinVars)
  <2>1. SUFFICES ASSUME HouseInv, [Next]_vars
                 PROVE  [\A r \in DOMAIN reqs : J!Settled(r) => J!Settled(r)' /\ reqs'[r] = reqs[r]]_(J!joinVars)
    OBVIOUS
  <2>2. JoinInv /\ (J!Next \/ UNCHANGED J!joinVars)
    BY <2>1 DEF HouseInv, Next, vars, joinVars, J!joinVars
  <2> QED
    BY <2>2, SettledStep
<1> QED
  BY HouseInvHolds, <1>1, <1>2, PTL DEF Spec, DoorKept, J!DoorKept, J!OldCodeShut, J!SettledForGood

\* Nothing saved is lost: the wizard leaves the family step with everybody who was listed at
\* the click (advance), and no save of notifications erases a topic (UpdateMemberNotify).
THEOREM NothingLostHolds == Spec => NothingLost
<1>1. HouseInv /\ [Next]_vars =>
        [call.at = "family" /\ wiz'.step = W!CalendarStep /\ wiz.step # W!CalendarStep /\ wiz'.hid = wiz.hid =>
            \A d \in call.drafts : \E m \in rolls'[call.hid] : m.who = d]_(W!wizVars)
  <2>1. SUFFICES ASSUME HouseInv, [Next]_vars
                 PROVE  [call.at = "family" /\ wiz'.step = W!CalendarStep /\ wiz.step # W!CalendarStep /\ wiz'.hid = wiz.hid =>
                            \A d \in call.drafts : \E m \in rolls'[call.hid] : m.who = d]_(W!wizVars)
    OBVIOUS
  <2>2. PICK n \in Nat : WizInv(n)
    BY <2>1 DEF HouseInv
  <2>3. W!Next \/ UNCHANGED W!wizVars
    BY <2>1 DEF Next, vars, wizVars, W!wizVars
  <2> QED
    BY <2>2, <2>3, RosterSavedStep
<1>2. HouseInv /\ [Next]_vars => [srv.topic # 0 => srv'.topic # 0]_(C!cardVars)
  <2>1. SUFFICES ASSUME HouseInv, [Next]_vars
                 PROVE  [srv.topic # 0 => srv'.topic # 0]_(C!cardVars)
    OBVIOUS
  <2>2. CardsInv /\ (C!CardsNext \/ UNCHANGED C!cardVars)
    BY <2>1 DEF HouseInv, Next, vars, cardVars, C!cardVars
  <2> QED
    BY <2>2, CardsNextKeeps
<1> QED
  BY HouseInvHolds, <1>1, <1>2, PTL DEF Spec, NothingLost, W!RosterSaved, C!TopicKept

\* What the calendar shows is what there is (web/src/components/screens/calendar.tsx): the
\* input of a behaviour is one of those the model enumerates, and stays; for each of them
\* the views are exact.
THEOREM ViewsExactHolds == Spec => []ViewsExact
<1> DEFINE chosen == look \in V!LookInputs \cup {[kind |-> "none"]}
<1>1. Init => chosen
  BY DEF Init, V!LookInit
<1>2. chosen /\ [Next]_vars => chosen'
  BY DEF Next, vars
<1>3. chosen => ViewsExact
  BY ViewsOfInputs DEF ViewsExact
<1> QED
  BY <1>1, <1>2, <1>3, PTL DEF Spec
=============================================================================
