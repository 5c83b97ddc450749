----------------------------- MODULE QueryCache -----------------------------
(***************************************************************************)
(* One cached read of the web client while this client and other devices   *)
(* write the table behind it (web/src/lib/api, web/src/lib/ws).  A         *)
(* behaviour follows one read hook and one write hook that touches its     *)
(* table, so together the behaviours follow every pair of hooks.  The      *)
(* table's content is the number of writes it has seen.                    *)
(***************************************************************************)
EXTENDS QueryHooks, Integers, FiniteSets

CONSTANTS MaxWrites,   \* bound on the writes of a behaviour
          Buffer,      \* bound on the frames under way to the client
          Pairs        \* the <<read hook, write hook>> pairs to follow

ASSUME BoundsAssumption == MaxWrites \in Nat \ {0} /\ Buffer \in Nat

VARIABLES q, m,      \* the read hook and the write hook of this behaviour
          ver,       \* writes the server's table has seen
          entry,     \* the cache entry of q
          fly,       \* the request under way for q
          mounted,   \* does a screen observe q
          call,      \* the mutation of this client
          link,      \* is the WebSocket open
          frames,    \* frames under way, each the version it announces
          owed,      \* last own write whose onSuccess found q refetchable
          told       \* last frame handled while q was refetchable

vars == <<q, m, ver, entry, fly, mounted, call, link, frames, owed, told>>

NoData == -1
Fail   == -2
Unread == -3

\* The write writes a table the read's answer is of.
HomePairs == {p \in ReadHooks \X WriteHooks : p[1].home \cap p[2].writes # {}}
IsLiveOnly(hook) == Head(hook.key) = "live-only"

ChoreWrites  == {useCreateChore, useUpdateChore, useArchiveChore}
TimerWrites  == {useStartChoreTimer, useStopChoreTimer, useRecordManualTimeEntry}
MemberWrites ==
    {useCreateMember, useUpdateMember, useDeleteMember, useApproveJoinRequest, useUpdateMemberNotify}

\* The pairs whose onSuccess does not name the read it makes stale.
Unnamed ==
    UNION {{useTimeline} \X {useMarkChoreComplete, useUndoChoreComplete, useTip, useCashOut, useApproveAdHocTask,
                             useDeclineRedemption, useFulfillRedemption, useDeleteRewardAdjustment},
           {useEquityContribution} \X (TimerWrites \cup ChoreWrites \cup MemberWrites),
           {useHousekeeperEstimate} \X (TimerWrites \cup ChoreWrites),
           {useChoreCompletions} \X ChoreWrites,
           {useScoreboard} \X (MemberWrites \cup {useRedeemReward, useApproveRedemption}),
           {useMyHouseholds} \X MemberWrites,
           {useMyHouseholds, useHouseholdByCode} \X {useUpdateHouseholdSettings, useRegenerateInviteCode},
           {useMembers} \X {useUpdateMemberNotify},
           {useCollectionRecipes} \X {useImportRecipe},
           {useImportJob} \X {useStartImportJob}}

\* The reads an onSuccess names, and those a frame's branch of handleInvalidation names.
NamedByWrites(hook, write) == ~IsLiveOnly(hook) /\ <<hook, write>> \notin Unnamed
NamedByFrames(hook, write) == ~IsLiveOnly(hook) /\ write.frame \in {"event", "list", "routine", "equity"}

\* The table of hooks says so: the onSuccess of a write names the reads of its tables
\* but for the pairs listed, none of which it names, and so does a frame with a branch.
ASSUME PairsAssumption ==
    \A p \in Pairs :
        /\ p = <<p[1], p[2]>> /\ p[1].retry \in 0..1
        /\ NamedByWrites(p[1], p[2]) <=> Matches(p[2].inval, p[1].key)
        /\ NamedByFrames(p[1], p[2]) => Matches(FrameKeys(p[2].frame), p[1].key)

Versions == 0..MaxWrites
Idle == [on |-> FALSE, answer |-> Unread, tries |-> 0]
Request(tries) == [on |-> TRUE, answer |-> Unread, tries |-> tries]

TypeOK ==
    /\ <<q, m>> \in Pairs
    /\ ver \in Versions
    /\ entry \in [data : Versions \cup {NoData}, invalid : BOOLEAN, aged : BOOLEAN, failed : BOOLEAN]
    /\ fly \in [on : BOOLEAN, answer : Versions \cup {Unread, Fail}, tries : 0..1]
    /\ mounted \in BOOLEAN
    /\ call \in [at : {"idle", "sent", "applied", "refused"}, wrote : Versions]
    /\ link \in BOOLEAN
    /\ frames \in Seq(Versions) /\ Len(frames) <= Buffer
    /\ owed \in Versions /\ told \in Versions

Init ==
    /\ \E p \in Pairs : q = p[1] /\ m = p[2]
    /\ ver = 0
    /\ entry = [data |-> NoData, invalid |-> FALSE, aged |-> FALSE, failed |-> FALSE]
    /\ fly = Idle /\ mounted = FALSE
    /\ call = [at |-> "idle", wrote |-> 0]
    /\ link = FALSE /\ frames = <<>>
    /\ owed = 0 /\ told = 0

-----------------------------------------------------------------------------
(* The query client: staleTime 30 s, gcTime 5 min, retry 1, no refetch on  *)
(* focus.                                                                  *)

\* Mutant: an invalidated answer counts as fresh until it has aged.
StaleByAge(e) == e.data = NoData \/ e.aged

Stale(e) == e.data = NoData \/ e.invalid \/ e.aged

\* A screen that uses q mounts: stale data is fetched in the background.
Mount ==
    /\ ~mounted
    /\ mounted' = TRUE
    /\ fly' = IF ~fly.on /\ Stale(entry) THEN Request(0) ELSE fly
    /\ UNCHANGED <<q, m, ver, entry, call, link, frames, owed, told>>

\* The request of an unmounted query goes on.
Unmount ==
    /\ mounted
    /\ mounted' = FALSE
    /\ UNCHANGED <<q, m, ver, entry, fly, call, link, frames, owed, told>>

StaleTimePasses ==
    /\ entry.data # NoData /\ ~entry.aged
    /\ entry' = [entry EXCEPT !.aged = TRUE]
    /\ UNCHANGED <<q, m, ver, fly, mounted, call, link, frames, owed, told>>

GcTimePasses ==
    /\ ~mounted /\ ~fly.on /\ entry.data # NoData
    /\ entry' = [data |-> NoData, invalid |-> FALSE, aged |-> FALSE, failed |-> FALSE]
    /\ UNCHANGED <<q, m, ver, fly, mounted, call, link, frames, owed, told>>

\* Mutant: a failed poll is the last.
PollUntilError ==
    /\ q.poll /\ mounted /\ ~fly.on /\ ~entry.failed
    /\ fly' = Request(0)
    /\ UNCHANGED <<q, m, ver, entry, mounted, call, link, frames, owed, told>>

\* refetchInterval of a polled hook.
Poll ==
    /\ q.poll /\ mounted /\ ~fly.on
    /\ fly' = Request(0)
    /\ UNCHANGED <<q, m, ver, entry, mounted, call, link, frames, owed, told>>

\* The server reads its table, or the request fails.
Serve ==
    /\ fly.on /\ fly.answer = Unread
    /\ \E a \in {ver, Fail} : fly' = [fly EXCEPT !.answer = a]
    /\ UNCHANGED <<q, m, ver, entry, mounted, call, link, frames, owed, told>>

\* request() resolves: the answer is cached and is no longer invalid.
Receive ==
    /\ fly.on /\ fly.answer \in Versions
    /\ entry' = [data |-> fly.answer, invalid |-> FALSE, aged |-> FALSE, failed |-> FALSE]
    /\ fly' = Idle
    /\ UNCHANGED <<q, m, ver, mounted, call, link, frames, owed, told>>

\* Mutant: the error state forgets the old data.
ReceiveErrorForgets ==
    /\ fly.on /\ fly.answer = Fail
    /\ \/ /\ fly.tries < q.retry
          /\ fly' = Request(fly.tries + 1)
          /\ UNCHANGED entry
       \/ /\ fly.tries = q.retry
          /\ fly' = Idle
          /\ entry' = [entry EXCEPT !.data = NoData, !.failed = TRUE, !.invalid = TRUE]
    /\ UNCHANGED <<q, m, ver, mounted, call, link, frames, owed, told>>

\* request() throws: one retry, then the error state over the old data.
ReceiveError ==
    /\ fly.on /\ fly.answer = Fail
    /\ \/ /\ fly.tries < q.retry
          /\ fly' = Request(fly.tries + 1)
          /\ UNCHANGED entry
       \/ /\ fly.tries = q.retry
          /\ fly' = Idle
          /\ entry' = [entry EXCEPT !.failed = TRUE, !.invalid = TRUE]
    /\ UNCHANGED <<q, m, ver, mounted, call, link, frames, owed, told>>

(* invalidateQueries: the entry is marked, and fetched again if a screen   *)
(* observes it.  A fetch under way is replaced, but the first one (there   *)
(* is no data yet) is kept, and so is the one of an unmounted query.       *)
Invalidated(keys) ==
    IF ~Matches(keys, q.key) THEN UNCHANGED <<entry, fly>>
    ELSE /\ entry' = [entry EXCEPT !.invalid = TRUE]
         /\ fly' = IF mounted /\ (~fly.on \/ entry.data # NoData) THEN Request(0) ELSE fly

\* No fetch under way that an invalidation would leave in place.
Refetchable == ~fly.on \/ (mounted /\ entry.data # NoData)

-----------------------------------------------------------------------------
(* Writes.                                                                 *)

\* Mutant: nothing bounds what is under way.
PublishUnbounded == frames' = IF m.frame # "none" /\ link THEN Append(frames, ver + 1) ELSE frames

\* The server broadcasts to the open sockets of the household.
Publish == frames' = IF m.frame # "none" /\ link /\ Len(frames) < Buffer
                     THEN Append(frames, ver + 1) ELSE frames

mutate ==
    /\ call.at = "idle" /\ ver < MaxWrites
    /\ call' = [call EXCEPT !.at = "sent"]
    /\ UNCHANGED <<q, m, ver, entry, fly, mounted, link, frames, owed, told>>

ServerApplies ==
    /\ call.at = "sent" /\ ver < MaxWrites
    /\ ver' = ver + 1
    /\ call' = [at |-> "applied", wrote |-> ver + 1]
    /\ Publish
    /\ UNCHANGED <<q, m, entry, fly, mounted, link, owed, told>>

ServerRefuses ==
    /\ call.at = "sent"
    /\ call' = [call EXCEPT !.at = "refused"]
    /\ UNCHANGED <<q, m, ver, entry, fly, mounted, link, frames, owed, told>>

onSuccess ==
    /\ call.at = "applied"
    /\ call' = [call EXCEPT !.at = "idle"]
    /\ Invalidated(m.inval)
    /\ owed' = IF Refetchable THEN call.wrote ELSE owed
    /\ UNCHANGED <<q, m, ver, mounted, link, frames, told>>

\* The refusal, or a lost answer to a write that was applied: no onSuccess.
onError ==
    /\ call.at \in {"refused", "applied"}
    /\ call' = [call EXCEPT !.at = "idle"]
    /\ UNCHANGED <<q, m, ver, entry, fly, mounted, link, frames, owed, told>>

\* Another device of the household runs the same mutation.
OtherDeviceWrites ==
    /\ ver < MaxWrites
    /\ ver' = ver + 1
    /\ Publish
    /\ UNCHANGED <<q, m, entry, fly, mounted, call, link, owed, told>>

-----------------------------------------------------------------------------
(* The WebSocket; its life cycle is in module WebSession.                  *)

Open ==
    /\ ~link
    /\ link' = TRUE
    /\ UNCHANGED <<q, m, ver, entry, fly, mounted, call, frames, owed, told>>

\* A dropped connection loses what was under way; reopening refetches nothing.
Drop ==
    /\ link
    /\ link' = FALSE /\ frames' = <<>>
    /\ UNCHANGED <<q, m, ver, entry, fly, mounted, call, owed, told>>

onmessage ==
    /\ frames # <<>>
    /\ frames' = Tail(frames)
    /\ Invalidated(FrameKeys(m.frame))
    /\ told' = IF Refetchable THEN Head(frames) ELSE told
    /\ UNCHANGED <<q, m, ver, mounted, call, link, owed>>

Client == mutate \/ Mount \/ Unmount
Progress == Poll \/ Serve \/ Receive \/ ReceiveError
Next ==
    \/ Client \/ Progress \/ StaleTimePasses \/ GcTimePasses
    \/ ServerApplies \/ ServerRefuses \/ onSuccess \/ onError \/ OtherDeviceWrites
    \/ Open \/ Drop \/ onmessage

Spec == Init /\ [][Next]_vars

\* A poll fires, the server answers, and does not fail for ever.
CacheFairness ==
    /\ WF_vars(Poll) /\ WF_vars(ReceiveError) /\ WF_vars(Serve) /\ WF_vars(Receive)
    /\ SF_vars(Serve /\ fly'.answer # Fail)
FairSpec == Spec /\ CacheFairness

-----------------------------------------------------------------------------
(* Properties.                                                             *)

\* A screen shows settled data: it observes q, nothing is under way and the
\* last fetch did not fail.
Settled == mounted /\ ~fly.on /\ ~entry.failed

\* What this client wrote it shows: once a mutation's onSuccess has run while
\* no unreplaceable fetch of the table was under way, a settled screen shows
\* data at least as new as that write - through retries, unmounting,
\* remounting, errors and frames, for every pair of hooks whose onSuccess names
\* the read.  (The "live-only" keys and the pairs of Unnamed show the write
\* only when they are fetched for another reason.)
OwnWriteShown ==
    Settled /\ NamedByWrites(q, m) => entry.data >= owed

\* What a frame announced is shown in the same way, for the reads whose key
\* handleInvalidation really names.
FrameShown ==
    Settled /\ NamedByFrames(q, m) => entry.data >= told

\* A settled screen shows what its client was told: by the answers to its own
\* writes, and by the frames (onSuccess, handleInvalidation).
WritesShown == OwnWriteShown /\ FrameShown

\* A polled read that stays on screen ends up with the server's table,
\* whatever failed, raced or was lost before.
PolledCatchesUp == q.poll /\ <>[]mounted => <>[](entry.data = ver)

Copy == INSTANCE CachedCopy WITH table <- ver, copy <- entry.data, used <- mounted, None <- NoData

\* The copy a read shows follows the table: through refetches, failures, retries
\* and invalidations it never goes back to older data and stays while a screen
\* uses it, and a polled one catches up.
FollowsTable == Copy!Spec /\ PolledCatchesUp
=============================================================================
