-------------------------- MODULE QueryCacheProofs --------------------------
(***************************************************************************)
(* Proofs about one cached read and one write hook of its table: for every *)
(* pair of hooks, every number of writes and every buffer, a settled       *)
(* screen shows what the client was told.                                  *)
(***************************************************************************)
EXTENDS QueryCache, TLAPS

Entries == [data : Versions \cup {NoData}, invalid : BOOLEAN, aged : BOOLEAN, failed : BOOLEAN]
Requests == [on : BOOLEAN, answer : Versions \cup {Unread, Fail}, tries : 0..1]
Calls == [at : {"idle", "sent", "applied", "refused"}, wrote : Versions]

\* The read knows of version v, or will: an answer under way, an entry that is not marked
\* and a settled screen are all at least as new.
Reaches(v) ==
    /\ v <= ver
    /\ fly.on /\ fly.answer \in Versions => fly.answer >= v
    /\ entry.data # NoData /\ ~entry.invalid => entry.data >= v
    /\ Settled => entry.data >= v

\* What is said of versions on their way: a written one is the server's, and frames are sent
\* only for hooks that broadcast.
NewsOK ==
    /\ call.at = "applied" => call.wrote <= ver
    /\ \A i \in 1..Len(frames) : frames[i] <= ver
    /\ frames # <<>> => m.frame # "none"

\* The inductive invariant.
CacheInv ==
    /\ TypeOK
    /\ NewsOK
    /\ NamedByWrites(q, m) => Reaches(owed)
    /\ NamedByFrames(q, m) => Reaches(told)

-----------------------------------------------------------------------------
(* The numbers and the records.                                            *)

\* Versions are naturals, and no marker is one.
LEMMA VersionsNat ==
    /\ MaxWrites \in Nat /\ Buffer \in Nat /\ 0 \in Versions /\ \A v \in Versions : v \in Nat /\ v >= 0
    /\ NoData \notin Versions /\ Unread \notin Versions /\ Fail \notin Versions /\ NoData \in Int
  BY BoundsAssumption DEF Versions, NoData, Unread, Fail

\* The next version.
LEMMA NextVersion == \A v \in Versions : v < MaxWrites => v + 1 \in Versions /\ v + 1 > v
  BY BoundsAssumption DEF Versions

\* The requests an action makes.
LEMMA RequestTypes ==
    /\ Idle \in Requests /\ ~Idle.on
    /\ \A n \in 0..1 : Request(n) \in Requests /\ Request(n).on /\ Request(n).answer = Unread
  BY DEF Idle, Request, Requests

\* The entry, marked in part.
LEMMA EntryTypes ==
    ASSUME NEW e \in Entries
    PROVE  /\ [e EXCEPT !.aged = TRUE] \in Entries /\ [e EXCEPT !.invalid = TRUE] \in Entries
           /\ [e EXCEPT !.failed = TRUE, !.invalid = TRUE] \in Entries
           /\ [e EXCEPT !.aged = TRUE].data = e.data /\ [e EXCEPT !.aged = TRUE].invalid = e.invalid
           /\ [e EXCEPT !.aged = TRUE].failed = e.failed
           /\ [e EXCEPT !.invalid = TRUE].data = e.data /\ [e EXCEPT !.invalid = TRUE].invalid
           /\ [e EXCEPT !.invalid = TRUE].failed = e.failed
           /\ [e EXCEPT !.failed = TRUE, !.invalid = TRUE].failed /\ [e EXCEPT !.failed = TRUE, !.invalid = TRUE].invalid
           /\ [e EXCEPT !.failed = TRUE, !.invalid = TRUE].data = e.data
  BY DEF Entries

\* The types of an entry's parts.
LEMMA Typed ==
    ASSUME TypeOK
    PROVE  /\ <<q, m>> \in Pairs /\ ver \in Versions /\ entry \in Entries /\ fly \in Requests /\ call \in Calls
           /\ entry.data \in Int /\ owed \in Versions /\ told \in Versions /\ call.wrote \in Versions
           /\ entry.invalid \in BOOLEAN /\ entry.failed \in BOOLEAN /\ fly.on \in BOOLEAN
           /\ frames \in Seq(Versions) /\ Len(frames) <= Buffer
<1>1. entry \in Entries /\ fly \in Requests /\ call \in Calls
  BY DEF TypeOK, Entries, Requests, Calls
<1>2. entry.data \in Versions \cup {NoData}
  BY <1>1 DEF Entries
<1> QED
  BY <1>1, <1>2, VersionsNat DEF TypeOK, Entries, Requests, Calls

\* The pair's place in the table of hooks.
LEMMA PairNamed ==
    ASSUME TypeOK
    PROVE  /\ q.retry \in 0..1
           /\ NamedByWrites(q, m) => Matches(m.inval, q.key)
           /\ NamedByFrames(q, m) => Matches(FrameKeys(m.frame), q.key)
<1>1. <<q, m>> \in Pairs /\ <<q, m>>[1] = q /\ <<q, m>>[2] = m
  BY DEF TypeOK
<1> QED
  BY <1>1, PairsAssumption

-----------------------------------------------------------------------------
(* What the steps do to a version the read reaches.                        *)

\* The server moves on, or the entry, the request and the screen stay.
LEMMA ReachesKept ==
    ASSUME TypeOK, NEW v \in Versions, Reaches(v), ver' \in Versions, ver' >= ver, UNCHANGED <<entry, fly, mounted>>
    PROVE  Reaches(v)'
  BY Typed, VersionsNat DEF Reaches, Settled

\* A matching invalidation while an unreplaceable request may be under way.
LEMMA ReachesMarked ==
    ASSUME TypeOK, NEW v \in Versions, Reaches(v), UNCHANGED <<ver, mounted>>, NEW keys, Invalidated(keys)
    PROVE  Reaches(v)'
<1>1. CASE ~Matches(keys, q.key)
  BY <1>1 DEF Invalidated, Reaches, Settled
<1>2. CASE Matches(keys, q.key)
  <2>1. entry' = [entry EXCEPT !.invalid = TRUE] /\ entry'.invalid /\ entry'.data = entry.data /\ entry'.failed = entry.failed
    BY <1>2, Typed, EntryTypes DEF Invalidated
  <2>2. CASE mounted /\ (~fly.on \/ entry.data # NoData)
    <3>1. fly'.on /\ fly'.answer \notin Versions
      BY <1>2, <2>2, RequestTypes, VersionsNat DEF Invalidated
    <3> QED
      BY <2>1, <3>1 DEF Reaches, Settled
  <2>3. CASE ~(mounted /\ (~fly.on \/ entry.data # NoData))
    <3>1. fly' = fly
      BY <1>2, <2>3 DEF Invalidated
    <3> QED
      BY <2>1, <2>3, <3>1 DEF Reaches, Settled
  <2> QED
    BY <2>2, <2>3
<1> QED
  BY <1>1, <1>2

\* A matching invalidation that finds the read refetchable makes it reach any version the
\* server has.
LEMMA ReachesNew ==
    ASSUME TypeOK, NEW v \in Versions, v <= ver, UNCHANGED <<ver, mounted>>, NEW keys, Invalidated(keys),
           Matches(keys, q.key), Refetchable
    PROVE  Reaches(v)'
<1>1. entry' = [entry EXCEPT !.invalid = TRUE] /\ entry'.invalid
  BY Typed, EntryTypes DEF Invalidated
<1>2. CASE mounted /\ (~fly.on \/ entry.data # NoData)
  <2>1. fly'.on /\ fly'.answer \notin Versions
    BY <1>2, RequestTypes, VersionsNat DEF Invalidated
  <2> QED
    BY <1>1, <2>1 DEF Reaches, Settled
<1>3. CASE ~(mounted /\ (~fly.on \/ entry.data # NoData))
  <2>1. fly' = fly /\ ~fly.on /\ ~mounted
    BY <1>3 DEF Invalidated, Refetchable
  <2> QED
    BY <1>1, <2>1 DEF Reaches, Settled
<1> QED
  BY <1>2, <1>3

\* The steps of the query client.
LEMMA ReachesFetched ==
    ASSUME TypeOK, NEW v \in Versions, Reaches(v),
           Mount \/ Unmount \/ StaleTimePasses \/ GcTimePasses \/ Poll \/ Serve \/ Receive \/ ReceiveError
    PROVE  Reaches(v)'
<1>1. ver' = ver
  BY DEF Mount, Unmount, StaleTimePasses, GcTimePasses, Poll, Serve, Receive, ReceiveError
<1>2. CASE Mount
  <2>1. CASE ~fly.on /\ Stale(entry)
    <3>1. fly'.on /\ fly'.answer \notin Versions /\ entry' = entry
      BY <1>2, <2>1, RequestTypes, VersionsNat DEF Mount
    <3> QED
      BY <1>1, <3>1 DEF Reaches, Settled
  <2>2. CASE ~(~fly.on /\ Stale(entry))
    <3>1. fly' = fly /\ entry' = entry
      BY <1>2, <2>2 DEF Mount
    <3> QED
      BY <1>1, <2>2, <3>1 DEF Reaches, Settled, Stale
  <2> QED
    BY <2>1, <2>2
<1>3. CASE Unmount
  BY <1>1, <1>3 DEF Unmount, Reaches, Settled
<1>4. CASE StaleTimePasses
  <2>1. entry'.data = entry.data /\ entry'.invalid = entry.invalid /\ entry'.failed = entry.failed
    BY <1>4, Typed, EntryTypes DEF StaleTimePasses
  <2> QED
    BY <1>1, <1>4, <2>1 DEF StaleTimePasses, Reaches, Settled
<1>5. CASE GcTimePasses
  BY <1>1, <1>5 DEF GcTimePasses, Reaches, Settled
<1>6. CASE Poll
  <2>1. fly'.on /\ fly'.answer \notin Versions /\ entry' = entry
    BY <1>6, RequestTypes, VersionsNat DEF Poll
  <2> QED
    BY <1>1, <2>1 DEF Reaches, Settled
<1>7. CASE Serve
  <2>1. fly'.on /\ (fly'.answer = ver \/ fly'.answer \notin Versions) /\ entry' = entry
    BY <1>7, Typed, VersionsNat DEF Serve, Requests
  <2> QED
    BY <1>1, <2>1, Typed, VersionsNat DEF Reaches, Settled
<1>8. CASE Receive
  <2>1. ~fly'.on /\ entry'.data = fly.answer /\ fly.answer >= v
    BY <1>8, RequestTypes DEF Receive, Reaches
  <2> QED
    BY <1>1, <2>1 DEF Reaches, Settled
<1>9. CASE ReceiveError
  <2>1. CASE fly.tries < q.retry /\ fly' = Request(fly.tries + 1) /\ entry' = entry
    <3>1. fly'.on /\ fly'.answer \notin Versions
      BY <2>1, VersionsNat DEF Request
    <3> QED
      BY <1>1, <2>1, <3>1 DEF Reaches, Settled
  <2>2. CASE fly' = Idle /\ entry' = [entry EXCEPT !.failed = TRUE, !.invalid = TRUE]
    <3>1. entry'.failed /\ entry'.invalid /\ ~fly'.on
      BY <2>2, Typed, EntryTypes, RequestTypes
    <3> QED
      BY <1>1, <3>1 DEF Reaches, Settled
  <2> QED
    BY <1>9, <2>1, <2>2 DEF ReceiveError
<1> QED
  BY <1>2, <1>3, <1>4, <1>5, <1>6, <1>7, <1>8, <1>9

-----------------------------------------------------------------------------
(* The types are kept.                                                     *)

\* The types, by name.
CacheTypes ==
    /\ <<q, m>> \in Pairs /\ ver \in Versions /\ entry \in Entries /\ fly \in Requests /\ mounted \in BOOLEAN
    /\ call \in Calls /\ link \in BOOLEAN /\ frames \in Seq(Versions) /\ Len(frames) <= Buffer
    /\ owed \in Versions /\ told \in Versions

LEMMA TypesNamed == TypeOK <=> CacheTypes
  BY DEF TypeOK, CacheTypes, Entries, Requests, Calls

\* An entry with nothing cached, and one with an answer.
LEMMA EntryMade ==
    \A d \in Versions \cup {NoData} : [data |-> d, invalid |-> FALSE, aged |-> FALSE, failed |-> FALSE] \in Entries
  BY DEF Entries

\* The steps of the query client.
LEMMA FetchTypes ==
    ASSUME CacheTypes,
           Mount \/ Unmount \/ StaleTimePasses \/ GcTimePasses \/ Poll \/ Serve \/ Receive \/ ReceiveError
    PROVE  CacheTypes'
<1>1. entry \in Entries /\ fly \in Requests /\ ver \in Versions
  BY DEF CacheTypes
<1>2. CASE Mount
  BY <1>2, RequestTypes DEF Mount, CacheTypes
<1>3. CASE Unmount
  BY <1>3 DEF Unmount, CacheTypes
<1>4. CASE StaleTimePasses
  BY <1>1, <1>4, EntryTypes DEF StaleTimePasses, CacheTypes
<1>5. CASE GcTimePasses
  BY <1>5, EntryMade DEF GcTimePasses, CacheTypes
<1>6. CASE Poll
  BY <1>6, RequestTypes DEF Poll, CacheTypes
<1>7. CASE Serve
  <2>1. fly' \in Requests
    BY <1>1, <1>7 DEF Serve, Requests
  <2> QED
    BY <1>7, <2>1 DEF Serve, CacheTypes
<1>8. CASE Receive
  BY <1>8, EntryMade, RequestTypes DEF Receive, CacheTypes
<1>9. CASE ReceiveError
  <2>1. fly.tries \in 0..1 /\ q.retry \in 0..1
    BY <1>1, PairNamed, TypesNamed DEF Requests
  <2>2. fly' \in Requests /\ entry' \in Entries
    <3>1. CASE fly.tries < q.retry /\ fly' = Request(fly.tries + 1) /\ entry' = entry
      <4>1. fly.tries + 1 \in 0..1
        BY <2>1, <3>1
      <4> QED
        BY <1>1, <3>1, <4>1, RequestTypes
    <3>2. CASE fly' = Idle /\ entry' = [entry EXCEPT !.failed = TRUE, !.invalid = TRUE]
      BY <1>1, <3>2, EntryTypes, RequestTypes
    <3> QED
      BY <1>9, <3>1, <3>2 DEF ReceiveError
  <2> QED
    BY <1>9, <2>2 DEF ReceiveError, CacheTypes
<1> QED
  BY <1>2, <1>3, <1>4, <1>5, <1>6, <1>7, <1>8, <1>9

\* An invalidation.
LEMMA MarkTypes ==
    ASSUME entry \in Entries, fly \in Requests, NEW keys, Invalidated(keys)
    PROVE  entry' \in Entries /\ fly' \in Requests
<1>1. [entry EXCEPT !.invalid = TRUE] \in Entries
  BY EntryTypes
<1>2. Request(0) \in Requests
  BY RequestTypes
<1> QED
  BY <1>1, <1>2 DEF Invalidated

\* A broadcast appends the new version, and only a hook that broadcasts sends one.
LEMMA PublishTypes ==
    ASSUME frames \in Seq(Versions), Len(frames) <= Buffer, NEW n \in Versions, n = ver + 1, Publish
    PROVE  /\ frames' \in Seq(Versions) /\ Len(frames') <= Buffer
           /\ \A i \in 1..Len(frames') : (i \in 1..Len(frames) /\ frames'[i] = frames[i]) \/ frames'[i] = n
           /\ frames' # <<>> => frames # <<>> \/ m.frame # "none"
<1>1. CASE m.frame # "none" /\ link /\ Len(frames) < Buffer
  <2>1. frames' = Append(frames, n)
    BY <1>1 DEF Publish
  <2> QED
    BY <1>1, <2>1, VersionsNat
<1>2. CASE ~(m.frame # "none" /\ link /\ Len(frames) < Buffer)
  BY <1>2 DEF Publish
<1> QED
  BY <1>1, <1>2

\* The calls.
LEMMA CallTypes ==
    ASSUME NEW c \in Calls
    PROVE  \A a \in {"idle", "sent", "applied", "refused"} : [c EXCEPT !.at = a] \in Calls /\ [c EXCEPT !.at = a].at = a
  BY DEF Calls

\* The writes and the socket.
LEMMA WriteTypes ==
    ASSUME CacheTypes,
           \/ mutate \/ ServerApplies \/ ServerRefuses \/ onSuccess \/ onError \/ OtherDeviceWrites
           \/ Open \/ Drop \/ onmessage
    PROVE  CacheTypes'
<1>1. entry \in Entries /\ fly \in Requests /\ ver \in Versions /\ call \in Calls /\ call.wrote \in Versions
  BY DEF CacheTypes, Calls
<1>2. CASE mutate
  BY <1>1, <1>2, CallTypes DEF mutate, CacheTypes
<1>3. CASE ServerApplies
  <2>1. PICK n \in Versions : n = ver + 1
    BY <1>1, <1>3, NextVersion DEF ServerApplies
  <2>2. call' \in Calls
    BY <1>3, <2>1 DEF ServerApplies, Calls
  <2>3. frames' \in Seq(Versions) /\ Len(frames') <= Buffer
    BY <1>3, <2>1, PublishTypes DEF ServerApplies, CacheTypes
  <2> QED
    BY <1>3, <2>1, <2>2, <2>3 DEF ServerApplies, CacheTypes
<1>4. CASE ServerRefuses
  BY <1>1, <1>4, CallTypes DEF ServerRefuses, CacheTypes
<1>5. CASE onSuccess
  <2>1. entry' \in Entries /\ fly' \in Requests
    BY <1>1, <1>5, MarkTypes DEF onSuccess
  <2>2. call' \in Calls
    BY <1>1, <1>5, CallTypes DEF onSuccess
  <2>3. owed' \in Versions
    BY <1>1, <1>5 DEF onSuccess, CacheTypes
  <2> QED
    BY <1>5, <2>1, <2>2, <2>3 DEF onSuccess, CacheTypes
<1>6. CASE onError
  BY <1>1, <1>6, CallTypes DEF onError, CacheTypes
<1>7. CASE OtherDeviceWrites
  <2>1. PICK n \in Versions : n = ver + 1
    BY <1>1, <1>7, NextVersion DEF OtherDeviceWrites
  <2>2. frames' \in Seq(Versions) /\ Len(frames') <= Buffer
    BY <1>7, <2>1, PublishTypes DEF OtherDeviceWrites, CacheTypes
  <2> QED
    BY <1>7, <2>1, <2>2 DEF OtherDeviceWrites, CacheTypes
<1>8. CASE Open
  BY <1>8 DEF Open, CacheTypes
<1>9. CASE Drop
  <2>1. frames' \in Seq(Versions) /\ Len(frames') <= Buffer
    BY <1>9, VersionsNat DEF Drop
  <2> QED
    BY <1>9, <2>1 DEF Drop, CacheTypes
<1>10. CASE onmessage
  <2>1. entry' \in Entries /\ fly' \in Requests
    BY <1>1, <1>10, MarkTypes DEF onmessage
  <2>2. frames' \in Seq(Versions) /\ Len(frames') <= Buffer /\ Head(frames) \in Versions
    BY <1>10, VersionsNat DEF onmessage, CacheTypes
  <2>3. told' \in Versions
    BY <1>10, <2>2 DEF onmessage, CacheTypes
  <2> QED
    BY <1>10, <2>1, <2>2, <2>3 DEF onmessage, CacheTypes
<1> QED
  BY <1>2, <1>3, <1>4, <1>5, <1>6, <1>7, <1>8, <1>9, <1>10

-----------------------------------------------------------------------------
(* The news.                                                               *)

\* Steps that leave the server, the frames and an applied call alone.
LEMMA NewsKept ==
    ASSUME NewsOK, UNCHANGED <<m, ver, frames>>, call'.at = "applied" => call.at = "applied" /\ call'.wrote = call.wrote
    PROVE  NewsOK'
  BY DEF NewsOK

\* The version announced is the one the table then has.
LEMMA NewsPublished ==
    ASSUME TypeOK, NewsOK, m' = m, NEW n \in Versions, n = ver + 1, ver' = n, Publish,
           call'.at = "applied" => call'.wrote = n \/ (call.at = "applied" /\ call'.wrote = call.wrote)
    PROVE  NewsOK'
<1>1. frames \in Seq(Versions) /\ Len(frames) <= Buffer /\ ver \in Nat /\ n \in Nat /\ call.wrote \in Nat
  BY Typed, VersionsNat
<1>2. \A i \in 1..Len(frames) : frames[i] \in Nat
  <2>1. \A i \in 1..Len(frames) : frames[i] \in Versions
    BY <1>1
  <2> QED
    BY <2>1, VersionsNat
<1>3. call'.at = "applied" => call'.wrote <= ver'
  BY <1>1 DEF NewsOK
<1>4. \A i \in 1..Len(frames) : frames[i] <= n
  BY <1>1, <1>2 DEF NewsOK
<1>5. \A i \in 1..Len(frames') : frames'[i] <= n
  <2>1. \A i \in 1..Len(frames') : (i \in 1..Len(frames) /\ frames'[i] = frames[i]) \/ frames'[i] = n
    BY <1>1, PublishTypes
  <2> QED
    BY <1>1, <1>4, <2>1
<1>6. frames' # <<>> => m.frame # "none"
  BY <1>1, PublishTypes DEF NewsOK
<1> QED
  BY <1>3, <1>5, <1>6 DEF NewsOK

-----------------------------------------------------------------------------
(* The invariant and what follows from it.                                 *)

\* The client starts with an empty cache and no socket.
LEMMA InitInv == Init => CacheInv
<1> SUFFICES ASSUME Init PROVE CacheInv
  OBVIOUS
<1>1. <<q, m>> \in Pairs
  <2>1. PICK p \in Pairs : q = p[1] /\ m = p[2]
    BY DEF Init
  <2>2. p = <<p[1], p[2]>>
    BY <2>1, PairsAssumption
  <2> QED
    BY <2>1, <2>2
<1>2. CacheTypes
  <2>1. entry \in Entries /\ fly \in Requests
    BY EntryMade, RequestTypes DEF Init
  <2>2. call \in Calls
    BY VersionsNat DEF Init, Calls
  <2>3. frames \in Seq(Versions) /\ Len(frames) <= Buffer
    BY VersionsNat DEF Init
  <2> QED
    BY <1>1, <2>1, <2>2, <2>3, VersionsNat DEF Init, CacheTypes
<1>3. NewsOK
  BY DEF Init, NewsOK
<1>4. Reaches(owed) /\ Reaches(told)
  BY RequestTypes DEF Init, Reaches, Settled
<1> QED
  BY <1>2, <1>3, <1>4, TypesNamed DEF CacheInv

\* Every step keeps it.
LEMMA NextInv == CacheInv /\ [Next]_vars => CacheInv'
<1> SUFFICES ASSUME CacheInv, [Next]_vars PROVE CacheInv'
  OBVIOUS
<1>1. TypeOK /\ CacheTypes /\ NewsOK
  BY TypesNamed DEF CacheInv
<1>2. /\ ver \in Versions /\ owed \in Versions /\ told \in Versions /\ call \in Calls /\ call.wrote \in Versions
      /\ frames \in Seq(Versions) /\ ver \in Nat
  BY <1>1, Typed, VersionsNat
<1>3. PICK o \in Versions : o = owed
  BY <1>2
<1>4. PICK t \in Versions : t = told
  BY <1>2
<1>5. (NamedByWrites(q, m) => Reaches(o)) /\ (NamedByFrames(q, m) => Reaches(t))
  BY <1>3, <1>4 DEF CacheInv
<1>6. q' = q /\ m' = m
  BY DEF Next, Client, Progress, Mount, Unmount, StaleTimePasses, GcTimePasses, Poll, Serve, Receive, ReceiveError, mutate,
     ServerApplies, ServerRefuses, onSuccess, onError, OtherDeviceWrites, Open, Drop, onmessage, vars
<1>7. ASSUME CacheTypes', NewsOK', NamedByWrites(q, m) => Reaches(owed)', NamedByFrames(q, m) => Reaches(told)'
      PROVE  CacheInv'
  <2>1. TypeOK' <=> CacheTypes'
    BY TypesNamed, PTL
  <2> QED
    BY <1>6, <1>7, <2>1 DEF CacheInv, NamedByWrites, NamedByFrames
<1>8. CASE Mount \/ Unmount \/ StaleTimePasses \/ GcTimePasses \/ Poll \/ Serve \/ Receive \/ ReceiveError
  <2>1. UNCHANGED <<ver, frames, call, owed, told>>
    BY <1>8 DEF Mount, Unmount, StaleTimePasses, GcTimePasses, Poll, Serve, Receive, ReceiveError
  <2>2. CacheTypes'
    BY <1>1, <1>8, FetchTypes
  <2>3. NewsOK'
    BY <1>1, <1>6, <2>1, NewsKept
  <2>4. (NamedByWrites(q, m) => Reaches(o)') /\ (NamedByFrames(q, m) => Reaches(t)')
    BY <1>1, <1>5, <1>8, ReachesFetched
  <2>5. (NamedByWrites(q, m) => Reaches(owed)') /\ (NamedByFrames(q, m) => Reaches(told)')
    BY <1>3, <1>4, <2>1, <2>4 DEF Reaches
  <2> QED
    BY <1>7, <2>2, <2>3, <2>5
<1>9. CASE mutate \/ ServerRefuses \/ onError \/ Open \/ Drop
  <2>1. UNCHANGED <<ver, entry, fly, mounted, owed, told>>
    BY <1>9 DEF mutate, ServerRefuses, onError, Open, Drop
  <2>2. CacheTypes'
    BY <1>1, <1>9, WriteTypes
  <2>3. NewsOK'
    <3>1. CASE Drop
      BY <1>1, <3>1 DEF Drop, NewsOK
    <3>2. CASE mutate \/ ServerRefuses \/ onError \/ Open
      <4>1. frames' = frames /\ (call' = call \/ call'.at # "applied")
        BY <1>2, <3>2, CallTypes DEF mutate, ServerRefuses, onError, Open
      <4> QED
        BY <1>1, <1>6, <2>1, <4>1, NewsKept
    <3> QED
      BY <1>9, <3>1, <3>2
  <2>4. (NamedByWrites(q, m) => Reaches(o)') /\ (NamedByFrames(q, m) => Reaches(t)')
    BY <1>1, <1>2, <1>5, <2>1, ReachesKept
  <2>5. (NamedByWrites(q, m) => Reaches(owed)') /\ (NamedByFrames(q, m) => Reaches(told)')
    BY <1>3, <1>4, <2>1, <2>4 DEF Reaches
  <2> QED
    BY <1>7, <2>2, <2>3, <2>5
<1>10. CASE ServerApplies \/ OtherDeviceWrites
  <2>1. UNCHANGED <<entry, fly, mounted, owed, told>> /\ Publish
    BY <1>10 DEF ServerApplies, OtherDeviceWrites
  <2>2. PICK n \in Versions : n = ver + 1
    BY <1>2, <1>10, NextVersion DEF ServerApplies, OtherDeviceWrites
  <2>3. ver' = n /\ ver' \in Versions /\ ver' >= ver
    BY <1>2, <1>10, <2>2 DEF ServerApplies, OtherDeviceWrites
  <2>4. CacheTypes'
    BY <1>1, <1>10, WriteTypes
  <2>5. call'.at = "applied" => call'.wrote = n \/ (call.at = "applied" /\ call'.wrote = call.wrote)
    BY <1>10, <2>2 DEF ServerApplies, OtherDeviceWrites
  <2>6. NewsOK'
    BY <1>1, <1>6, <2>1, <2>2, <2>3, <2>5, NewsPublished
  <2>7. (NamedByWrites(q, m) => Reaches(o)') /\ (NamedByFrames(q, m) => Reaches(t)')
    BY <1>1, <1>5, <2>1, <2>3, ReachesKept
  <2>8. (NamedByWrites(q, m) => Reaches(owed)') /\ (NamedByFrames(q, m) => Reaches(told)')
    BY <1>3, <1>4, <2>1, <2>7 DEF Reaches
  <2> QED
    BY <1>7, <2>4, <2>6, <2>8
<1>11. CASE onSuccess
  <2>1. UNCHANGED <<ver, mounted, frames, told>> /\ Invalidated(m.inval) /\ call.at = "applied" /\ call'.at = "idle"
    BY <1>2, <1>11, CallTypes DEF onSuccess
  <2>2. CacheTypes'
    BY <1>1, <1>11, WriteTypes
  <2>3. NewsOK'
    BY <1>1, <1>6, <2>1, NewsKept
  <2>4. NamedByFrames(q, m) => Reaches(told)'
    <3>1. NamedByFrames(q, m) => Reaches(t)'
      BY <1>1, <1>5, <2>1, ReachesMarked
    <3> QED
      BY <1>4, <2>1, <3>1 DEF Reaches
  <2>5. NamedByWrites(q, m) => Reaches(owed)'
    <3>1. CASE Refetchable
      <4>1. PICK w \in Versions : w = call.wrote
        BY <1>2
      <4>2. w <= ver
        BY <1>1, <2>1, <4>1 DEF NewsOK
      <4>3. NamedByWrites(q, m) => Reaches(w)'
        BY <1>1, <2>1, <3>1, <4>2, PairNamed, ReachesNew
      <4>4. owed' = w
        BY <1>11, <3>1, <4>1 DEF onSuccess
      <4> QED
        BY <4>3, <4>4 DEF Reaches
    <3>2. CASE ~Refetchable
      <4>1. NamedByWrites(q, m) => Reaches(o)'
        BY <1>1, <1>5, <2>1, ReachesMarked
      <4>2. owed' = owed
        BY <1>11, <3>2 DEF onSuccess
      <4> QED
        BY <1>3, <4>1, <4>2 DEF Reaches
    <3> QED
      BY <3>1, <3>2
  <2> QED
    BY <1>7, <2>2, <2>3, <2>4, <2>5
<1>12. CASE onmessage
  <2>1. UNCHANGED <<ver, mounted, call, owed>> /\ Invalidated(FrameKeys(m.frame)) /\ frames # <<>> /\ frames' = Tail(frames)
    BY <1>12 DEF onmessage
  <2>2. CacheTypes'
    BY <1>1, <1>12, WriteTypes
  <2>3. NewsOK'
    <3>1. \A i \in 1..Len(frames') : i + 1 \in 1..Len(frames) /\ frames'[i] = frames[i + 1]
      BY <1>2, <2>1
    <3> QED
      BY <1>1, <1>6, <2>1, <3>1 DEF NewsOK
  <2>4. NamedByWrites(q, m) => Reaches(owed)'
    <3>1. NamedByWrites(q, m) => Reaches(o)'
      BY <1>1, <1>5, <2>1, ReachesMarked
    <3> QED
      BY <1>3, <2>1, <3>1 DEF Reaches
  <2>5. NamedByFrames(q, m) => Reaches(told)'
    <3>1. CASE Refetchable
      <4>1. PICK w \in Versions : w = Head(frames)
        <5>1. Head(frames) \in Versions
          BY <1>2, <2>1
        <5> QED
          BY <5>1
      <4>2. w <= ver
        <5>1. 1 \in 1..Len(frames) /\ Head(frames) = frames[1]
          BY <1>2, <2>1
        <5> QED
          BY <1>1, <4>1, <5>1 DEF NewsOK
      <4>3. m.frame # "none"
        BY <1>1, <2>1 DEF NewsOK
      <4>4. NamedByFrames(q, m) => Reaches(w)'
        BY <1>1, <2>1, <3>1, <4>2, <4>3, PairNamed, ReachesNew
      <4>5. told' = w
        BY <1>12, <3>1, <4>1 DEF onmessage
      <4> QED
        BY <4>4, <4>5 DEF Reaches
    <3>2. CASE ~Refetchable
      <4>1. NamedByFrames(q, m) => Reaches(t)'
        BY <1>1, <1>5, <2>1, ReachesMarked
      <4>2. told' = told
        BY <1>12, <3>2 DEF onmessage
      <4> QED
        BY <1>4, <4>1, <4>2 DEF Reaches
    <3> QED
      BY <3>1, <3>2
  <2> QED
    BY <1>7, <2>2, <2>3, <2>4, <2>5
<1>13. CASE UNCHANGED vars
  BY <1>13 DEF vars, CacheInv, TypeOK, NewsOK, Reaches, Settled
<1> QED
  BY <1>8, <1>9, <1>10, <1>11, <1>12, <1>13 DEF Next, Client, Progress

\* The invariant holds of every behaviour of the cache.
THEOREM CacheInvHolds == Spec => []CacheInv
  BY InitInv, NextInv, PTL DEF Spec

\* The entry, its request, the call and the frames keep their types, and no more than Buffer
\* frames are under way.
THEOREM CacheTypeCorrect == Spec => []TypeOK
<1>1. CacheInv => TypeOK
  BY DEF CacheInv
<1> QED
  BY <1>1, CacheInvHolds, PTL

\* A settled screen shows what its client was told, by the answers to its own writes and by
\* the frames, for every pair of hooks the table covers and every number of writes.
THEOREM WritesShownHolds == Spec => []WritesShown
<1>1. CacheInv => WritesShown
  BY DEF CacheInv, Reaches, WritesShown, OwnWriteShown, FrameShown
<1> QED
  BY <1>1, CacheInvHolds, PTL

-----------------------------------------------------------------------------
(* The read implements the copy.                                           *)

\* The copy is of a version the table has had, and an answer under way was read
\* after it.
CopyOld ==
    /\ entry.data <= ver
    /\ fly.on /\ fly.answer \in Versions => entry.data <= fly.answer /\ fly.answer <= ver

\* What makes a step one of the copy's: it keeps the read and its screen, or it is a write.
Follows ==
    \/ ver' = ver /\ entry'.data = entry.data /\ mounted' = mounted
    \/ Copy!Write \/ Copy!Refresh \/ Copy!Use \/ Copy!Forget

\* An invalidation marks the entry, and a request it starts has no answer yet.
LEMMA MarkedCopyOld ==
    ASSUME TypeOK, CopyOld, UNCHANGED <<ver, mounted>>, NEW keys, Invalidated(keys)
    PROVE  CopyOld' /\ Follows
<1>1. entry'.data = entry.data
  BY Typed, EntryTypes DEF Invalidated
<1>2. fly' = fly \/ fly'.answer \notin Versions
  BY RequestTypes, VersionsNat DEF Invalidated
<1> QED
  BY <1>1, <1>2 DEF CopyOld, Follows

\* The steps of the query client: only an answer changes the copy, to what is no
\* older, and only an unobserved read loses it.
LEMMA FetchedCopyOld ==
    ASSUME TypeOK, CopyOld,
           Mount \/ Unmount \/ StaleTimePasses \/ GcTimePasses \/ Poll \/ Serve \/ Receive \/ ReceiveError
    PROVE  CopyOld' /\ Follows
<1>1. ver' = ver /\ ver \in Nat /\ entry.data \in Int /\ mounted \in BOOLEAN /\ fly \in Requests
  BY Typed, VersionsNat DEF TypeOK, Mount, Unmount, StaleTimePasses, GcTimePasses, Poll, Serve, Receive, ReceiveError
<1>2. CASE Mount \/ Unmount \/ Poll
  <2>1. entry' = entry /\ (fly' = fly \/ fly'.answer \notin Versions)
    BY <1>2, RequestTypes, VersionsNat DEF Mount, Unmount, Poll
  <2>2. mounted' = mounted \/ mounted' = ~mounted
    BY <1>2 DEF Mount, Unmount, Poll
  <2> QED
    BY <1>1, <2>1, <2>2 DEF CopyOld, Follows, Copy!Use
<1>3. CASE StaleTimePasses
  <2>1. entry'.data = entry.data /\ fly' = fly /\ mounted' = mounted
    BY <1>3, Typed, EntryTypes DEF StaleTimePasses
  <2> QED
    BY <1>1, <2>1 DEF CopyOld, Follows
<1>4. CASE GcTimePasses
  <2>1. entry'.data = NoData /\ fly' = fly /\ ~fly.on /\ ~mounted /\ mounted' = mounted
    BY <1>4 DEF GcTimePasses
  <2> QED
    BY <1>1, <2>1 DEF CopyOld, Follows, Copy!Forget, NoData
<1>5. CASE Serve
  <2>1. fly'.answer = ver \/ fly'.answer \notin Versions
    BY <1>1, <1>5, VersionsNat DEF Serve, Requests
  <2>2. entry' = entry /\ mounted' = mounted
    BY <1>5 DEF Serve
  <2> QED
    BY <1>1, <2>1, <2>2 DEF CopyOld, Follows
<1>6. CASE Receive
  <2>1. PICK a \in Versions : a = fly.answer /\ entry.data <= a /\ a <= ver
    BY <1>6 DEF Receive, CopyOld
  <2>2. entry'.data = a /\ ~fly'.on /\ mounted' = mounted
    BY <1>6, <2>1, RequestTypes DEF Receive
  <2>3. a \in 0..ver
    BY <1>1, <2>1, VersionsNat
  <2> QED
    BY <1>1, <2>1, <2>2, <2>3 DEF CopyOld, Follows, Copy!Refresh
<1>7. CASE ReceiveError
  <2>1. entry'.data = entry.data
    <3>1. entry' = entry \/ entry' = [entry EXCEPT !.failed = TRUE, !.invalid = TRUE]
      BY <1>7 DEF ReceiveError
    <3>2. entry \in Entries
      BY Typed
    <3> QED
      BY <3>1, <3>2, EntryTypes
  <2>2. ~fly'.on \/ fly'.answer \notin Versions
    BY <1>7, RequestTypes, VersionsNat DEF ReceiveError, Request
  <2>3. mounted' = mounted
    BY <1>7 DEF ReceiveError
  <2> QED
    BY <1>1, <2>1, <2>2, <2>3 DEF CopyOld, Follows
<1> QED
  BY <1>2, <1>3, <1>4, <1>5, <1>6, <1>7

\* Every step of the client and of the server is one of the copy's, or leaves it alone.
LEMMA NextCopyOld == TypeOK /\ CopyOld /\ [Next]_vars => CopyOld' /\ Follows
<1> SUFFICES ASSUME TypeOK, CopyOld, [Next]_vars PROVE CopyOld' /\ Follows
  OBVIOUS
<1>1. ver \in Nat /\ ver \in Versions /\ entry.data \in Int /\ fly \in Requests
  BY Typed, VersionsNat
<1>2. CASE Mount \/ Unmount \/ StaleTimePasses \/ GcTimePasses \/ Poll \/ Serve \/ Receive \/ ReceiveError
  BY <1>2, FetchedCopyOld
<1>3. CASE onSuccess \/ onmessage
  BY <1>3, MarkedCopyOld DEF onSuccess, onmessage
<1>4. CASE ServerApplies \/ OtherDeviceWrites
  <2>1. PICK n \in Versions : n = ver + 1 /\ n > ver
    BY <1>1, <1>4, NextVersion DEF ServerApplies, OtherDeviceWrites
  <2>2. ver' = n /\ UNCHANGED <<entry, fly, mounted>>
    BY <1>4, <2>1 DEF ServerApplies, OtherDeviceWrites
  <2>3. fly.answer \in Versions => fly.answer \in Nat
    BY VersionsNat
  <2>4. n \in Nat
    BY VersionsNat
  <2> QED
    BY <1>1, <2>1, <2>2, <2>3, <2>4 DEF CopyOld, Follows, Copy!Write
<1>5. CASE mutate \/ ServerRefuses \/ onError \/ Open \/ Drop \/ UNCHANGED vars
  <2>1. UNCHANGED <<ver, entry, fly, mounted>>
    BY <1>5 DEF mutate, ServerRefuses, onError, Open, Drop, vars
  <2> QED
    BY <2>1 DEF CopyOld, Follows
<1> QED
  BY <1>2, <1>3, <1>4, <1>5 DEF Next, Client, Progress

\* For every pair of hooks and every interleaving of fetches, errors, retries, writes, frames and
\* invalidations, a read is one copy of the table that only moves forward and is dropped only while
\* no screen uses it (the query client, lib/api/provider.tsx).
THEOREM CacheIsACopy == Spec => Copy!Spec
<1>1. Init => CopyOld /\ Copy!Init
  BY RequestTypes DEF Init, CopyOld, Copy!Init, NoData
<1>2. TypeOK /\ CopyOld /\ [Next]_vars => CopyOld' /\ [Copy!Next]_Copy!vars
  BY NextCopyOld DEF Follows, Copy!Next, Copy!vars
<1> QED
  BY CacheTypeCorrect, <1>1, <1>2, PTL DEF Spec, Copy!Spec
=============================================================================
