--------------------------- MODULE CalendarViews ----------------------------
(***************************************************************************)
(* What the calendar shows (web/src/components/screens/calendar.tsx): the  *)
(* server's list for a range (internal/service/event.go), the columns of   *)
(* the week, the grid of the month, the groups of the agenda and the       *)
(* conflicts of the form.  A behaviour is one input.  A day has four       *)
(* instants; Zone is what the browser's clock is ahead of UTC.             *)
(***************************************************************************)
EXTENDS Listings

VARIABLE look

Day == 4
Zones == {-1, 0, 1}
UtcDay(t) == t \div Day
LocalDay(t, zone) == (t + zone) \div Day
Event(id, s, len, rule) == [id |-> id, start |-> s, end |-> s + len, rule |-> rule]
Lengths == [m \in 0..11 |-> IF m = 1 THEN 28 ELSE IF m \in {3, 5, 8, 10} THEN 30 ELSE 31]

\* Entries of the agenda: the member, and whether the search text is in the title or the place.
Entry(id) == [id : {id}, start : {-1, 0, 3, 4}, who : {{}, {"mom"}, {"mom", "kid"}}, title : BOOLEAN, place : BOOLEAN]

\* The chips above the agenda: "All", and one per member.
MemberFilterChips(members) == {"all"} \cup members

LookInputs ==
    {[kind |-> "week", zone |-> z, table |-> <<Event(1, s, n, 0)>>] : z \in Zones, s \in -6..31, n \in {0, 1, 5}}
       \cup {[kind |-> "cells", zone |-> z, table |-> [k \in 1..4 |-> Event(k, s[k], 1, 0)]]
                : z \in Zones, s \in [1..4 -> 0..4]}
       \cup {[kind |-> "day", table |-> <<[id |-> 1, who |-> a, sample |-> l], [id |-> 2, who |-> b, sample |-> l]>>]
                : a \in SUBSET {"mom", "kid", "gone"}, b \in SUBSET {"mom", "kid", "gone"}, l \in BOOLEAN}
       \cup {[kind |-> "series", zone |-> 0, table |-> <<Event(1, s, 1, r)>>] : s \in -3..8, r \in {0, Day}}
       \cup {[kind |-> "month", first |-> f, days |-> n, prev |-> p] : f \in 0..6, n \in 28..31, p \in 28..31}
       \cup {[kind |-> "step", month |-> m, day |-> d, steps |-> s] : m \in 0..11, d \in 1..31, s \in {1, -1}}
       \cup {[kind |-> "agenda", zone |-> 0, table |-> <<a, b>>, query |-> q, member |-> f]
                : a \in Entry(1), b \in Entry(2), q \in BOOLEAN, f \in MemberFilterChips({"mom", "kid"})}
       \cup {[kind |-> "draft", own |-> o, from |-> s, to |-> e,
              table |-> <<Event(1, 1, 2, 0), Event(2, x, 1, 0), Event(3, x, 2, 0), Event(4, 2, n, 0)>>]
                : o \in {0, 1}, s \in 0..4, e \in 0..4, x \in 0..4, n \in {1, 3}}

-----------------------------------------------------------------------------
(* The list of a range, and the views that draw it.                        *)

\* Occurrences of a series within [from, to], both ends included; they keep the id.
Hits(base, from, to) == {t \in from..to : t >= base.start /\ (t - base.start) % base.rule = 0}
ExpandRRule(base, from, to) ==
    LET hits == Listing(Hits(base, from, to), Ascending(Hits(base, from, to)))
    IN  [k \in DOMAIN hits |-> [base EXCEPT !.start = hits[k], !.end = hits[k] + (base.end - base.start)]]

\* Rows by start, ties as they came.
ByStart(rows) == Arranged(rows, ByKey([k \in DOMAIN rows |-> rows[k].start]))

\* The rows that touch the range, a series taken by its first occurrence, by start.
ListEventsInRange(table, from, to) ==
    ByStart(Filtered(table, {k \in DOMAIN table : table[k].end >= from /\ table[k].start <= to}))
ListInRange(table, from, to) ==
    LET rows == ListEventsInRange(table, from, to)
    IN  Flattened([k \in DOMAIN rows |->
            IF rows[k].rule = 0 THEN <<rows[k]>> ELSE ExpandRRule(rows[k], from, to)])

\* A view asks from local midnight of its first day to the end of its last.
\* The last millisecond of the day is after its last instant.
RangeOf(first, last, zone) == [start |-> first * Day - zone, end |-> last * Day + Day - 1 - zone]
Fetched(table, first, last, zone) ==
    ListInRange(table, RangeOf(first, last, zone).start, RangeOf(first, last, zone).end)

\* Mutant: the column of the UTC day.
ColumnByUtc(evs, d, zone) ==
    ByStart(Filtered(evs, {k \in DOMAIN evs : UtcDay(evs[k].start) = d}))

\* CalWeek's columns: by local start day, in time order.
Column(evs, d, zone) ==
    ByStart(Filtered(evs, {k \in DOMAIN evs : LocalDay(evs[k].start, zone) = d}))
CalWeek(table, zone) == [d \in 0..6 |-> Column(Fetched(table, 0, 6, zone), d, zone)]

\* A cell of CalMonth: the first three of its day.
FirstThree(s) == SubSeq(s, 1, IF Len(s) < 3 THEN Len(s) ELSE 3)
eventsForDay(evs, d, zone) == Column(evs, d, zone)
MonthCell(table, d, zone) == FirstThree(eventsForDay(Fetched(table, 0, 6, zone), d, zone))

\* CalDay: a column per member with what is assigned to it.  The column reads the
\* "HH:mm" times of the sample events; a row of the server has only ISO times,
\* and drawing it throws.
Crash == <<"TypeError">>
CalDay(evs, members) ==
    LET col(m) == Filtered(evs, {k \in DOMAIN evs : m \in evs[k].who})
    IN  IF \E m \in members, k \in DOMAIN evs : m \in evs[k].who /\ ~evs[k].sample THEN Crash
        ELSE [m \in members |-> col(m)]

-----------------------------------------------------------------------------
(* The month: its cells and its chevrons.                                  *)

visibleCells(first, n) == LET w == ((first + n + 6) \div 7) * 7 IN IF w > 35 THEN w ELSE 35
dayNum(i, first) == i - first + 1
dispNum(i, first, n, prev) ==
    LET d == dayNum(i, first) IN IF d \in 1..n THEN d ELSE IF d <= 0 THEN prev + d ELSE d - n

\* new Date(today) with the day set to 1; setMonth rolls over when the day does not exist.
Anchor(month, day) == [month |-> month, day |-> 1]
shiftMonth(a, delta) ==
    LET m == (a.month + delta) % 12
    IN  IF a.day <= Lengths[m] THEN [month |-> m, day |-> a.day]
        ELSE [month |-> (m + 1) % 12, day |-> a.day - Lengths[m]]

-----------------------------------------------------------------------------
(* The agenda.  Its dates are no RFC 3339 times, so the server lists all.  *)

filterEventsByMember(evs, member) ==
    IF member = "all" THEN evs ELSE Filtered(evs, {k \in DOMAIN evs : member \in evs[k].who})
Matches(e) == e.title \/ e.place

Groups(evs) ==
    LET days == {UtcDay(evs[k].start) : k \in DOMAIN evs}
        keys == Listing(days, Ascending(days))
    IN  [g \in DOMAIN keys |-> Filtered(evs, {k \in DOMAIN evs : UtcDay(evs[k].start) = keys[g]})]

CalAgenda(table, member, query) ==
    LET all   == Groups(filterEventsByMember(table, member))
        found == [g \in DOMAIN all |-> Filtered(all[g], {k \in DOMAIN all[g] : Matches(all[g][k])})]
    IN  IF query THEN Filtered(found, {g \in DOMAIN found : found[g] # <<>>}) ELSE all

\* The cards down the page, group after group.
AgendaCards(groups) == Flattened(groups)

-----------------------------------------------------------------------------
(* The form's conflict warning.                                            *)

Overlaps(e, from, to) == e.start < to /\ e.end > from
conflicts(table, own, from, to) ==
    IF to <= from THEN <<>>
    ELSE FirstThree(Filtered(table, {k \in DOMAIN table : table[k].id # own /\ Overlaps(table[k], from, to)}))

-----------------------------------------------------------------------------
LookInit == look \in LookInputs

\* At most three of all there is: all of it when there are fewer, and none twice.
FirstOf(shown, all) ==
    /\ Elements(shown) \subseteq all
    /\ Len(shown) = IF Cardinality(all) < 3 THEN Cardinality(all) ELSE 3
    /\ Cardinality(Elements(shown)) = Len(shown)

\* Every event that starts within the local week is in one column, its own day's,
\* as often as there are rows of it and in time order: the range asked of the server
\* and the browser's local dates agree in every time zone (CalWeek).
WeekComplete(table, zone) ==
    \A d \in 0..6 :
        LET col == CalWeek(table, zone)[d]
            own == {k \in DOMAIN table : LocalDay(table[k].start, zone) = d}
        IN  /\ Elements(col) = {table[k] : k \in own} /\ Len(col) = Cardinality(own)
            /\ \A i, j \in DOMAIN col : i < j => col[i].start <= col[j].start

\* The month's cell of a day holds the day's first three (CalMonth).
CellsComplete(table, zone) ==
    \A d \in 0..6 :
        LET today == {e \in Elements(table) : LocalDay(e.start, zone) = d}
            cell  == MonthCell(table, d, zone)
        IN  /\ FirstOf(cell, today)
            /\ \A e \in today \ Elements(cell), k \in DOMAIN cell : cell[k].start <= e.start

\* What the day draws is in the columns of its members and in no other (CalDay).
DayComplete(table, members) ==
    LET drawn == CalDay(table, members)
    IN  drawn # Crash => \A m \in members, e \in Elements(table) : m \in e.who <=> e \in Elements(drawn[m])

ColumnsComplete ==
    /\ look.kind \in {"week", "cells"} => WeekComplete(look.table, look.zone)
    /\ look.kind = "cells" => CellsComplete(look.table, look.zone)
    /\ look.kind = "day" => DayComplete(look.table, {"mom", "kid"})

\* The month's grid is a calendar: whole weeks, every day of the month in one
\* cell under its weekday, and the cells before and after it numbered as in the
\* adjacent months (visibleCells, dispNum).
GridRight(f, n, prev) ==
    LET cells == visibleCells(f, n)
        paper == [k \in 1..prev |-> k] \o [k \in 1..n |-> k] \o [k \in 1..31 |-> k]
    IN  /\ cells % 7 = 0
        /\ \A d \in 1..n : \E i \in 0..cells - 1 : dayNum(i, f) = d /\ i % 7 = (f + d - 1) % 7
        /\ \A i \in 0..cells - 1 : dispNum(i, f, n, prev) = paper[prev - f + i + 1]
MonthGridRight == look.kind = "month" => GridRight(look.first, look.days, look.prev)

\* From any day the month's chevrons move by one month, and back to where they
\* started (CalMonth's anchor, shiftMonth).
StepsRight(month, day, steps) ==
    LET a == Anchor(month, day)
        b == shiftMonth(a, steps)
    IN  b.month = (month + steps) % 12 /\ shiftMonth(b, -steps) = a
MonthStepsRight ==
    look.kind = "step" /\ look.day <= Lengths[look.month] => StepsRight(look.month, look.day, look.steps)

\* The agenda loses nothing and shows nothing twice: its groups hold exactly the
\* events of the chosen member that match the search, in date order (CalAgenda,
\* filterEventsByMember).
AgendaShows(table, member, query) ==
    LET groups == CalAgenda(table, member, query)
        wanted == {e \in Elements(table) : /\ member = "all" \/ member \in e.who
                                           /\ query => e.title \/ e.place}
        drawn  == AgendaCards(groups)
    IN  /\ Elements(drawn) = wanted /\ Len(drawn) = Cardinality(wanted)
        /\ \A g \in DOMAIN groups : groups[g] # <<>>
        /\ \A i, j \in DOMAIN drawn : i < j => UtcDay(drawn[i].start) <= UtcDay(drawn[j].start)
AgendaExact == look.kind = "agenda" => AgendaShows(look.table, look.member, look.query)

\* The form warns exactly when another event shares an instant with the draft,
\* and not about one that ends as the draft starts or starts as it ends; it names
\* three at most.
WarnsOf(table, own, from, to) ==
    FirstOf(conflicts(table, own, from, to),
            {e \in Elements(table) : e.id # own /\ (e.start..e.end - 1) \cap (from..to - 1) # {}})
ConflictsRight == look.kind = "draft" => WarnsOf(look.table, look.own, look.from, look.to)

\* What the calendar shows is what there is: week, month, agenda and the form's
\* warnings agree with the events of their range in every time zone.
ViewsExact ==
    ColumnsComplete /\ MonthGridRight /\ MonthStepsRight /\ AgendaExact /\ ConflictsRight

\* "Events with a recurrence_rule are expanded to all occurrences within
\* [start, end]" (ListInRange): no occurrence of the range is missing.
AllOccurrences ==
    look.kind = "series" /\ look.table[1].rule # 0 =>
        \A t \in 0..3 : t >= look.table[1].start /\ (t - look.table[1].start) % Day = 0
                           => \E k \in DOMAIN ListInRange(look.table, 0, 3) : ListInRange(look.table, 0, 3)[k].start = t
=============================================================================
