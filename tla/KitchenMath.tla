---------------------------- MODULE KitchenMath -----------------------------
(***************************************************************************)
(* The pure functions of the kitchen screens: how the server's shopping    *)
(* items become the groups on the screen (lib/api/shopping.ts,             *)
(* shopping/CategoryGroup.tsx), the pantry cues (shopping/PantryCues.tsx)  *)
(* and the scaling of an ingredient (screens/recipes.tsx).  A behaviour is *)
(* one input, chosen at the start.                                         *)
(***************************************************************************)
EXTENDS Listings

VARIABLE input

Staple == "pantry staple"
Aisles == {"produce", "pantry"}
SourceLists == {<<>>, <<"soup">>, <<"soup", "stew">>, <<Staple>>, <<"stew", Staple>>}
ApiItem(id) == [id : {id}, aisle : Aisles, sources : SourceLists, order : {1, 2}]
NoDate == 99
Records(id) == [id : {id}, amount : {0, 1, 2}, days : {NoDate, -1, 0, 1, 5, 6}]
Amounts == [whole : 0..2, num : {0, 1, 2}, den : {3, 8}]

KitchenInputs ==
    {[kind |-> "list", items |-> <<a, b>>] : a \in ApiItem("a"), b \in ApiItem("b")}
       \cup {[kind |-> "cues", records |-> <<a, b>>] : a \in Records("a"), b \in Records("b")}
       \cup {[kind |-> "scale", amt |-> a, base |-> n, servings |-> s] : a \in Amounts, n \in 1..3, s \in 1..5}

-----------------------------------------------------------------------------
(* The shopping list.                                                      *)

\* The distinct elements of a sequence, in the order of their first occurrence.
Names(s) == Filtered(s, {k \in DOMAIN s : \A j \in 1..k - 1 : s[j] # s[k]})

\* By sort_order, ties as they came; one category per aisle.
BySortOrder(items) == Arranged(items, ByKey([k \in DOMAIN items |-> items[k].order]))
apiShoppingListToShopping(items) ==
    LET sorted == BySortOrder(items)
        aisles == Names([k \in DOMAIN sorted |-> sorted[k].aisle])
    IN  [c \in DOMAIN aisles |-> [name |-> aisles[c], pantry |-> aisles[c] = "pantry",
                                  items |-> Filtered(sorted, {k \in DOMAIN sorted : sorted[k].aisle = aisles[c]})]]

Flat(categories) == Flattened([c \in DOMAIN categories |-> categories[c].items])

\* The groups an item goes under in recipe mode.
recipeNames(it) == Filtered(it.sources, {k \in DOMAIN it.sources : it.sources[k] # Staple})
isPantry(cat, it) == cat.pantry \/ \E k \in DOMAIN it.sources : it.sources[k] = Staple

\* Mutant: only the first recipe of an item gets it.
BucketsFirstOnly(cat, it) ==
    IF isPantry(cat, it) THEN <<"Pantry staples">>
    ELSE IF recipeNames(it) = <<>> THEN <<"Other">> ELSE <<recipeNames(it)[1]>>

Buckets(cat, it) ==
    IF isPantry(cat, it) THEN <<"Pantry staples">>
    ELSE IF recipeNames(it) = <<>> THEN <<"Other">> ELSE recipeNames(it)

\* push(): every pair of a group and an item, in the order they are met.
PushesOf(cat) ==
    Flattened([k \in DOMAIN cat.items |->
        LET it == cat.items[k] IN [n \in DOMAIN Buckets(cat, it) |-> <<Buckets(cat, it)[n], it>>]])
Pushes(categories) == Flattened([c \in DOMAIN categories |-> PushesOf(categories[c])])

groupShopping(categories, mode) ==
    CASE mode = "aisle"  -> categories
      [] mode = "manual" -> IF Flat(categories) = <<>> THEN <<>>
                            ELSE <<[name |-> "All items", pantry |-> FALSE, items |-> Flat(categories)]>>
      [] mode = "recipe" ->
            LET pushed == Pushes(categories)
                order  == Names([k \in DOMAIN pushed |-> pushed[k][1]])
            IN  [g \in DOMAIN order |->
                    LET own == Filtered(pushed, {k \in DOMAIN pushed : pushed[k][1] = order[g]})
                    IN  [name |-> order[g], pantry |-> order[g] = "Pantry staples",
                         items |-> [k \in DOMAIN own |-> own[k][2]]]]

-----------------------------------------------------------------------------
(* The pantry cues.                                                        *)

lowThreshold == 1
expiringWithinDays == 5

\* A record may give two cues: its stock, then its date.
CuesOf(r) ==
    (IF r.amount <= lowThreshold THEN <<[id |-> r.id, kind |-> "low", days |-> NoDate]>> ELSE <<>>)
       \o (IF r.days = NoDate THEN <<>>
           ELSE IF r.days < 0 THEN <<[id |-> r.id, kind |-> "expired", days |-> r.days]>>
           ELSE IF r.days <= expiringWithinDays THEN <<[id |-> r.id, kind |-> "expiring", days |-> r.days]>> ELSE <<>>)

rank(cue) == CASE cue.kind = "expired" -> 0 [] cue.kind = "expiring" -> 1 [] OTHER -> 2
\* By rank, then by date; low stock by name, which here is the order of the records.
Precedes(a, b) == rank(a) < rank(b) \/ (rank(a) = rank(b) /\ a.days < b.days)
Urgency(all) ==
    {p \in (DOMAIN all) \X (DOMAIN all) :
        Precedes(all[p[1]], all[p[2]]) \/ (~Precedes(all[p[2]], all[p[1]]) /\ p[1] <= p[2])}
computePantryCues(records) ==
    LET all == Flattened([k \in DOMAIN records |-> CuesOf(records[k])]) IN Arranged(all, Urgency(all))

-----------------------------------------------------------------------------
(* Scaling an ingredient: "2 1/3" for other servings, to hundredths.       *)

Value(amt) == <<amt.whole * amt.den + amt.num, amt.den>>
scaleAmount(amt, base, servings) ==
    LET v == Value(amt) IN (2 * 100 * v[1] * servings + v[2] * base) \div (2 * v[2] * base)

-----------------------------------------------------------------------------
Times(groups, id) ==
    Cardinality({p \in Cells([g \in DOMAIN groups |-> groups[g].items]) : groups[p[1]].items[p[2]].id = id})

\* Changing the grouping loses and repeats nothing: every item is there once by
\* aisle and ungrouped, and "items shared by two recipes appear under each" by
\* recipe, in a group of its name (groupShopping).
GroupingKeeps(items) ==
    LET shown    == apiShoppingListToShopping(items)
        byRecipe == groupShopping(shown, "recipe")
    IN  /\ \A it \in Elements(items) :
              LET wanted == Elements(recipeNames(it))
              IN  /\ \A mode \in {"aisle", "manual"} : Times(groupShopping(shown, mode), it.id) = 1
                  /\ IF it.aisle = "pantry" \/ wanted = {} \/ Len(recipeNames(it)) < Len(it.sources)
                     THEN Times(byRecipe, it.id) = 1
                     ELSE /\ Times(byRecipe, it.id) = Cardinality(wanted)
                          /\ \A w \in wanted : \E g \in DOMAIN byRecipe :
                                byRecipe[g].name = w /\ it \in Elements(byRecipe[g].items)
        /\ \A g, h \in DOMAIN byRecipe : byRecipe[g].name = byRecipe[h].name => g = h
GroupingKeepsItems == input.kind = "list" => GroupingKeeps(input.items)

\* Nothing that needs attention is missed or called by the wrong name: expired
\* from the day after its date, expiring from then back to five days before, low
\* at one or less; and what is more urgent comes first (computePantryCues).
CuesAreOf(records) ==
    LET cues == computePantryCues(records)
        Has(id, kind) == \E n \in DOMAIN cues : cues[n].id = id /\ cues[n].kind = kind
    IN  /\ \A r \in Elements(records) : /\ Has(r.id, "low") <=> r.amount <= 1
                                        /\ Has(r.id, "expired") <=> r.days < 0
                                        /\ Has(r.id, "expiring") <=> r.days \in 0..5
        /\ \A m, n \in DOMAIN cues : m < n => /\ rank(cues[m]) <= rank(cues[n])
                                              /\ rank(cues[m]) = rank(cues[n]) => cues[m].days <= cues[n].days
CuesRight == input.kind = "cues" => CuesAreOf(input.records)

\* What is listed for the servings chosen is the exact amount to the nearest
\* hundredth, so that more servings never ask for less (scaleAmount).
ScaledToNearest(amt, base, servings) ==
    LET v     == Value(amt)
        exact == 100 * v[1] * servings   \* over v[2] * base
        unit  == v[2] * base
        shown == scaleAmount(amt, base, servings)
    IN  /\ 2 * (exact - shown * unit) \in -unit..unit
        /\ shown <= scaleAmount(amt, base, servings + 1)
ScaledIsNearest == input.kind = "scale" => ScaledToNearest(input.amt, input.base, input.servings)

\* The kitchen's arithmetic agrees with its definitions on every input.
MathRight == GroupingKeepsItems /\ CuesRight /\ ScaledIsNearest
=============================================================================
