----------------------------- MODULE MCKitchen ------------------------------
(***************************************************************************)
(* The kitchen's screens, one part per behaviour: the meal plan, the       *)
(* shopping trip, importing a recipe, filing it under collections, cooking *)
(* it, the pure functions between them, and the socket whose frames keep   *)
(* them fresh.                                                             *)
(***************************************************************************)
EXTENDS Integers, Sequences

CONSTANTS NCells, MaxActs, NItems, MaxRuns, MaxJobs, MaxReqs, MaxVisits

VARIABLES part,
          table, cached, localGrid, slot, calls, copies, status, failed, others,
          lists, runs, trip, cache, shown, ticks, excused,
          jobs, form, starts, polled,
          server, seen, ui, assigned, busy, reqs, missed,
          steps, cook, timer, badge, lock, late, left,
          input,
          session, sock

\* A week has cells and a plan ingredients; the bounds are any numbers.
ASSUME BoundsAssumption ==
    /\ NCells \in Nat \ {0} /\ NItems \in Nat \ {0}
    /\ MaxActs \in Nat /\ MaxRuns \in Nat /\ MaxJobs \in Nat /\ MaxReqs \in Nat /\ MaxVisits \in Nat

M == INSTANCE MealPlanner
S == INSTANCE ShoppingTrip
J == INSTANCE ImportJob
R == INSTANCE RecipeShelf
C == INSTANCE CookingMode
K == INSTANCE KitchenMath
W == INSTANCE SessionSocket

mealVars  == <<table, cached, localGrid, slot, calls, copies, status, failed, others>>
shopVars  == <<lists, runs, trip, cache, shown, ticks, excused>>
jobVars   == <<jobs, form, starts, polled>>
shelfVars == <<server, seen, ui, assigned, busy, reqs, missed>>
socketVars == <<session, sock>>
cookVars  == <<steps, cook, timer, badge, lock, late, left>>
vars == <<part, mealVars, shopVars, jobVars, shelfVars, cookVars, input, socketVars>>

\* A part that is not chosen rests in one of its initial states.
Init ==
    /\ part \in {"meals", "shop", "import", "shelf", "cook", "math", "socket"}
    /\ M!MealInit /\ (part # "meals" => table = [c \in 1..NCells |-> M!NoMeal])
    /\ S!ShopInit /\ (part # "shop" => trip.week = 1)
    /\ J!JobInit
    /\ R!ShelfInit /\ (part # "shelf" => server.filed = {})
    /\ C!CookInit /\ (part # "cook" => steps = <<>>)
    /\ W!SocketInit
    /\ input \in IF part = "math" THEN K!KitchenInputs ELSE {[kind |-> "none"]}

Next ==
    /\ UNCHANGED <<part, input>>
    /\ \/ part = "meals" /\ M!MealNext /\ UNCHANGED <<shopVars, jobVars, shelfVars, cookVars, socketVars>>
       \/ part = "shop" /\ S!ShopNext /\ UNCHANGED <<mealVars, jobVars, shelfVars, cookVars, socketVars>>
       \/ part = "import" /\ J!JobNext /\ UNCHANGED <<mealVars, shopVars, shelfVars, cookVars, socketVars>>
       \/ part = "shelf" /\ R!ShelfNext /\ UNCHANGED <<mealVars, shopVars, jobVars, cookVars, socketVars>>
       \/ part = "cook" /\ C!CookNext /\ UNCHANGED <<mealVars, shopVars, jobVars, shelfVars, socketVars>>
       \/ part = "socket" /\ W!SocketNext /\ UNCHANGED <<mealVars, shopVars, jobVars, shelfVars, cookVars>>

Spec == Init /\ [][Next]_vars
\* In a part at rest no fair action is enabled.
FairSpec == Spec /\ M!MealFairness /\ S!ShopFairness /\ J!JobFairness /\ R!ShelfFairness /\ C!CookFairness
                 /\ W!SocketFairness

\* Every variable has its type, in every part.
TypeOK == M!MealTypeOK /\ S!ShopTypeOK /\ J!JobTypeOK /\ R!ShelfTypeOK /\ C!CookTypeOK
          /\ W!SocketTypeOK

\* A tick is true: of a shopping item on its list, if it was when the screen was seeded
\* (toggle), and of a collection in the recipe's menu (AddToCollectionMenu), whatever
\* answers were overtaken.
TicksTrue == S!TicksAgree /\ R!TickedIsFiled
\* What a screen announces is so: "Copied!" is the whole week (handleCopyLastWeek), the
\* import panel is about the last import and its link opens a recipe (RecipeImport),
\* and the countdown counts the minutes of the step shown, if perhaps one started at a
\* neighbour of the same minutes (CookingMode).
Announced ==
    /\ M!CopyWhole
    /\ J!PanelIsLatest /\ J!LinkOpens
    /\ C!CountdownHonest
\* Nothing is lost between two steps: a list generated again keeps its ticks
\* (Generate), and leaving gives the wake lock back (release).
NothingLost == S!RegenerateKeepsTicks /\ C!LateGrants
\* Every wait ends: a copy of last week, the Generate button, the panel of a job that
\* ended, a busy row of the menu, a countdown; and a lost socket comes back.
WaitsEnd ==
    /\ M!CopyEnds /\ S!GenerateSettles /\ J!EndedIsShown
    /\ R!BusyEnds /\ C!CountdownEnds /\ W!SocketReturns
\* The socket: one at a time, and its status true.
SocketHonest == W!SocketHonest
\* The pure functions.
MathRight == K!MathRight
=============================================================================
