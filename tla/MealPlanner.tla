---------------------------- MODULE MealPlanner -----------------------------
(***************************************************************************)
(* The meal plan screen (MealPlan in web/src/components/screens/           *)
(* recipes.tsx, with its edit popover) over one week of the table          *)
(* meal_plan_entries, which another device changes too.  A cell is a day   *)
(* and a slot.  The multiplier, batch and leftover numbers are left out:   *)
(* the server drops them.                                                  *)
(***************************************************************************)
EXTENDS Integers, Sequences, FiniteSets

CONSTANTS NCells,  \* cells of the week
          MaxActs  \* bound on requests, copies of last week and changes elsewhere

VARIABLES table,     \* recipe per cell, NoMeal where there is no entry
          cached,    \* the week's plan in the query cache
          localGrid, \* the grid shown, seeded once from cached
          slot,      \* the dialog: the recipe picker or the edit popover of a cell
          calls,     \* requests of the user, in the order of mutate()
          copies,    \* runs of handleCopyLastWeek
          status,    \* copyStatus, and the timers that will reset it
          failed,    \* mealPlanError is shown
          others     \* changes made elsewhere

mealVars == <<table, cached, localGrid, slot, calls, copies, status, failed, others>>

Cells == 1..NCells
Recipes == {"soup", "stew"}
NoMeal == "none"
Meals == Recipes \cup {NoMeal}
Grids == [Cells -> Meals]
MayAct == Len(calls) + Len(copies) + others < MaxActs
Closed == [ui |-> "none", cell |-> 0]
\* Last week's plan, cached: every cell has the same recipe, so all are copied.
lastWeekPlan == [c \in Cells |-> "stew"]

MealTypeOK ==
    /\ table \in Grids /\ cached \in Grids /\ localGrid \in Grids
    /\ slot \in [ui : {"none", "pick", "edit"}, cell : 0..NCells]
    /\ \A k \in DOMAIN calls : calls[k] \in [op : {"upsert", "delete"}, cell : Cells, meal : Meals,
                                             at : {"sent", "done", "lost", "over"}]
    /\ Len(calls) + Len(copies) + others <= MaxActs
    /\ \A k \in DOMAIN copies : copies[k] \in [from : Grids, cell : 1..NCells + 1, saved : SUBSET Cells,
                                               at : {"send", "sent", "done", "lost", "ok", "failed"}]
    /\ status \in [copy : {"idle", "loading", "ok", "error"}, timers : Nat]
    /\ failed \in BOOLEAN /\ others \in 0..MaxActs

MealInit ==
    /\ table \in {[c \in Cells |-> NoMeal], [c \in Cells |-> IF c = 1 THEN "soup" ELSE NoMeal]}
    /\ cached = table /\ localGrid = table
    /\ slot = Closed /\ calls = <<>> /\ copies = <<>>
    /\ status = [copy |-> "idle", timers |-> 0]
    /\ failed = FALSE /\ others = 0

-----------------------------------------------------------------------------
(* The grid and its dialogs, which cover it.                               *)

GridShown == slot = Closed
PickerShown == slot.ui = "pick"
PopoverShown == slot.ui = "edit"

\* An occupied cell opens the edit popover, an empty one the picker.
openPicker ==
    /\ GridShown
    /\ \E c \in Cells : slot' = [ui |-> IF localGrid[c] # NoMeal THEN "edit" ELSE "pick", cell |-> c]
    /\ UNCHANGED <<table, cached, localGrid, calls, copies, status, failed, others>>

closeSlot ==
    /\ slot # Closed /\ slot' = Closed
    /\ UNCHANGED <<table, cached, localGrid, calls, copies, status, failed, others>>

mutate(op, c, meal) ==
    /\ MayAct
    /\ calls' = Append(calls, [op |-> op, cell |-> c, meal |-> meal, at |-> "sent"])
    /\ failed' = FALSE

\* Shown at once, whatever becomes of the request.
pickRecipe ==
    /\ PickerShown
    /\ \E r \in Recipes : /\ localGrid' = [localGrid EXCEPT ![slot.cell] = r]
                          /\ mutate("upsert", slot.cell, r)
    /\ slot' = Closed
    /\ UNCHANGED <<table, cached, copies, status, others>>

\* The "x" of a cell changes the screen only.
clearSlot ==
    /\ GridShown
    /\ \E c \in Cells : localGrid[c] # NoMeal /\ localGrid' = [localGrid EXCEPT ![c] = NoMeal]
    /\ UNCHANGED <<table, cached, slot, calls, copies, status, failed, others>>

\* A hook's isPending is that of its latest mutation.
Pending(op) ==
    \E k \in DOMAIN calls : /\ calls[k].op = op /\ calls[k].at \in {"sent", "done", "lost"}
                            /\ \A j \in k + 1..Len(calls) : calls[j].op # op
busy == Pending("upsert") \/ Pending("delete")

\* The recipe saved again is the one on the screen.
handleEditSave ==
    /\ PopoverShown /\ ~busy
    /\ mutate("upsert", slot.cell, localGrid[slot.cell])
    /\ slot' = Closed
    /\ UNCHANGED <<table, cached, localGrid, copies, status, others>>

\* The entry's id is known only from the cached plan.
handleEditDelete ==
    /\ PopoverShown /\ ~busy
    /\ IF cached[slot.cell] # NoMeal THEN mutate("delete", slot.cell, NoMeal)
       ELSE UNCHANGED <<calls, failed>>
    /\ localGrid' = [localGrid EXCEPT ![slot.cell] = NoMeal]
    /\ slot' = Closed
    /\ UNCHANGED <<table, cached, copies, status, others>>

-----------------------------------------------------------------------------
(* Copy last week: one upsert after another.                               *)

CopyOffered == GridShown /\ status.copy # "loading"
handleCopyLastWeek ==
    /\ CopyOffered /\ MayAct
    /\ copies' = Append(copies, [from |-> lastWeekPlan, cell |-> 1, saved |-> {}, at |-> "send"])
    /\ status' = [status EXCEPT !.copy = "loading"]
    /\ UNCHANGED <<table, cached, localGrid, slot, calls, failed, others>>

Copy(k, at) == copies' = [copies EXCEPT ![k].at = at]

\* The loop's next cell, or its end with the reset timer of the button.
CopyNext(k) ==
    /\ copies[k].at = "send"
    /\ IF copies[k].cell <= NCells THEN Copy(k, "sent") /\ UNCHANGED status
       ELSE /\ Copy(k, "ok")
            /\ status' = [status EXCEPT !.copy = "ok", !.timers = @ + 1]
    /\ UNCHANGED <<table, cached, localGrid, slot, calls, failed, others>>

CopyAnswered(k) ==
    /\ copies[k].at \in {"done", "lost"}
    /\ IF copies[k].at = "done"
       THEN /\ copies' = [copies EXCEPT ![k].at = "send", ![k].cell = @ + 1, ![k].saved = @ \cup {copies[k].cell}]
            /\ UNCHANGED status
       ELSE Copy(k, "failed") /\ status' = [status EXCEPT !.copy = "error", !.timers = @ + 1]
    /\ UNCHANGED <<table, cached, localGrid, slot, calls, failed, others>>

\* setTimeout(() => setCopyStatus("idle")): of this copy or of an earlier one.
CopyStatusResets ==
    /\ status.timers > 0
    /\ status' = [status EXCEPT !.copy = "idle", !.timers = @ - 1]
    /\ UNCHANGED <<table, cached, localGrid, slot, calls, copies, failed, others>>

-----------------------------------------------------------------------------
(* The server and the cache.                                               *)

\* Upsert by cell, delete by id; a request fails, or its answer is lost.
Serve(k) ==
    /\ calls[k].at = "sent"
    /\ \E applied, heard \in BOOLEAN :
          /\ heard => applied
          /\ table' = IF applied THEN [table EXCEPT ![calls[k].cell] = calls[k].meal] ELSE table
          /\ calls' = [calls EXCEPT ![k].at = IF heard THEN "done" ELSE "lost"]
    /\ UNCHANGED <<cached, localGrid, slot, copies, status, failed, others>>

ServeCopy(k) ==
    /\ copies[k].at = "sent"
    /\ \E applied, heard \in BOOLEAN :
          /\ heard => applied
          /\ table' = IF applied THEN [table EXCEPT ![copies[k].cell] = copies[k].from[copies[k].cell]] ELSE table
          /\ Copy(k, IF heard THEN "done" ELSE "lost")
    /\ UNCHANGED <<cached, localGrid, slot, calls, status, failed, others>>

\* The callbacks given to mutate run for its latest call only.
Answer(k) ==
    /\ calls[k].at \in {"done", "lost"}
    /\ calls' = [calls EXCEPT ![k].at = "over"]
    /\ failed' = (failed \/ (calls[k].at = "lost" /\ \A j \in k + 1..Len(calls) : calls[j].op # calls[k].op))
    /\ UNCHANGED <<table, cached, localGrid, slot, copies, status, others>>

\* A refetch: the grid stays as it was seeded.
entriesToMealPlan ==
    /\ cached # table /\ cached' = table
    /\ UNCHANGED <<table, localGrid, slot, calls, copies, status, failed, others>>

OtherDevice ==
    /\ MayAct /\ others' = others + 1
    /\ \E c \in Cells, r \in Meals : table[c] # r /\ table' = [table EXCEPT ![c] = r]
    /\ UNCHANGED <<cached, localGrid, slot, calls, copies, status, failed>>

Grid == openPicker \/ closeSlot \/ pickRecipe \/ clearSlot \/ handleEditSave \/ handleEditDelete
Copying == handleCopyLastWeek \/ CopyStatusResets \/ \E k \in DOMAIN copies : CopyNext(k) \/ CopyAnswered(k) \/ ServeCopy(k)
Requests == \E k \in DOMAIN calls : Serve(k) \/ Answer(k)
MealNext == Grid \/ Copying \/ Requests \/ entriesToMealPlan \/ OtherDevice

\* Requests end, and the loop goes on when they do.
CopyStep(k) == k \in DOMAIN copies /\ (CopyNext(k) \/ CopyAnswered(k) \/ ServeCopy(k))
MealFairness == \A k \in 1..MaxActs : WF_mealVars(CopyStep(k))
-----------------------------------------------------------------------------
\* "Copied!" is the whole week: a run that ends well has saved every recipe of
\* last week, and none of them was lost on the way.
CopyWhole == \A k \in DOMAIN copies : copies[k].at = "ok" => copies[k].saved = Cells

CopyRuns(k) == k \in DOMAIN copies /\ copies[k].at \notin {"ok", "failed"}

\* A copy under way ends, well or badly, also when its button says something
\* else by then.
CopyEnds == \A k \in 1..MaxActs : CopyRuns(k) ~> ~CopyRuns(k)
=============================================================================
