----------------------------- MODULE QueryHooks -----------------------------
(***************************************************************************)
(* The data hooks of the web client (web/src/lib/api/hooks.ts).  A read    *)
(* hook is the key its answer is cached under, the tables its endpoint's   *)
(* statements read (home) and whether it polls.  A write hook is the       *)
(* tables its endpoint's statements write before it answers, the cache     *)
(* keys its onSuccess invalidates and the WebSocket frame the server       *)
(* broadcasts for it ("none": it sends none).  Tables every reader of      *)
(* which is cached under one prefix are one name: routines with steps and  *)
(* marks, recipes with their parts, equity tasks with logs and domains, a  *)
(* wallet with its ledger.  Rows that go by a foreign key's cascade, and   *)
(* audit entries, which are inserted behind the answer, are no write.      *)
(* Parameters of a key (an id, a date range, a filter) are one             *)
(* representative value.  useReportBug, useRequestJoin and the test        *)
(* notification touch no cached table.                                     *)
(***************************************************************************)
EXTENDS Sequences, SequencesExt

Query(key, home)  == [key |-> key, home |-> home, poll |-> FALSE, retry |-> 1]
Polled(key, home, retry) == [key |-> key, home |-> home, poll |-> TRUE, retry |-> retry]
Once(key, home)   == [key |-> key, home |-> home, poll |-> FALSE, retry |-> 0]
Write(writes, frame, inval) == [writes |-> writes, frame |-> frame, inval |-> inval]

\* The query key factory.
qk == [events |-> <<"events", "opts">>, event |-> <<"events", "id">>, members |-> <<"members">>,
       recipes |-> <<"recipes">>, recipe |-> <<"recipes", "id">>, lists |-> <<"lists">>,
       list |-> <<"lists", "id">>, shopping |-> <<"shopping">>, routines |-> <<"routines", "params">>,
       routineStreak |-> <<"routines", "id", "streak", "member">>, equity |-> <<"equity", "period">>,
       equityDashboard |-> <<"equity", "dashboard", "range">>, equityTasks |-> <<"equity", "tasks">>,
       equityDomains |-> <<"equity", "domains">>, equitySuggestions |-> <<"equity", "suggestions">>,
       mealPlan |-> <<"mealPlan", "week">>, race |-> <<"race">>, audit |-> <<"audit", "page">>,
       collections |-> <<"collections">>, collectionRecipes |-> <<"collections", "id", "recipes">>,
       householdByCode |-> <<"householdByCode", "code">>, joinRequests |-> <<"joinRequests", "household">>]

\* A key stored apart from the one a failing read once filled with samples.
LiveOnly(key) == <<"live-only">> \o key

\* withFallback and withoutSampleFallback call the API and ignore the sample.
useEvents       == Query(qk.events, {"events"})
useLiveEvents   == Query(LiveOnly(qk.events), {"events"})
useLiveEvent    == Query(qk.event, {"events"})
useMembers      == Query(qk.members, {"members"})
useLiveMembers  == Query(LiveOnly(qk.members), {"members"})
useRecipes      == Query(qk.recipes, {"recipes"})
useLiveRecipes  == Query(LiveOnly(qk.recipes), {"recipes"})
useRecipe       == Query(qk.recipe, {"recipes"})
useLists        == Query(qk.lists, {"lists"})
useLiveLists    == Query(LiveOnly(qk.lists), {"lists"})
useList         == Query(qk.list, {"lists"})
useShopping     == Query(qk.shopping, {"shopping"})
useRoutines     == Query(qk.routines, {"routines"})
useLiveRoutines == Query(LiveOnly(qk.routines), {"routines"})
useStreak       == Query(qk.routineStreak, {"routines"})
useEquity       == Query(qk.equity, {"equity"})
useEquityDashboard      == Query(qk.equityDashboard, {"equity"})
useEquityDomains        == Query(qk.equityDomains, {"equity"})
useEquityTasks          == Query(qk.equityTasks, {"equity"})
useRebalanceSuggestions == Query(qk.equitySuggestions, {"equity"})
useEquityContribution   ==
    Query(<<"equity", "contribution", "range">>, {"equity", "timeEntries", "chores", "members"})
useHousekeeperEstimate  == Query(<<"equity", "housekeeper-estimate", "range">>, {"timeEntries", "chores"})
useMealPlan     == Query(qk.mealPlan, {"mealPlan"})
useLiveMealPlan == Query(LiveOnly(qk.mealPlan), {"mealPlan"})
\* The server has no such route: its answer is never of a table.
useRace         == Query(qk.race, {})
useImportJob    == Polled(<<"recipe-import-job", "id">>, {"importJobs"}, 0)
useCalendars    == Query(<<"calendars">>, {"calendars"})
useMyHouseholds == Query(<<"me", "households">>, {"household", "members"})
useHousehold    == Query(<<"household", "id">>, {"household"})
useAudit        == Query(qk.audit, {"audit"})
useRecipeCollections == Query(qk.collections, {"collections"})
useCollectionRecipes == Query(qk.collectionRecipes, {"collections", "recipes"})
useHouseholdByCode   == Once(qk.householdByCode, {"household"})
useJoinRequests      == Query(qk.joinRequests, {"joinRequests"})
useChores            == Query(<<"chores", "member">>, {"chores"})
useChoreCompletions  == Query(<<"chore-completions", "range", "member">>, {"completions", "chores"})
\* No route either: entries are posted one by one, and only their summary is read.
useChoreTimeEntries  == Query(<<"chore-time-entries", "filters">>, {})
useMemberTimeSummary == Query(<<"member-time-summary", "member", "range">>, {"timeEntries"})
useWallet         == Query(<<"wallet", "member">>, {"wallet"})
useAllowance      == Query(<<"allowance">>, {"allowance"})
useAdHocTasks     == Query(<<"ad-hoc-tasks", "member", "status">>, {"adHocTasks"})
usePointCategories == Query(<<"point-categories", "archived">>, {"categories"})
useBehaviors      == Query(<<"behaviors", "category">>, {"behaviors"})
usePointsBalance  == Query(<<"points-balance", "member">>, {"grants"})
useScoreboard     == Polled(<<"scoreboard">>, {"grants", "members"}, 1)
useRewards        == Query(<<"rewards", "active">>, {"rewards"})
useRedemptions    == Query(<<"redemptions", "member", "status">>, {"redemptions"})
useTimeline       ==
    Query(<<"timeline", "member", "page">>, {"grants", "redemptions", "adjustments", "wallet"})

ReadHooks ==
    {useEvents, useLiveEvents, useLiveEvent, useMembers, useLiveMembers, useRecipes, useLiveRecipes,
     useRecipe, useLists, useLiveLists, useList, useShopping, useRoutines, useLiveRoutines, useStreak,
     useEquity, useEquityDashboard, useEquityDomains, useEquityTasks, useRebalanceSuggestions,
     useEquityContribution, useHousekeeperEstimate, useMealPlan, useLiveMealPlan, useRace,
     useImportJob, useCalendars, useMyHouseholds, useHousehold, useAudit, useRecipeCollections,
     useCollectionRecipes, useHouseholdByCode, useJoinRequests, useChores, useChoreCompletions,
     useChoreTimeEntries, useMemberTimeSummary, useWallet, useAllowance, useAdHocTasks,
     usePointCategories, useBehaviors, usePointsBalance, useScoreboard, useRewards, useRedemptions,
     useTimeline}

-----------------------------------------------------------------------------
useCreateRoutine     == Write({"routines"}, "routine", {<<"routines">>})
useUpdateRoutine     == Write({"routines"}, "routine", {<<"routines">>})
useDeleteRoutine     == Write({"routines"}, "routine", {<<"routines">>})
useAddStep           == Write({"routines"}, "routine", {<<"routines">>})
useUpdateStep        == Write({"routines"}, "routine", {<<"routines">>})
useDeleteStep        == Write({"routines"}, "routine", {<<"routines">>})
useMarkStepComplete  == Write({"routines"}, "routine", {<<"routines">>})
useUnmarkStep        == Write({"routines"}, "routine", {<<"routines">>})
\* Marks only: unmarking through this hook resolves without a request.
useToggleRoutineStep == Write({"routines"}, "routine", {<<"routines">>})

useCreateEquityTask  == Write({"equity"}, "equity", {qk.equityTasks, <<"equity">>})
useUpdateEquityTask  == Write({"equity"}, "equity", {qk.equityTasks, <<"equity">>})
useDeleteEquityTask  == Write({"equity"}, "equity", {qk.equityTasks, <<"equity">>})
useLogTaskTime       == Write({"equity"}, "equity", {<<"equity">>})

\* The answers of both list reads are without items.
useToggleListItem    == Write({"listItems"}, "list", {qk.list, qk.lists})
useCreateList        == Write({"lists"}, "list", {qk.lists})
useAddListItem       == Write({"listItems"}, "list", {qk.list, qk.lists})
useDeleteListItem    == Write({"listItems"}, "list", {qk.list, qk.lists})

useCreateEvent       == Write({"events"}, "event", {<<"events">>})
useUpdateEvent       == Write({"events"}, "event", {<<"events">>})
useSetEvent          == Write({"events"}, "event", {<<"events">>})
useDeleteEvent       == Write({"events"}, "event", {<<"events">>})
useSyncICal          == Write({"events"}, "none", {<<"events">>})
useAddICalCalendar   == Write({"calendars"}, "none", {<<"calendars">>})

useToggleShoppingItem   == Write({"shopping"}, "none", {qk.shopping})
useGenerateShoppingList == Write({"shopping"}, "none", {qk.shopping})
useUpsertMealPlanEntry  == Write({"mealPlan"}, "meal_plan", {<<"mealPlan">>})
useDeleteMealPlanEntry  == Write({"mealPlan"}, "meal_plan", {<<"mealPlan">>})
useImportRecipe         == Write({"recipes"}, "none", {qk.recipes})
useStartImportJob       == Write({"importJobs"}, "none", {})

useCreateMember      == Write({"members"}, "none", {qk.members})
useUpdateMember      == Write({"members"}, "none", {qk.members})
useDeleteMember      == Write({"members"}, "none", {qk.members})
useUpdateMemberNotify == Write({"members"}, "none", {})
useUpdateHouseholdSettings == Write({"household"}, "none", {<<"household", "id">>})
useRegenerateInviteCode    == Write({"household"}, "none", {<<"household", "id">>})
useApproveJoinRequest == Write({"joinRequests", "members"}, "none", {qk.joinRequests, qk.members})
useRejectJoinRequest  == Write({"joinRequests"}, "none", {qk.joinRequests})

useCreateCollection  == Write({"collections"}, "recipe_collection", {qk.collections})
useUpdateCollection  == Write({"collections"}, "recipe_collection", {qk.collections})
useDeleteCollection  == Write({"collections"}, "recipe_collection", {qk.collections})
useAssignRecipeToCollection ==
    Write({"collections"}, "recipe_collection", {qk.collectionRecipes, qk.collections})
useRemoveRecipeFromCollection ==
    Write({"collections"}, "recipe_collection", {qk.collectionRecipes, qk.collections})

useMarkChoreComplete == Write({"completions", "wallet"}, "chore", {<<"chore-completions">>, <<"wallet">>})
useUndoChoreComplete == Write({"completions", "wallet"}, "wallet", {<<"chore-completions">>, <<"wallet">>})
useCreateChore       == Write({"chores"}, "none", {<<"chores">>})
useUpdateChore       == Write({"chores"}, "none", {<<"chores">>})
useArchiveChore      == Write({"chores"}, "none", {<<"chores">>})
useSetChorePets      == Write({"chorePets"}, "none", {<<"chores">>})
useStartChoreTimer   == Write({"timeEntries"}, "none", {<<"chore-time-entries">>, <<"member-time-summary">>})
useStopChoreTimer    == Write({"timeEntries"}, "none", {<<"chore-time-entries">>, <<"member-time-summary">>})
useRecordManualTimeEntry ==
    Write({"timeEntries"}, "none", {<<"chore-time-entries">>, <<"member-time-summary">>})
\* No route: the request fails and writes nothing.
useUpdateTimeEntry   == Write({}, "none", {<<"chore-time-entries">>, <<"member-time-summary">>})
useDeleteTimeEntry   == Write({}, "none", {<<"chore-time-entries">>, <<"member-time-summary">>})

useTip               == Write({"wallet"}, "wallet", {<<"wallet">>})
useCashOut           == Write({"wallet"}, "wallet", {<<"wallet">>})
useUpsertAllowance   == Write({"allowance"}, "none", {<<"allowance">>, <<"chores">>})
useCreateAdHocTask   == Write({"adHocTasks"}, "none", {<<"ad-hoc-tasks">>})
useApproveAdHocTask  == Write({"adHocTasks", "wallet"}, "wallet", {<<"ad-hoc-tasks">>, <<"wallet">>})
useDeclineAdHocTask  == Write({"adHocTasks"}, "none", {<<"ad-hoc-tasks">>})
useCompleteAdHocTask == Write({"adHocTasks"}, "none", {<<"ad-hoc-tasks">>})

useCreatePointCategory  == Write({"categories"}, "none", {<<"point-categories">>})
useUpdatePointCategory  == Write({"categories"}, "none", {<<"point-categories">>})
useArchivePointCategory == Write({"categories"}, "none", {<<"point-categories">>})
useCreateBehavior    == Write({"behaviors"}, "none", {<<"behaviors">>})
useUpdateBehavior    == Write({"behaviors"}, "none", {<<"behaviors">>})
useArchiveBehavior   == Write({"behaviors"}, "none", {<<"behaviors">>})
useGrantPoints       == Write({"grants"}, "points", {<<"points-balance">>, <<"scoreboard">>, <<"timeline">>})
useAdjustPoints      == Write({"grants"}, "points", {<<"points-balance">>, <<"scoreboard">>, <<"timeline">>})
useCreateReward      == Write({"rewards"}, "none", {<<"rewards">>})
useUpdateReward      == Write({"rewards"}, "none", {<<"rewards">>})
useArchiveReward     == Write({"rewards"}, "none", {<<"rewards">>})
useRedeemReward      ==
    Write({"redemptions", "grants"}, "redemption", {<<"points-balance">>, <<"redemptions">>, <<"timeline">>})
useApproveRedemption ==
    Write({"redemptions", "grants"}, "redemption", {<<"redemptions">>, <<"points-balance">>, <<"timeline">>})
useDeclineRedemption == Write({"redemptions"}, "redemption", {<<"redemptions">>})
useFulfillRedemption == Write({"redemptions"}, "redemption", {<<"redemptions">>})
useSetSavingsGoal    == Write({"savings"}, "none", {<<"points-balance">>})
useCostAdjustReward  == Write({"adjustments"}, "reward", {<<"rewards">>, <<"timeline">>})
useDeleteRewardAdjustment == Write({"adjustments"}, "none", {<<"rewards">>})

WriteHooks ==
    {useCreateRoutine, useUpdateRoutine, useDeleteRoutine, useAddStep, useUpdateStep, useDeleteStep,
     useMarkStepComplete, useUnmarkStep, useToggleRoutineStep, useCreateEquityTask, useUpdateEquityTask,
     useDeleteEquityTask, useLogTaskTime, useToggleListItem, useCreateList, useAddListItem,
     useDeleteListItem, useCreateEvent, useUpdateEvent, useSetEvent, useDeleteEvent, useSyncICal,
     useAddICalCalendar, useToggleShoppingItem, useGenerateShoppingList, useUpsertMealPlanEntry,
     useDeleteMealPlanEntry, useImportRecipe, useStartImportJob, useCreateMember, useUpdateMember,
     useDeleteMember, useUpdateMemberNotify, useUpdateHouseholdSettings, useRegenerateInviteCode, useApproveJoinRequest,
     useRejectJoinRequest, useCreateCollection, useUpdateCollection, useDeleteCollection,
     useAssignRecipeToCollection, useRemoveRecipeFromCollection, useMarkChoreComplete,
     useUndoChoreComplete, useCreateChore, useUpdateChore, useArchiveChore, useSetChorePets,
     useStartChoreTimer, useStopChoreTimer, useRecordManualTimeEntry, useUpdateTimeEntry,
     useDeleteTimeEntry, useTip, useCashOut, useUpsertAllowance, useCreateAdHocTask,
     useApproveAdHocTask, useDeclineAdHocTask, useCompleteAdHocTask, useCreatePointCategory,
     useUpdatePointCategory, useArchivePointCategory, useCreateBehavior, useUpdateBehavior,
     useArchiveBehavior, useGrantPoints, useAdjustPoints, useCreateReward, useUpdateReward,
     useArchiveReward, useRedeemReward, useApproveRedemption, useDeclineRedemption,
     useFulfillRedemption, useSetSavingsGoal, useCostAdjustReward, useDeleteRewardAdjustment}

-----------------------------------------------------------------------------
\* A frame invalidates the keys of its family: handleInvalidation.  Two of
\* the branches name a key no hook uses, and chore, wallet, points, reward
\* and redemption frames have no branch.
FrameKeys(frame) ==
    CASE frame = "event"             -> {<<"events">>}
      [] frame = "list"              -> {<<"lists">>, <<"lists", "id">>}
      [] frame = "routine"           -> {<<"routines">>}
      [] frame = "shopping"          -> {<<"shopping">>}
      [] frame = "meal_plan"         -> {<<"meal-plan">>}
      [] frame = "recipe_collection" -> {<<"recipe-collections">>}
      [] frame = "equity"            -> {<<"equity">>}
      [] OTHER                       -> {}

\* invalidateQueries selects by key prefix.
Matches(keys, key) == \E k \in keys : IsPrefix(k, key)
=============================================================================
