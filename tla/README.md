# Tidyboard: a TLA+ model of the program

Tidyboard is a family organiser: a Go API server (`internal/`, `cmd/server`) over
Postgres and Redis, a Next.js client (`web/`) and two Python helpers (`services/`).
This directory holds TLA+ modules for the parts of server and client whose correctness
depends on how requests, callbacks and answers interleave and where they stop, the TLC
configurations that check them, and TLAPS proofs, for every value of the constants, of
the safety properties that the passing runs check, but for the refinement
`ImplementsLifecycle`: the wallet and the rewards on the server, the query cache, the
session, the household's screens, the kitchen and the kid's week on the client.

## How the server runs, and why that is hard

Every HTTP request is a goroutine.  Apart from `query.WithAccountLock`
(`internal/query/tx.go`) no code opens a database transaction: each SQL statement
commits by itself.  So

* requests interleave between any two statements;
* what a request read may be stale at its next statement;
* a failing statement, a cancelled request context or a server stop leaves
  everything before it committed, and nothing cleans up;
* clients retry, and cron jobs may run again.

A guard that is part of a statement (`WHERE status = 'pending'`, a unique index,
`balance_cents = balance_cents + $2`) survives this; a guard in Go code before the
statement does not.  Nearly every property below is about that difference.

## How the client runs, and why that is hard

A browser tab is one thread, but every screen waits for answers.  Between a click and
its answer the user goes on: opens another form, leaves the page, presses again.  So

* a React state update after an `await` or in an `onSuccess` meets a screen that may
  have changed since; a closure holds the state of the render it was made in;
* the callbacks given to `mutate(vars, {onSuccess})` run only for the latest call of
  that hook, and only while its component is mounted; those of the hook itself always
  run;
* a cached query is refetched when a mutation or a WebSocket frame invalidates its
  key; a fetch already under way may bring older data;
* answers are lost although the server did the work, and the user retries;
* other devices of the household write the same tables.

## Inventory

| Part | State | Operations | What is hard | What makes it correct |
|---|---|---|---|---|
| Chores (`service/chore.go`) | `chores`, `chore_completions` | create, update, archive, complete, undo | complete and undo are 5 and 5 statements; retries; closing of the week | one payout per chore and day; closed weeks stay |
| Wallet (`service/wallet.go`, `handler/wallet.go`) | `wallets`, `wallet_transactions`, `allowance_settings`, `ad_hoc_tasks` | credit, tip, cash out, adjust, set allowance, task create/complete/approve/decline | two writes per credit; racing approvals | balance = posted ledger; a task pays once |
| Week-end batch (`cron/week_end_batch.go`) | `weekly_summaries`, closes completions | run for a household | runs beside requests, stops half way, runs again | pays each bonus once per run; closes for good |
| Payout math (`service/wallet_math.go`) | none | divisor, share, bonus | rounding | spends the allowance, never more |
| Points and rewards (`service/points.go`, `reward.go`) | `point_grants`, `redemptions`, `rewards`, ... | grant, redeem, approve, decline, fulfil | check-then-act on balance and status | debits match redemptions |
| Query cache (`web/src/lib/api`, `lib/ws`) | cached reads, fetches, frames | fetch, poll, mutate, invalidate | fetches under way while a write is acknowledged | a settled screen shows what it was told |
| Session (`web/src/lib/auth`, gates, kiosk) | token, auth context, PKCE stash, PIN pad | sign in, hydrate, unlock, lock, log out, redirect | overlapping hydrations, old callback URLs, gates that disagree | the identity shown is the token's; no loops, no endless spinners |
| Socket (`web/src/lib/ws/ws-provider.tsx`) | socket, retry timer, status | connect, back off, reconnect, clean up | effects that run again while timers are pending | one socket, and back after a loss |
| Onboarding (`web/src/app/onboarding`) | wizard state, households | create household, add self and family | the back button during requests; retries | nobody listed is missing, the owner is linked |
| Joining (`service/invite.go`, `app/join`, invite dialog) | code, `join_requests`, members | look up, request, regenerate, approve, reject | the request looks the code up and inserts in two statements; stale previews and lists, two adults | a code replaced before the request was sent does not open; settled decisions stand |
| Calendar (`app/calendar`, `screens/calendar.tsx`, `service/event.go`) | events, form, linked event | create, edit, delete, list a range, views | one form for all events, refetches, time zones | edits reach their event; views lose nothing |
| Lists (`screens/lists.tsx`, `service/list.go`) | lists, items, two pages | create, add, tick, delete | the endpoints answer without the items the pages read | not modelled: there is no page of the server's lists to model (Disagreements) |
| Settings (`app/settings/page.tsx`) | members, kiosk, topics, calendars, billing | add, edit, delete, toggle, save | one form for all members, optimistic toggle | what is entered is done once, to whom it was for |
| Meal plan, shopping, recipes, cooking (`screens/recipes.tsx`, `cooking-mode.tsx`, `service/shopping.go`, `recipe.go`) | plan, lists, jobs, collections, countdown, wake lock | copy week, generate, tick, import, file, cook | multi-request loops, optimistic ticks on a cached copy, background jobs, one countdown for all steps | what is announced happened; every wait ends |
| Kid screens (`chores-kid.tsx`, `routine.tsx`, `service/chore_timer.go`, `routine.go`) | timers, ticks, completions | start, stop, tick | superseded callbacks, days passing | timers and ticks shown are on record |
| Notes (`lib/notes/use-notes.ts`) | `localStorage` | pin, remove | two tabs, a cap | what is pinned stays |
| AI keys (`lib/ai/`, `app/settings/ai-section.tsx`) | `localStorage`, drafts, calls of providers | save, clear, test, toggle, suggest | two tabs, storage events, late answers, toast timers | tabs settle on what is stored; a key goes to its provider; no wait without an answer |
| Hourly rate (`HourlyRateField.tsx`, `handler/member.go`) | two nullable columns | save | one end cleared, redaction | "Saved." is true |
| Auth middleware, rate limiters, broadcast hub, billing webhooks, calendar sync, equity, audit, notify, backup, media | own tables or Redis | mostly one statement each | see PROJECT.json | not modelled, or only as the client sees them |

The parts interact through the database (chores and the batch call
`WalletService.Credit`; rewards call `PointsService.Grant`), through the client's
cached queries, and through events that every mutation publishes, best effort, to the
household's channel, from where the WebSocket handler passes them to browsers.  No part
of the server reads events back, so the server's modules leave publishing out;
`QueryCache` is where the client's reads, its writes, other devices and frames meet.

## Modules

| Module | Models |
|---|---|
| `ChoreWallet` | chores, wallet, ad-hoc tasks and the week-end batch of one household, one action per SQL statement |
| `PayoutMath` | the pure arithmetic of `wallet_math.go` and the price of a completion |
| `AllowanceWeek` | one member's week under an allowance, priced by `PayoutMath` |
| `AtomicLedger` | what `Credit` promises: an entry and its balance change together, once |
| `ChoreWalletProofs` | the proofs about `ChoreWallet` |
| `Listings` | `filter`, `sort` and `flat` of lists in closed form, for the modules of functions |
| `FiniteFacts` | facts about sums over finite sets and about the lists of `Listings`, which several proofs use |
| `Redemptions` | points and rewards: catalog, cost adjustments, grants and redemptions, one action per SQL statement |
| `PointsMath` | the pure arithmetic of `points_math.go` |
| `RedemptionLifecycle` | what `RewardService` promises about one redemption: one decision, one debit |
| `RedemptionsProofs` | the proofs about `Redemptions` |
| `QueryHooks` | every data hook of the client: key, tables read, polling; tables written, frames and invalidations |
| `QueryCache` | one cached read while this client and other devices write its tables |
| `CachedCopy` | what the query client promises of one read: a copy of the table that never goes back |
| `QueryCacheProofs` | the proofs about `QueryCache` |
| `WebSession` | one tab: auth store, PKCE sign-in, kiosk and PIN login, route gates |
| `WebSessionProofs` | the proofs about `WebSession` |
| `SessionSocket` | the WebSocket effect with its backoff |
| `OnboardingWizard` | the wizard with the households its requests create |
| `HouseholdJoin` | join page, invite dialogs and invite service |
| `EventEditor` | the calendar's form with its linked event |
| `CalendarViews` | range query, expansion, week, month, day, agenda, conflicts, as functions |
| `SettingsCards` | the settings cards that write |
| `MealPlanner`, `ShoppingTrip`, `ImportJob`, `RecipeShelf`, `CookingMode` | the kitchen's screens with their server side |
| `KitchenMath` | grouping, pantry cues and scaling, as functions |
| `KidChores`, `RoutineRun`, `NotesBoard`, `AiKeys`, `HourlyRate` | a child's timers and routine, the notes, the AI keys with the suggestion, a member's rate |
| `MC*` | instances for TLC; `MCHousehold`, `MCKitchen` and `MCKidWeek` hold several parts, one per behaviour |
| `KitchenProofs`, `KidWeekProofs`, `HouseholdProofs` | the proofs about `MCKitchen`, `MCKidWeek` and `MCHousehold`, part by part |

### ChoreWallet

State: the tables (`chores`, `allowances`, `completions`, `tasks`, `summaries`,
`wallets`, `ledger`, `balance`) and, per request, `pc` (its next statement), `op`,
`call` (arguments and local variables) and `entry` (the ledger row it is
crediting).  A request is used once; an id it generates with `uuid.New()` is
represented by the request itself.

| Code | Actions |
|---|---|
| `ChoreHandler.Complete` + `ChoreService.Complete` | `BeginComplete` (role check, `GetChore`), `GetActiveAllowance`, `PriceCompletion` (`ListChores`, price), `InsertCompletion` or `CompletionConflicts` + `RefetchCompletion`, then Credit |
| `ChoreHandler.UndoComplete` + `ChoreService.Undo` | `BeginUndo` or `RefuseUndo` (`GetChoreCompletion`, closed check), then Credit, then `DeleteChoreCompletion` |
| `WalletService.Credit` | `GetOrCreateWallet`, `CreateWalletTransaction` (with the partial unique index), `AdjustWalletBalance` |
| `Tip`, `CashOut`, `Adjust` | the same names, then Credit |
| ad-hoc task handlers | `CreateAdHocTask`, `CompleteAdHocTask`, `DeclineAdHocTask`, `ApproveAdHocTask` (then Credit) |
| `SetAllowance`, chore CRUD | the same names |
| `WeekEndBatch.RunForHousehold` | `BeginBatch`, `NextMember` (`ListChores`), `ListWeekCompletions`, `PayStreakBonus` (then Credit, per bonus), `CloseWeek`, `UpsertWeeklySummary`, `EndBatch` |
| any failing statement, or a server stop | `Fail`; between the two writes of Credit the request is `lost` |

Prices are abstracted to two operator constants, `PayoutCents` and `BonusCents`,
about which the proofs assume only that they are natural numbers; the runs give
them the definitions of `PayoutMath`.  `WeekEndBatch.Run`, which the server
schedules, returns without doing anything; `BeginBatch` models `RunForHousehold`,
which its comment describes as the callable unit.

### AtomicLedger, PayoutMath, AllowanceWeek

`AtomicLedger` is the wallet its callers believe in: an entry and its balance change
in one step, and no entry counts twice.  `ChoreWallet` implements it with the mapping
`posted <- Posted`, the ledger rows whose balance adjustment has run; rows of requests
that stand or stopped between the two writes are not posted yet.

`PayoutMath` translates `wallet_math.go`: `WeeklyDivisor`, `PerInstancePayout`,
`StreakBonus`, and the price of a completion.  `AllowanceWeek` completes the expected
instances of one member's week in any order at those prices, for every combination of
weights and paces, and asks what the week pays in total.

### Redemptions

State: `rewards`, `adjustments`, `grants` (point_grants), `redemptions` (by the request
that created the row), and `pc`, `op`, `call` per request, as in `ChoreWallet`.

| Code | Actions |
|---|---|
| reward CRUD, cost adjustments | `CreateReward`, `UpdateReward`, `ArchiveReward`, `CreateCostAdjustment`, `DeleteCostAdjustment`; `Expire` is time passing `expires_at` |
| `PointsHandler.Grant`, `Adjust` | `GrantPoints` |
| `RewardService.Redeem` | `BeginRedeem` (`GetReward`, active check), `EffectiveCostFor`, `CheckBalance`, `CreateRedemption`, and for self-serve `DebitGrant`, `LinkGrant` |
| `ApproveRedemption` | `BeginApprove` (`GetRedemption`, pending check), `DebitGrant`, `LinkGrant` |
| `DeclineRedemption`, `FulfillRedemption` | `BeginDecline`, `BeginFulfill`, then `SetRedemptionStatus` |
| any failing statement, or a server stop | `Fail` |

`LinkGrant` and `SetRedemptionStatus` are the same SQL statement, whose `WHERE` names
only the id: they overwrite whatever the status has become.  The price is the operator
constant `PriceOf`, `EffectiveCost` of `PointsMath` in the runs, a natural number in
the proofs.  Which redemption a grant pays for is not a column; `Debits` derives it
from the request that wrote the grant.

### QueryHooks and QueryCache

`QueryHooks` is a table: each read hook of `hooks.ts` is the key it caches under, the
tables its endpoint's statements read (`home`) and whether it polls; each write hook is
the tables its endpoint's statements write, the keys its `onSuccess` invalidates and the
frame the server sends.  `useTimeline`, for example, reads grants, redemptions,
adjustments and wallet transactions.  `QueryCache` follows one pair of a read and a write
of one of its tables, so its behaviours cover every such pair.  The tables' content is the
number of writes they have seen.

An `onSuccess` does not name every read that its write makes stale.  `Unnamed` lists the
pairs it forgets (they are under Disagreements), and `PairsAssumption` states the table
exactly: a write names the reads of its tables but for these, and none of these.  For an
unnamed pair a settled screen may show old data, which `WritesShown` allows: it speaks of
writes whose `onSuccess` found the read.  `FollowsTable` is about every pair.

| Code | Actions |
|---|---|
| `useQuery` | `Mount`, `Unmount`, `StaleTimePasses`, `GcTimePasses`, `Poll`, `Serve`, `Receive`, `ReceiveError` (with its retries) |
| `useMutation` | `mutate`, `ServerApplies`, `ServerRefuses`, `onSuccess`, `onError` |
| `invalidateQueries` | `Invalidated`: by key prefix; a fetch under way is replaced, an unmounted entry is marked |
| WebSocket | `Open`, `Drop` (frames under way are lost), `Publish`, `onmessage` |
| another device | `OtherDeviceWrites` |

`CachedCopy` is what a screen believes in: the table goes on by one version at a time; the
copy is refreshed to some version of the table that is not older than its own, and dropped
only while no screen uses it.  `QueryCache` implements it with the mapping `table <- ver`,
`copy <- entry.data`, `used <- mounted`: a failed fetch, a retry, a poll, a frame or an
invalidation never brings a screen older data or takes its data away.

### WebSession and SessionSocket

`WebSession` has the token in `localStorage`, the auth context, one operation per slot
(boot, accept, refresh, and two for PIN logins: Back is not disabled while a PIN is
verified, `app/kiosk/page.tsx:369`, so a second PIN can be sent while the first is under
way; `pad.req` is the one the pad waits for), the PKCE stash, the callback page, the PIN
pad and the route.  The identity provider and `/v1/auth/me` are external: they accept or
refuse. `Redirect` is every gate at once (`AuthGate`, `KioskGate`, `AppRouteGate`);
`GateRedirects` follows it until nothing is left to redirect.  `SessionSocket` is the
effect of `WSProvider`: `RunEffect` with `Cleanup`, `connect`, `onopen`, `onerror`,
`onclose`, `reconnect`; the session is its input.

### The household's screens

`OnboardingWizard`: `advance()` is a call with the state it closed over; the back button
is not disabled while it runs, so `Done` may move on from another step. `HouseholdJoin`:
the join request is `FindHousehold` and `RequestJoin` (`handler/invite.go:80` and
`:91`), with a regeneration of the code possible in between, and `ApproveJoinRequest` is
`CheckPending`, `MarkReviewed`, `CreateMember`, one statement each.  `EventEditor`: a
form's value carries the events it was entered for (`of`), which is what `FormHonest`
compares with the event a request goes to.  `CalendarViews` and `KitchenMath` have no
actions: a behaviour is one input, and the property compares the functions with a
definition of what they should return. Their lists are those of `Listings`: a filtered
or sorted list is the list of some indexes of its argument in an order, which says in
one formula what the array method's loop leaves behind, and can be reasoned about for
lists of any length. A day has four instants and the zone is a shift by -1, 0 or 1,
enough for an event to be on another day by UTC than by the local clock.
`SettingsCards` gives each card its own cache and fetch, and each request an answer that
may be lost and the `body` its card built.

### The kitchen, the kid's week

| Code | Module, actions |
|---|---|
| `MealPlan` in `screens/recipes.tsx` | `MealPlanner`: picker and popover (`pickRecipe`, `clearSlot`, `handleEditSave`, `handleEditDelete`), `handleCopyLastWeek` as a loop (`CopyNext`, `ServeCopy`, `CopyAnswered`) |
| `ShoppingService.Generate`, `ShoppingList` | `ShoppingTrip`: `GetCurrent`, `ReadCompleted`, `DeactivateShoppingLists`, `CreateShoppingList`, `InsertShoppingListItem` one statement each; React Query's copy of the list and the answer that is coming (`FetchRead`, `FetchArrives`, `FetchLost`), of which the screen takes its items once per week (`Seed`); `toggle` with its optimistic value and rollback |
| `runImportJob`, `RecipeImport` | `ImportJob`: the goroutine's steps, `ContextExpires`, `Restart`, polling |
| collections sidebar and menu | `RecipeShelf` |
| `cooking-mode.tsx` | `CookingMode`: steps, `StepTimer`, which goes on between steps of the same minutes (`from` is the step of its last reset), wake lock granted early or late |
| `chores-kid.tsx`, `chore_timer.go` | `KidChores` |
| `routine.tsx`, `routine.go` | `RoutineRun`: ticks live in the screen, the server learns of ticks and never of unticks; `Midnight` moves the day |
| `use-notes.ts` | `NotesBoard`: every tab reads once and then writes its own copy |
| `ai-keys.ts`, `ai-section.tsx`, `client.ts`, `handleAISuggest` | `AiKeys`: a write announces itself to the other tab (`writeKeys`, `onStorage`) or is refused by the storage; drafts are seeded when a row mounts (`handleSave` on blur, `clearKey`, `handleTest`); a call's answer is heard by the page that asked (`callAI`) |
| `HourlyRateField.tsx`, `handler/member.go` | `HourlyRate` |

Several properties excuse named situations that the code really does not handle (a lost
answer, a callback superseded by a later call of the same hook, a write from elsewhere, a
copy that was old when the screen took it); the state that records them (`excused`,
`missed`, `unheard`, `behind`, `dropped`, `overlap`, and the counts of `clicks`) is not
read by any action.  Without the excuse TLC finds the situation.  An excused situation is
one in which the code goes wrong, not one the property has checked: each is listed under
Disagreements.

## Runs

Passing runs:

| Run | Properties | What it shows |
|---|---|---|
| `wallet` | `TypeOK`, `BalanceIsPosted`, `EarnedOncePerDay`, `TaskPaidOnce`, `ClosedStays`, `ImplementsAtomicLedger` | three requests with failures at every statement, in three scenarios (completions and undos under an allowance; the batch against them and a second batch; a task among tips, cash-outs and adjustments): balances are the posted rows, a chore earns once a day, a task pays once, closed completions stay, and the ledger implements `AtomicLedger` |
| `redeem` | `TypeOK`, `GrantLinked`, `SettledIsCharged` | three requests of every kind on a reward that is being edited and discounted, with failures: the linked debit is always the price recorded at the request; and when no request about a redemption failed or is under way, a pending one has cost nothing and an approved or fulfilled one names the grant that paid.  A declined redemption that an overlapping approval debited is reachable, and neither property excludes it |
| `redeem_serial` | `ImplementsLifecycle` | four requests of which none fails and no two about one redemption overlap (`OneAtATimeSpec`, a restriction the code does not enforce) implement `RedemptionLifecycle` |
| `query_cache` | `TypeOK`, `WritesShown`, `FollowsTable` | every read with every write of its tables: a settled screen shows its client's acknowledged writes, if their `onSuccess` names the read, and what handled frames announced; the read implements `CachedCopy`, and a polled read catches up (`PolledCatchesUp`, the other half of `FollowsTable`) |
| `web_session` | `TypeOK`, `IdentityMatchesToken`, `NoRedirectLoop`, `AttemptUsedOnce`, `SpinnersEnd` | sign-in, reloads, PIN unlocks, of which a second may start while the first is verified, logout and gates in any order |
| `household` | `TypeOK`, `RosterHonest`, `NothingLost`, `DoorKept`, `FormHonest`, `ViewsExact`, `CardsHonest` | wizard, joining, event form, views and settings, each against its server, lost answers and another device |
| `kitchen` | `TypeOK`, `TicksTrue`, `Announced`, `NothingLost`, `MathRight`, `SocketHonest` | meal plan, shopping, imports, collections, cooking, their functions, and the socket |
| `kitchen_live` | `WaitsEnd` | the waits of the same screens, and of the socket, end under fair answers, polls and timers |
| `kid_week` | `TypeOK`, `WeekAddsUp`, `TimersHonest`, `RecordTrue`, `BrowserKept`, `SavedIsStored` | the split of an allowance, timers, routine with its streak, notes and AI keys in two tabs, hourly rate |

Properties with several parts are conjunctions of named ones, each with its own comment
in its module: for example `FormHonest` is `NoCrossEdit`, `DuplicateOnlyByRetry`,
`NoGhost` and `BusyIsAwaited`; `WaitsEnd` is one liveness claim per kitchen screen.

Runs in which TLC refutes what a comment of the code says (quoted in PROJECT.json
under `findings`):

| Run | Property | What happens |
|---|---|---|
| `undo_unpaid` | `UndoReversesPayout` | undoing a completion that was recorded but not credited (auto-approve off) still debits the wallet |
| `kiosk_unlock` | `UnlockOpensHome` | after a right PIN the child is both the signed-in and the active member, which the home page's gate does not count as a choice: it sends the child back to the lock |
| `all_occurrences` | `AllOccurrences` | a series whose first occurrence ended before the range is not listed, because the query filters on the stored row's own times |

### Disagreements

Further places where a comment, a type or the screen's purpose says one thing and the code
does another.  The models follow the code, unless a part is said to be left out; no run
states these.

On the server:

* `wallet.go:55` "adjusts the wallet balance atomically": a Credit that stops between
  its two statements leaves a row that never reaches the balance (`Fail`, "lost").
* `chore.go:141` "guarantees auto-approved completions still credit the wallet": a
  Complete that stops after its insert is answered with success on retry, unpaid.
* `reward.go:17`, `reward.go:20`: two self-serve redemptions both pass the balance
  check; two approvals of one redemption both read `pending` and both debit; an approval
  and a decline (`reward.go:263`, `:306`) can leave a declined redemption that was debited.
* Two Undo requests of one completion both debit; an Undo that passed its check before
  the batch closed the week debits and then deletes nothing; a self-serve redemption
  whose debit fails stays approved (`reward.go:205`).
* `service/shopping.go:112`: Generate has no transaction.  A tick between its read and its
  deactivation is not carried over; a failure after the deactivation leaves no list in use.
* `handler/invite.go:80`, `:91`: an invite code regenerated between the look-up and the
  insert still opens a request.  `service/invite.go:100`: a review past its check
  overwrites the decision another adult made meanwhile, so a request refused can add a
  member, and one approved twice adds two.
* The client reads `/v1/races/current` (`hooks.ts:893`) and lists `/v1/time-entries` or
  `/v1/chores/{id}/time-entries` (`hooks.ts:1586`), for which `cmd/server/main.go` has no
  GET route.
* `GET /v1/lists` and `/v1/lists/:id` answer with `model.List`, which has no items
  (`model/list.go:10-19`, `service/list.go:58-109`), `hooks.ts:237-269` adds none, and
  nobody fetches `/v1/lists/:id/items`; `lists.tsx:172`, `:176`, `:354`, `:372` read
  `list.items`, so the pages fail on a list of the server.  They are left out.

On the client:

* An `onSuccess` in `hooks.ts` leaves these reads stale (`Unnamed` in `QueryCache`): the
  timeline after marking or undoing a chore, a tip, a cash-out, the approval of an ad-hoc
  task, declining or fulfilling a redemption and deleting an adjustment; the equity
  contribution and the housekeeper's estimate after timers and chores (the contribution
  also after changes of members); the chore completions after chores change; the
  scoreboard, which polls, after changes of members, a redemption and its approval; "my
  households" after changes of members, settings or the code; the household looked up by
  code after settings or a new code; the members after saving notification preferences; a
  collection's recipes after an import.
* `auth-store.tsx:187`: when two hydrations overlap (a PIN login during a boot, two PINs),
  the one that answers last sets its own session, which need not be that of the token now
  stored.
* `recipes.tsx:1459-1474`: the shopping screen copies the cached list into its own state
  and takes no refetch of the same week, so a flag that was old in the cache, or changed
  on another device, stays old on the screen.  A rollback is run only for the latest of
  several toggles (`recipes.tsx:1532`).
* `cooking-mode.tsx:75-79`: the countdown is reset when its seconds change, so between two
  steps of the same minutes a running, paused or finished countdown is carried over to the
  other step.  Reset (`:187`) does not take back "Timer done!" (`:443`).
* `app/settings/page.tsx:1074`: with two kiosk toggles under way, the rollback of one
  restores what the other changed.
* `chores-kid.tsx:126`: the callbacks of a timer call are dropped when the hook is used for
  another chore first, and that chore's button offers the wrong thing until the page is
  opened again.
* `routine.tsx:107`: a tick stays when its request fails, and unticking sends nothing.
Comments, documents and types:

* `ws-provider.tsx:8` "invalidates the relevant React Query caches": the meal plan and
  collection branches name keys no hook uses, and chore, wallet, points, reward and
  redemption frames have no branch; reopening the socket refetches nothing.
* `recipe.go:402`: the failure of a timed-out import is written with the context whose
  deadline just passed, so the job stays `running`; so does one whose server restarts.
* `calendar.tsx:307`: the day view splits `e.start`, which events of the API lack.
* `admin.go:55` answers with a list where `types.ts:79` declares an object of entries.
* `routine.go:394` "or yesterday if today isn't done yet": the loop breaks at today
  (`routine_test.go:70` agrees with the loop).
* `routine.sql:79` names `uq_routine_completion_step` as a constraint; the migration
  creates a unique index, which `ON CONFLICT ON CONSTRAINT` does not accept.
* `hooks.ts:1100` "`null` clears the value, `undefined` leaves it unchanged": the
  handler ignores a request with both ends null (`member.go:161`) and clears the end
  that is not sent.  `HourlyRateField.tsx:58` "Mirrors the backend authorization
  rule": the client lets every adult in, the server owners, admins and the member.
* `AI_BYOK.md:44` "Click **Clear** to remove a key": a row in another tab keeps the key
  in its field (`ai-section.tsx:32` seeds the draft once), and leaving that field stores
  it again.  `AI_BYOK.md:50` "The response is applied to empty dinner slots":
  `handleAISuggest` says so in its toast (`recipes.tsx:1074`) and applies nothing.
* `hooks.ts:1510` says one open timer per caller; the index is per chore and member.

### Bounds

* One household, two members (the kid and an admin) in `ChoreWallet`, one member in
  `Redemptions`: no statement touches two members' rows, so further members only add
  independent copies.
* One chore and one date in `wallet`: every guard and every unique index compares one
  chore and one date at a time.  A chore may expect the date once or twice a week, so
  that it is a full week or half of one.
* Two to four requests, each used once: the races need two writers and one earlier
  request to create what they race for; four are used where a whole life (request,
  approve, fulfil) must fit beside another request.
* Small prices, at least one of every kind that matters: positive payouts and bonuses,
  a discount larger than the cost, two different costs.
* `MayFail` is TRUE wherever the property is claimed in spite of failures.
* `Scenario`, a state constraint, keeps `wallet` to one of three mixes of operations per
  behaviour; within a mix everything interleaves.
* `MaxWrites` 2, `Buffer` 1: a write acknowledged while an older fetch is under way,
  with a second write after it, and a frame that finds the buffer full.
* `MaxAttempts` 2: an old callback URL beside a newer attempt.  `MaxHops` 2 saturates a
  counter that must not pass 1.  PINs have two digits.  A second PIN is sent only while
  the first is all that is under way and no sign-in was begun: what it adds is the overlap
  of two PIN logins on one pad.
* Household: two households or two drafts in the wizard; two codes and one request with
  two adults; two saves and four acts of the event form; four clicks on the settings,
  which use one card per behaviour beside billing (`MaxCards`), because the cards share
  no state but the members' list.
* Kitchen: two cells, items, jobs, requests and visits: two is what overtaking needs; one
  item in `kitchen_live`, where no wait depends on how many there are.
* Kid's week: four presses of the timers, six rounds of the routine over three days, a
  board of `MaxNotes` 2 in place of `MAX_NOTES` 50 with five pins so that the cap is
  passed, four edits of the rate, four acts on the AI keys from every pair of pages and
  with or without stored keys, which suffices for two tabs to write over each other;
  weights 1, 2, 5 and allowances of 1 to 500 cents with daily, weekly and two kinds of
  specific-day chores.
* In the runs with several parts, a behaviour chooses one part and the others rest.
  Parts share no state in the code except through the query cache, which is
  `QueryCache`'s subject.
* Requests are interchangeable in the server's runs, so those use symmetry; `kid_week`
  permutes the chores.
* `CHECK_DEADLOCK FALSE`: when every bounded action has been used the system may stop,
  which is not an error.

The bounds of `QueryCache`, `WebSession`, `MCHousehold`, `MCKitchen` and `MCKidWeek` are
CONSTANTS; the theorems below cover every value of them for the properties they state.

### Fairness

* `query_cache`: polls fire, requests are answered, and the server does not fail for
  ever (strong fairness of an answer that is not an error, for `PolledCatchesUp` only).
* `web_session`: requests of the callback page and of the PIN pad are answered, well or
  badly, and the effects of a mounted page run.
* `kitchen_live`: each request, and the loop that awaits it, goes on; the page polls; the
  job's goroutine runs; the interval of a countdown ticks; a retry timer of the socket
  fires, and a connection is not refused for ever.

Users, other devices, failures, losses, restarts and time are never obliged to happen.

## Proofs

Eight modules hold theorems, checked by TLAPS for all values of the constants.  They
assume only what the modules' named assumptions say, and every run evaluates these on
its instance:

* `ChoreWallet`, `Redemptions`: constants have their types (`SetsAssumption`,
  `TablesAssumption`), prices and bonuses are natural numbers (`PriceAssumption`), NULL
  is neither a row nor an id (`NoneAssumption`), and requests are finitely many
  (`RequestsAssumption`, which only the cardinalities and sums need);
* `AllowanceWeek`: a finite set of chores with weights 1 to 5, paces 0 to 7 and a
  positive allowance (`AllowanceWeekAssumption`; the weights are those the column's CHECK
  admits, the paces what `FrequencyPerWeek` returns);
* `MCKidWeek`, `MCKitchen`, `MCHousehold`, `QueryCache`, `WebSession`: the bounds are
  numbers (`BoundsAssumption`, `SessionBounds`), so the theorems hold for any of them: any
  number of presses, rounds, notes, tabs, cells, items, calls, jobs, visits, attempts,
  writes, households, drafts, codes, join requests and clicks;
* `QueryCache`: the table of hooks is what `PairsAssumption` says: an `onSuccess` names
  every cached read of the tables its write touches but for the pairs of `Unnamed`, none of
  which it names, and a frame names them all, if it has a branch in `handleInvalidation`.
  TLC evaluates this over every pair of `QueryHooks`; a hook that forgot another key would
  stop the run.

| Theorem | States |
|---|---|
| `ChoreWalletProofs!ExactlyOnceHolds`, `TypeCorrect` | the inductive invariant, `TypeOK` |
| `ChoreWalletProofs!TaskPaidOnceHolds` | `TaskPaidOnce` |
| `ChoreWalletProofs!ClosedStaysHolds` | `ClosedStays` |
| `ChoreWalletProofs!PaidDaysHolds`, `EarnedOncePerDayHolds` | `PaidDays`, and from it `EarnedOncePerDay` |
| `ChoreWalletProofs!BalanceIsPostedHolds` | `BalanceIsPosted` |
| `ChoreWalletProofs!LedgerRefinement` | `ChoreWallet` implements `AtomicLedger` |
| `RedemptionsProofs!TypeCorrect` | `TypeOK` |
| `RedemptionsProofs!GrantLinkedHolds` | `GrantLinked` |
| `RedemptionsProofs!SettledIsChargedHolds` | `SettledIsCharged` |
| `KidWeekProofs!KidTypeCorrect` | `TypeOK` of `MCKidWeek` |
| `KidWeekProofs!WeekAddsUpHolds` | `WeekAddsUp` |
| `KidWeekProofs!TimersHonestHolds`, `RecordTrueHolds`, `BrowserKeptHolds`, `SavedIsStoredHolds` | `TimersHonest`, `RecordTrue`, `BrowserKept`, `SavedIsStored` |
| `KitchenProofs!KitchenInvHolds`, `KitchenTypeCorrect` | the inductive invariant, `TypeOK` of `MCKitchen` |
| `KitchenProofs!TicksTrueHolds`, `AnnouncedHolds`, `SocketHonestHolds` | `TicksTrue`, `Announced`, `SocketHonest` |
| `KitchenProofs!NothingLostHolds` | the kitchen's `NothingLost`, an action property |
| `WebSessionProofs!SessionInvHolds`, `SessionTypeCorrect` | the inductive invariant, `TypeOK` |
| `WebSessionProofs!IdentityMatchesTokenHolds`, `NoRedirectLoopHolds` | `IdentityMatchesToken`, `NoRedirectLoop` |
| `WebSessionProofs!AttemptUsedOnceHolds` | `AttemptUsedOnce`, an action property |
| `QueryCacheProofs!CacheInvHolds`, `CacheTypeCorrect` | the inductive invariant, `TypeOK` |
| `QueryCacheProofs!WritesShownHolds` | `WritesShown` |
| `QueryCacheProofs!CacheIsACopy` | `QueryCache` implements `CachedCopy`, the safety half of `FollowsTable` |
| `HouseholdProofs!HouseInvHolds`, `HouseTypeCorrect` | the inductive invariant, `TypeOK` of `MCHousehold` |
| `HouseholdProofs!RosterHonestHolds`, `FormHonestHolds` | `RosterHonest`, `FormHonest` |
| `HouseholdProofs!CardsHonestHolds` | `CardsHonest` |
| `HouseholdProofs!DoorKeptHolds`, `NothingLostHolds` | `DoorKept`, the household's `NothingLost`, action properties |
| `HouseholdProofs!ViewsExactHolds` | `ViewsExact` |
| `HouseholdProofs!WeekOfAll`, `CellsOfAll`, `DayOfAll`, `AgendaOfAll`, `WarnsOfAll` | the parts of `ViewsExact` for any number of events at any instants, any members and, where it matters, any time zone |
| `HouseholdProofs!GridOfAll`, `StepsOfAll` | its parts about the month's grid and chevrons |
| `KitchenProofs!MathRightHolds` | `MathRight` |
| `KitchenProofs!GroupingKeepsAll`, `CuesOfAll`, `ScaledNearest` | the parts of `MathRight` for lists of any length, any pantry records, any amounts |

*ChoreWallet.*  `TaskPaidOnce` is not inductive: nothing in it says that the request
about to write an `ad_hoc` row has not written one.  `ExactlyOnce` adds what is needed:
which request stands at which statement with which locals (`CallsOK`); a request
credits a row of its own that is in the ledger exactly from its second statement on
(`EntriesOK`); other requests than the batch write at most one row (`SingleCredit`);
the batch owes no bonus it has written (`BatchOK`); a task has at most one approving
request (`TasksOK`, from the guarded UPDATE).  For the refinement,
`AdjustWalletBalance` is the step that posts, and `EntriesOK` gives that its row was
not posted before; every other step leaves `Posted` and `balance` alone.

`EarnedOncePerDay` counts, so its invariant does too.  `PaidDays` says that for a chore
and a day the requests that inserted a completion with something to credit (`Paying`) are
at most those that deleted one (`Deleting`), plus one if a completion stands; an insert
adds one on both sides, a deletion moves the standing one over.  An Undo of a
completion priced at zero writes no reversal, so it makes room for a payout that the
ledger does not show (`FreeUndos`); the property says so.  `BalanceIsPosted` follows
from the refinement and from what a sum over a finite set does when one row is added
(`FiniteFacts`).

*Redemptions.*  `Accounted` adds to `GrantLinked`: positions (`CallsOK`); a row keeps
its member and points from creation on, so what a charging request has read is never
stale (`RowsOK`); a request's debit exists from `link` on and is the one its locals
say (`GrantsOK`); a charged redemption never returns to pending, and a grant can only
be missing while, or because, the creating request has not linked it (`ChargesOK`).

*Kid's week.*  The week's invariant (`WeekInv`) is that what was earned is what was done
at a fixed price; the rest is arithmetic: `WeeklyDivisor` is a sum, a price is the
rounded-down share, and summing the shares loses less than a cent per instance.  `KidInv`
says that a chore has at most one start or stop under way, which is heard, and shows the
truth unless an accepted one is about to correct it; `RunInv` that ids of steps are used
once, so a ticked step that was deleted never comes back; `NotesInv` that every board is
newest first and pinned by now; `KeysInv` that each tab's page which waits has a call, and
that mail is under way to a tab whose keys are not the stored ones; `RateInv` that a save
the server acknowledged, told or about to be, is stored.

*Kitchen.*  One invariant per part; a step is of one part and leaves the others alone
(`KitchenSteps`).  `ShopInv`, the longest, relates every tick's request to the screen,
the list and the rollback it would do (`TicksOK`), and every run of `Generate` to the
list it read (`RunsOK`); a run is quiet as long as nobody ticks and no other run is
under way, and a quiet run's list has the ticks it read (`QuietOK`).  The copies React
Query holds or waits for name items that their list has (`CopiesOK`), and still do when
the screen takes them, because a list only gains items; a flag in which such a copy is
behind is excused at the seeding, so `TicksTrue` is about the flags that were true
then.  `MealInv` follows the loop of the copy: every cell before its position is saved.
`JobInv` says that a panel with a job is about the last call and has polled that job
only.  `ShelfInv` explains each difference between the ticked collections and the
server's by a request under way (`FilingOK`).  `CookInv` counts the locks asked for
against the visits (`Grants`); that a carried countdown counts the minutes of the step
shown follows step by step, because the effect that resets it depends on the minutes and
the buttons go to the next step only. `SocketInv` adds to `SocketHonest` that an open
socket is the one there is.

*WebSession.*  `IdentityOK`: until hydrations have overlapped at most one is under way,
it carries the stored token, and the session is the stored token's unless one is about to
replace it; a refresh is no such one, because it is sent only while signed in.  `HopsOK`:
after a redirect, `Redirect` is none on the page it led to; this is where `/login`,
`/kiosk` and `/onboarding` must be public.  `CodesOK`: the stash is of an unused attempt
and a code being exchanged has taken it.

*QueryCache.*  `WritesShown` speaks of a settled screen only; `Reaches(v)` adds what
leads there: an answer under way and an entry that is not marked are as new as `v` too.
A matching invalidation that finds the read refetchable makes it reach every version the
server has (`ReachesNew`), any other keeps what it reaches (`ReachesMarked`).  `NewsOK`
says that frames and applied calls speak of versions the server has.

*The household's screens.*  One invariant per part (`HouseInv` is their conjunction; a
part that is not chosen rests).  `JoinInv`: a review that is past its check is of a
request made, a household is found by no code that was replaced before the request was
sent (`AskFits`), and members joined plus those still owed are at most two per decided
request, which bounds the members' rows; `DoorKept` follows from the guard of each
statement.  `WizInv`: everybody listed at the click is saved or still in the call's
list, and the call goes on with the household of its click, even when the back button
has moved the page (`SavedOrDue`, `CallFits`).  `EditInv`: the form holds what was
entered for its own event, at most one request is heard, no fetch of the link that was
served holds a deleted event (`GhostFree`), and, for each form opened, there is an event
added, a request that may add one, or a form that may still send it (`CountsFit`).
`CardsInv` counts additions in the same way (`AddsFit`), and says of the toggle that,
until something is lost, left behind or written elsewhere, one of its requests at most
is under way, the optimistic value is what that request asked for and, once it was
saved, what the server holds (`ToggleFits`).

*The cache as a copy.*  For `CacheIsACopy` the invariant gains `CopyOld`: the cached data
and the answer under way are of versions that the table has had, and the answer is at
least as new as the data.  A replaced fetch is not heard, so no two answers can overtake
each other; `Receive` is then the step that refreshes, `GcTimePasses` the one that drops,
a write is a write, and every other step but `Mount` and `Unmount` stutters.

*The functions.*  `ViewsExact` and `MathRight` have no steps to follow, since the input of a
behaviour is constant; what is to be shown is what the functions return.  A recursive
definition would need induction over its argument.  `Listings` has none: the n-th member
of a listing is the one with n members up to it, and that there is exactly one for each n
is a count (`FiniteFacts`).  From it follow, once for all lists, that `Filtered` keeps the
chosen elements and their order, that `Arranged` keeps all elements and puts them in order,
and that `Flattened` keeps the lists' elements and reads them one list after the other, all
without repetition if there was none (`Once`).  The theorems named `...OfAll`, `...All` and
`ScaledNearest` then go through the functions call by call, with hypotheses on the data
alone: rows are distinct, a single event does not end before it starts, an item names a
recipe once, a base of servings is positive.  `WeekOfAll` is where the range asked of the
server must cover the local week in every zone, and `CellsOfAll` where a cut after three
must leave the earliest.  `ViewsExactHolds` and `MathRightHolds` apply them to the inputs of
the runs.

Writing these proofs changed the model twice.  `AddedOnce` of the settings allowed one
duplicate calendar more after a visit to another page; the invariant does not need it, since
the form is mounted anew and empty, and the property no longer has it.  `CalendarViews` and
`KitchenMath` were first written with recursive operators, which TLC evaluates and nothing
can be proved about; they now use `Listings`, and their properties take the data as
arguments, so that the theorems can say them of every table.

Only model-checked:

* liveness (`SpinnersEnd`, `WaitsEnd`, and `PolledCatchesUp`, half of `FollowsTable`),
  which is beyond the prover;
* `ImplementsLifecycle`: it holds only under a restriction that the code does not enforce,
  so a theorem for every value of the constants would promise more than there is;
* series: `WeekOfAll` and `CellsOfAll` are about single events, because the list of a range
  misses series (`all_occurrences`); the inputs of the `series` kind are for that run;
* what the run's instances add to the assumptions: that the table of hooks satisfies
  `PairsAssumption` is evaluated by TLC, not proved.

## Not modelled

PROJECT.json lists every part with its reason.  In short: publishing and audit logging
are best effort and never read back by the modelled parts; HTTP decoding, formatting
and token verification carry no state; CRUD that is one statement per request has
nothing to interleave; the Python services are stateless.  `WeekEndBatch.Run` is a stub
in the code.

Parts of modelled components that are left out:

* provisioning of a starter household (one transaction under a row lock), first-run
  set-up of a local server, rate limiters and the broadcast hub, whose state and clock
  are Redis's or the runtime's;
* billing webhooks: order and retries are Stripe's, each is one statement;
* the lists' pages, which cannot show a list of the server (Disagreements);
* a second join request of the account after it left the page with one under way; the
  expiry of React Query's unused copy of the shopping list; the statements of a read, which
  are one step of the model;
* the iCal form of the onboarding wizard, whose request changes nothing the wizard
  reads; the rollover of the meal plan to another week; `clearAll` of the AI keys, which
  no screen calls, and a stored value that is not JSON; pantry
  staples' CRUD; renaming of collections; the notification test button;
* whole-routine completions and unmarking, used by no screen; static routine views;
* the wallet, rewards and chore administration pages beyond their hooks (`QueryHooks`):
  each is a form or a button per request;
* equity, scoreboard, race and timeline pages, which only read; the admin's audit and
  time review pages;
* `EventDetailSheet` and the review of smart imports, mounted nowhere.

## Plan

Done: the server's core (`ChoreWallet`, `Redemptions`), the client's screens with their
server side, and a theorem for every safety property that the passing runs check but
`ImplementsLifecycle`.  Left:

1. abstract specifications of the screens' forms (one submission, at most one effect), which
   `EventEditor` and `SettingsCards` implement while no answer is lost;
2. the series of the calendar, once the server's query selects them by their occurrences;
3. the tables that only single statements write (billing, notifications, pets), should they
   get more than one.
