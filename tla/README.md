# Verification of the JARINGOBE backend

JARINGOBE plans the meals of a household within a budget, compares what they
need with a virtual fridge, and orders the rest once or twice a week.  This
directory holds TLA+ models of the parts of `src/backend` that keep state, the
TLC instances that check them, and TLAPS proofs.

Every definition is translated from the source; `PROJECT.json` names the lines
(`map`), the runs, the hazards and what covers them, the mutants that show that
each property can fail, and the theorems.

To check: `tlc -config X.cfg M.tla`, with `M` the `module` of the run in
`PROJECT.json`; to prove: `tlapm M.tla` for the modules whose names end in `Proofs`.

## The system

FastAPI, one process, one PostgreSQL at READ COMMITTED; each request and each
background activity has its own session.  `app/main.py` starts two loops: the
weekly cycle (`cycle/scheduler.py`) and the meal reminders
(`notification/scheduler.py`).

| Component | State | Operations | What is hard | What makes it correct |
|---|---|---|---|---|
| Orders (`domains/order`) | `orders`, `order_items`: status, `auto_confirm_at`, `inbound_at`, `delivery_state`, attempts; two partial unique indexes | confirm, approve, recalculate, cancel, delivery answer; draft, auto-confirm, expire, inbound by the scheduler | handlers await price lookups between read and commit; some lock the row first, some do not | one confirmed order per cycle, the fridge filled once and emptied again, the switch and the gates respected, every draft and delivery concluded, no overspending of a locked budget without the user |
| Weekly cycle (`domains/cycle`) | `user_cycle_settings`: `next_run_at`, `last_stage`, `stage_attempts`, `last_generated_cycle_start`, `skip_until`, switches | the tick, generation and draft stages, end of a job, skip, settings | the row is written by the scan, by a background job and by requests that read it earlier; one counter for two kinds of retry; restarts; schedules that change | no cycle slept through, no due row left, a skip respected, a retry once, plans without gaps |
| Meal plans (`domains/mealplan`) | `meal_plans` (`processing`, `ready`, `over_budget`, `failed`), `meals` | accept, generate in the background, regenerate, fail stale plans on read, complete a meal | lost and late background tasks, a commit in the middle of a caller's transaction, retries for two reasons | few generations at once, no meals lost, a verdict about the meals that are kept |
| Fridge (`domains/fridge`) | `fridge_items` | add, deduct, restore, shortfall, delivery lines | read-modify-write without a lock; completing a meal takes two transactions | what goes in comes out once |
| Notifications (`domains/notification`) | devices, settings with `next_send_at`, log | reminder loop, settings requests, devices, cycle events | pushes between read and commit, failing scans, crashes | a reminder at each time once, none forgotten |
| Authentication (`domains/auth`) | users, identities, refresh tokens, login codes | first login, session, rotate, revoke, issue and consume a code, region | concurrent use of one account, token or code | one user per identity, one session per code, a reuse closes the sessions |
| Budget, household | one plan and one list per user | create, upsert, replace | the onboarding is completed by whoever comes second | an onboarded user can be scheduled |
| Stores | connections; no state in a search | search, selection, cart | one name in several units | see orders |
| Core | sessions, rate limiter | | | |
| Frontend, mobile | client state | | shared token refresh | |

They interact through the database and by direct calls: the tick calls the
cycle service, which calls the order service for drafts and expiry and the meal
plan service to accept a generation; the job calls back into
`finish_generation_job`.  Delivery registration writes the fridge in the
order's transaction.  Whichever of budget and household is saved second creates
the cycle settings.

## What is modelled

| Module | What it is about | Code |
|---|---|---|
| `OrderLifecycle` | rows, locks and sessions of orders | `order/service.py`, `cycle/scheduler.py` |
| `CyclePurchases` | what orders promise for a delivery (abstract) | |
| `CycleStages` | the stages of one user over several deliveries | `cycle/service.py`, `cycle/scheduler.py` |
| `CyclePolicy`, `CycleCalendar` | delivery days, windows and stage times with weekdays, zones and changes of schedule | `cycle/policy.py`, `cycle/service.py` |
| `MealPlanGeneration` | plans, their requests and background tasks | `mealplan/service.py`, `mealplan/router.py` |
| `Ingredients`, `MealDrafting` | attempts, repair of ingredient lists, stored meals | `mealplan/service.py`, `generator.py`, `ingredient_requirements.py` |
| `FridgeStock` | lots of one ingredient and the meals that use it | `fridge/service.py`, `set_meal_completion` |
| `OrderGate` | contents and price of orders, and the gate of automatic confirmation | `order/service.py`, `budget/service.py`, `store/` |
| `Reminders` | one reminder, its devices, the loop and the requests | `notification/` |
| `AuthSessions` | one account, its user, tokens and codes | `auth/service.py`, `auth/router.py` |
| `Onboarding` | plan, household, region and the creation of the settings of one user | `budget/service.py`, `household/service.py`, `auth/service.py`, `cycle/service.py` |
| `OrderLifecycleMC`, `CycleStagesMC`, `BackgroundMC`, `ServicesMC` | instances for TLC | |
| `OrderLifecycleProofs`, `CycleStagesProofs`, `CycleCalendarProofs`, `RemindersProofs`, `OnboardingProofs` | theorems about the module of that name | |
| `QuantitiesProofs` | theorems about `MealDrafting`, `FridgeStock`, `OrderGate`, and about sums over finite sets | |
| `BackgroundProofs` | theorems about `MealPlanGeneration`, and what the others' theorems say of `BackgroundMC` | |
| `ServicesProofs` | theorems about `AuthSessions`, and what the others' theorems say of `ServicesMC` | |

All modules cut a handler the same way: where it awaits something that other
sessions can overtake, which is a read, an autoflush that takes a row lock, a
call outside the database, a commit.  A session remembers the columns it read.
The ORM writes, by primary key, the columns it changed against what it read,
whatever is in the row by then.  An action that ends a request without a commit
(`Abort`, `Abandon`, a failing write) stands for every failing path.

### OrderLifecycle

All orders of one user, the sessions that write them, and the row locks they
hold.

| In the model | In the code |
|---|---|
| `order[o]` | a committed row of `orders`; `armed` is `auto_confirm_at` not null, `needed` whether there is a line to buy |
| `stock[o]` | how many times the lines of `o` are in the fridge (items with that `order_id`) |
| `rowLock`, `settingsLock` | PostgreSQL row locks on `orders` and `user_cycle_settings` |
| `tx[s]` | where a session is between its statements, the rows it has loaded and whether it loaded them with `auto_confirm_at` set |
| `autoConfirm`, `skipUntil` | the settings columns orders depend on; `autoConfirm` is "auto_confirm and enabled" |
| `clock` | the delivery `cycle_window` returns |
| `overwritten` | history: orders that a write based on a stale read has closed |

A handler that locks the row it decides on before it reads it, and holds the
lock to its commit, is one action (`Cancel`, `Recalculate`, `Received`,
`NotReceived`, the delivery scan).  The unique indexes are guards of the commits.
Due times are left open: once a row has a time, it may have come.

`CyclePurchases` says what this amounts to for a delivery: nothing bought,
bought, or delivered, with the fridge moving only with the delivery, its
revocation and the cancellation, one cycle at a time.  `BehavesAsOnePurchase` is
the refinement (`OrderLifecycleMC`): the purchase of a cycle is that of its
confirmed order, the fridge is the stock of all its orders.  The code does not
keep the promise altogether: a write that rests on a stale read may close a
delivered order.  Those writes are counted (`overwritten`), and the abstract
steps `BuyAgain` and `Forget` are allowed only in a step that counts one.

### CycleStages and CycleCalendar

`CycleStages` is the settings row of one user over several deliveries, with one
plan and one order status per cycle, the background jobs, the draft stage and
the requests.  Time is in days; a retry "in n minutes" is due the same day.  Each
branch of `_process_generation_stage` is an action.  The last one, which makes a new
plan, commits half way when `_ensure_not_generating` finds a stale plan: it is
`Generate` (one transaction), or else `GenerateCleared` (stale plans failed, settings
published and unlocked) and then `GeneratePlan`, `GenerateGivenUp` or a restart.
`RunJob` and `FinishJob` are the two transactions of a job; the draft stage is begin,
then commit or fail, then the transaction that books the retry.  Skip and rescheduling read first and
commit later.  `Crash` loses jobs, open transactions and requests.  The daily
quota, activity of the user and the outcome of a lookup are free choices.

`CycleStages` has cycles of one length.  `CycleCalendar` is about the dates: hours
of UTC, two frequencies, seven anchor weekdays, zones on both sides of UTC, and
settings that change any of them at any moment, while every generation and draft
succeeds.  `CyclePolicy` holds the policy and what is assumed of it: the leads lie
before the delivery before, as they do with the deployed values, although
`load_policy` checks each lead alone.

`CycleStages` and `OrderLifecycle` overlap in the draft, expiry and skip: the one
keeps the stages and reduces an order to four states, the other keeps orders and
locks and lets the stages come at any time.

### MealPlanGeneration, MealDrafting, FridgeStock

`MealPlanGeneration` has the plans of a user with the generations whose meals they
hold (`plan`), the tasks in the memory of the process (`task`) and what requests
have read (`req`).  A request fails the stale rows it found in a commit of its own
(`MarkStale`, the commit in the middle of `_ensure_not_generating`) before it
inserts or restarts a plan.  A task loads plan and meals, and later deletes just
the meals it loaded.  `created_at` against the timeout is the flag `stale`.

`MealDrafting` is one generation from the inside: attempts, the clock, the
allergy note and the status of `_generate_within_budget`, the parsing of an answer
(first meal of a slot, no more than asked for), the fixed recipes, the repair and
the stored meals.  A dish is the set of marks that the repair recognises in its
name and steps, with the amounts it lists; `Ingredients` is the dictionary, with
an ingredient of every kind the repair treats in a way of its own.

`FridgeStock` counts one ingredient: lots in the order of expiry (`lot`), meals
with completion and snapshot (`meal`), requests with the lots as they read them
(`req`), and `supplied`, all that was ever put in.  Amounts are small integers.
Deliveries arrive and are revoked; their other half is in `OrderLifecycle`.

### OrderGate

For every preview, need, fridge and offers of the shop are drawn anew, as the code
queries all three anew.  What the lines are (a price, unmatched, or nothing to buy)
decides the total and the gate; of an order only the total is read again, so a row
keeps no lines.  `gate` is the order that `auto_confirm_order` has let through and
not yet committed, whose row is locked, with the budget it was judged by.  Users
confirm other orders meanwhile and have no limit.  `budget` is the amount of a locked
budget or `Unlocked`, and a request may change either at any time: an unlocked budget
limits nothing, and a plan that is over budget blocks in any case (`OverLimit`,
`planOverBudget` of `Judge`).  `CycleLimit` is `cycle_limit` with its proration (rounded
half up) and what is committed from the first of the month to the end of the cycle.

### Reminders, AuthSessions, Onboarding

`Reminders`: `setting` is the row, `scan` the session of the loop with the row as
loaded and the devices of the push under way, `req` the pending change of a
request.  Time is in slots.  Settings of other users only decide when the scan
flushes and commits, or that it fails, so one setting is modelled.  `Overtake` is
a second request that reads and commits while one is open.

`AuthSessions`: one account of a provider.  `token` and `code` are the rows with
history (which rotation or code a token came from), `req` what a request holds
between its statements.  The use of a code is one conditional UPDATE and so one
action; rotation reads and then commits.

`Onboarding`: `user`, `plan`, `household` (which saves have members), `settings`
("absent", "default", "changed").  The query for the other half of the onboarding
flushes the plan, which locks the row; the deletion of members waits for rows that
another request is deleting.

## Runs

| Run | Bounds | Question |
|---|---|---|
| `OrderTwoCycles` | 2 orders, 1 request, 2 cycles, 2 attempts | Do row contents and the state machine stay consistent (`OneOpenPerCycle`, `DeliveryConsistent`, `LegalTransitions`), and do orders implement one purchase per delivery (`BehavesAsOnePurchase`)? |
| `OrderRequestRaces` | 2 orders, 2 requests, 1 cycle | Do races leave one confirmation, exact stock, and no automatic confirmation against the user? |
| `OrderLiveness` | 2 orders, 1 request, 1 cycle, fair | Are drafts decided and deliveries concluded? |
| `CycleTwoDeliveries` | 2 deliveries 3 days apart, 1 request, 1 restart, 1 retry | Does the next run stay in reach, does one job work on a plan, does a skip stop the stages to come? |
| `Background` | stages as above without requests; 2 plans, 2 tasks, 2 requests, 1 restart; 1 device, 4 slots, 1 request, 1 failure, 1 late request; fair | Is what is due done, what is lost noticed, and are meals kept? |
| `Services` | see below | Is what requests and stages compute and commit right? |
| `OrderExpiryRace`, `OrderSkipRace`, `CycleSkipRace`, `CycleRetryTwice`, `CycleStaleRetry`, `PantryDoubleTap` | the smallest that show it | disagreements, below |

`Background` and `Services` are unions: the first state chooses a `part`, only that
part moves, and the others stay in an initial state.  The parts touch different
tables and do not synchronise, so a product of them would add nothing; each is
explored completely, and a property speaks about its own part.  The parts of
`Services`:

| Part | Bounds | Properties |
|---|---|---|
| calendar | 18 days, 2 frequencies, 7 anchors, zones +9 and -5, looks every 8 h up to 12 h late, 1 change of schedule | `StageOfItsCycle`, `PlansTile` |
| drafting | 2 days, 1 meal a day, 2 people, 2 allergies, 67 answers, calls of 1, 4 or 12 with budget 5, 3 retries | `VerdictDescribesResult`, `AnswersInTime`, `RepairIsStable`, `RepairMindsAllergies` |
| gate | 3 cycles of 2 days in months of 5, one name in 2 units, 2 prices, budget of 2 or 3 or not locked | `AutoSpendWithinMonth` |
| fridge | 1 request beside deliveries and edits, 2 meals of 2, 3 lots, supply 3, 1 crash | `NoInflation` |
| auth | 2 requests, 2 users, 3 tokens, 1 code | `OneUserPerIdentity`, `CodeYieldsOneSession`, `ReuseClosesSessions` |
| onboarding | 2 requests, 2 budgets, 2 households, both countries | `OnboardedIsComplete`, `LastHouseholdKept`, `SettingsKept` |
| reminders | 1 device, 1 request that another may overtake, days of 2 slots up to the second day, 1 failure, 1 late request | `RepeatsExplained`, `EnabledIsScheduled` |

Why the bounds are enough.  Two orders are what a race for one cycle needs, or one
per cycle; two requests beside the scheduler give every pair of handlers and every
triple with the scheduler.  A cycle of three days has, as the real ones, a day
before the generation, the generation, the draft, and the delivery.  A cycle across
a month boundary is the second of three; a month of five days has both an early
and a late boundary inside a cycle.  18 days hold two weekly plans and their
successor from every anchor.  Two sessions are what a lost update, a duplicate key
or a double use needs.  A restart is a step that can come anywhere, so one of them
already falls between any two others.  Larger instances were explored once and show
the same: `MealPlanGeneration` with 3 plans and tasks, `Onboarding` with 3 requests
and saves, `FridgeStock` with a supply of 4, and `OrderLiveness` with two questions about
a delivery, where the run gives up after the first because it takes too long.
`attempts` counters saturate where the code only compares them.  Order ids and requests
are interchangeable, so the safety runs of one module use symmetry.

`CycleTwoDeliveries` has the requests and `Background` the liveness without them, on
purpose: a rescheduling that has read the row before the stages and commits after
them can put `next_run_at` to the next cycle, for which a whole generation has to
fit into one request.  The model has that behaviour, but it says little about the
program.

Deadlock is checked in the `Order*` and `Cycle*` runs.  `Background`, `Services` and
`PantryDoubleTap` stop where a bound (plans, slots, saves, supply) is used up.

### Fairness

`FairSpec` of `OrderLifecycle` assumes that a handler in flight ends (weak
fairness of what it does next, which includes failing), that the lookups it awaits do
not fail for ever, and that each due row is found unlocked by some tick again and
again (strong fairness of the scans: they pass over locked rows, and every tick
visits all due rows).

`BackgroundFairness` is weak throughout.

* Stages: the tick visits a due, unlocked setting, since the loop runs all the time
  and survives exceptions; a task of the event loop runs to its end.
* Meal plans: time passes (`TimeOut`) and a request that has read goes on to write.
  Nothing is assumed of the task: it may be lost, fail, or fail to record its failure.
  Nothing is assumed of clients either: theirs stops polling after 180 s
  (`MEALPLAN_POLL_MAX_MS`), a plan is stale after ten minutes, and nobody polls a
  plan the scheduler has started.  Therefore `ProcessingResolves` has it as a hypothesis
  (`LookedAt`): a plan that is looked at after the timeout, again and again, does not
  stay processing.  A plan that nobody looks at does.
* Reminders: the loop scans every 30 seconds and goes on after an exception; a push
  returns.  Scans fail a bounded number of times.

Nothing is assumed of users, of the calendar, or of the outcome of a lookup.

## Where code and documents disagree

| Run | The code | The document |
|---|---|---|
| `OrderExpiryRace` | an order approved while the expiry stage waits for its row lock goes from confirmed to expired | the state machine is enforced (plan, CWE-841) |
| `OrderSkipRace` | an order confirmed between the check and the commit of a skip | "confirmed cycle cannot be skipped" |
| `CycleSkipRace` | a job that ends after the skip reactivates the cycle, and a draft is made | FR-811 |
| `CycleRetryTwice` | the draft stage resets `stage_attempts` under a running retry; a second retry follows | a failure books a retry once |
| `CycleStaleRetry` | the retry keeps `created_at`; any reader fails the running job as stale | `_is_stale_processing` |
| `PantryDoubleTap` | two requests undo one completion at once, and the snapshot goes into the fridge twice | "idempotent", "no inflation" (`set_meal_completion`) |

Some formulas are written down in the modules and checked by no run, because they
do not hold and the documents promise less, or say it only in a comment:

* `SkippedNotGenerated` (CycleStages), FR-811 as it is written: the stage that has
  committed half way (`mealplan/service.py:305`) generates a cycle that is skipped before
  its plan is inserted.  `SkipStopsGeneration` is what does hold.
* `GeneratedHasPlan` (CycleStages): `tests/test_cycle_scheduler.py:130` has the scheduler
  leave the row as it was while another generation is alive.  With a stale plan beside
  the live one, or a restart after that commit, the row says "generated" and there is no
  plan of the cycle.
* `OneGenerationPerPlan` (MealPlanGeneration): two generations of one plan may each
  add meals, since each deletes only those it had loaded.  `MealsOnlyReplaced` and
  `ProcessingBounded` are what does hold.
* `OneMealPerSlot` (MealDrafting): days are clamped into the plan after slots were
  compared (`generator.py:272`).
* `AmountFitsCurrency` (Onboarding): two overlapping saves of the budget each write
  the column they changed.
* `NoPushWhenOff` (Reminders): a reminder switched off during a scan is still pushed.

`NoInflation` holds with one request at a time, whatever crashes, and fails with two:
the first is `Services`, the second `PantryDoubleTap`.  `EnabledIsScheduled` holds for
one request against the loop; two requests that overlap can leave a reminder on and
without a time, so the property excepts histories with such an overlap.  A scan that
dies repeats a push; `RepeatsExplained` bounds repetitions by dead scans and
late requests.

`AutoSpendWithinMonth` speaks of orders that were judged by a locked budget, since no
other is limited.  It compares with that budget: one that is lowered or locked between
the judgement and the commit is not seen by the order under way, and orders confirmed
under an earlier budget, or none, may have spent more than a later one allows.

## Proofs

TLC checks the instances above; the theorems hold for every value of the constants
that meets the assumptions.  Each proof has the same shape: the property is not
inductive, an invariant `IInv` says what else holds between the statements of the
handlers, one lemma per action shows that the action keeps it, and the property
follows from it, an action property with one step more.

| Module | Proved for every instance | Assumed |
|---|---|---|
| `OrderLifecycleProofs` | `TypeOK`, `OneConfirmedPerCycle`, `OneOpenPerCycle`, `StockMatchesOrder`, `DeliveryConsistent`, `LegalTransitions`, `AutoConfirmOnlyWhileOn`, `BlockedNeedsUser`, `BehavesAsOnePurchase` | the scheduler is no request, bounds are natural numbers |
| `CycleStagesProofs` | `TypeOK`, `OneJobPerPlan`, `NeverSleepsThroughCycle`, `SkipStopsGeneration` | `PolicyAssumption` |
| `CycleCalendarProofs` | `TypeOK`, `StageOfItsCycle`, `PlansTile` | those of `CyclePolicy`, `Punctual` |
| `BackgroundProofs` | `TypeOK`, `ProcessingBounded`, `MealsOnlyReplaced` of plans; the same and `TypesOK` of `Background` | requests are finitely many, bounds natural; for `Background` the assumptions of its parts |
| `QuantitiesProofs`, drafting | `TypeOK`, `RepairIsStable`, `RepairMindsAllergies`, `AnswersInTime`, `VerdictDescribesResult` | `Household`, `Cookable`, `Timed`; `Costed` for `TypeOK` |
| `QuantitiesProofs`, fridge | `TypeOK`, `NoInflation` | `Stocked`; one request for `NoInflation` |
| `QuantitiesProofs`, gate | `TypeOK`, `AutoSpendWithinMonth` | `Priced`, `Dated`, `Budgeted` |
| `RemindersProofs` | `TypeOK`, `RepeatsExplained`, `EnabledIsScheduled` | `Bounded` |
| `OnboardingProofs` | `TypeOK`, `OnboardedIsComplete`, `LastHouseholdKept`, `SettingsKept` | `Validated`, for the first two |
| `ServicesProofs` | `TypeOK`, `OneUserPerIdentity`, `CodeYieldsOneSession`, `ReuseClosesSessions` of sign-in; every property of `Services` | none for sign-in; the values of `ServicesMC` for the rest, one request of the fridge for `NoInflation` |

**Orders.**  That an approval keeps "one open order" depends on the order being still
open at its commit, which depends on the row lock.  `IInv` adds what each session
knows:

* `TransactionOK(s)`: the rows a session holds exist; at the points in `Locked`
  it owns their locks; an approval's order is open, an auto-confirmation's a
  draft, and auto-confirm is on while the gates are checked.
* `RowOK(o)`: stock, status, `inbound`, `delivery` and `attempts` of one row agree;
  orders that a stale write closed are closed and were stocked at most once.
* `Unique`: at most one open and one confirmed order per cycle.

Each action keeps rows and uniqueness, its own session's knowledge, and the other
sessions' (`Undisturbed`: it writes only rows it has locked or that nobody has).

`Implements` is the refinement.  The mapping reads the purchase of a cycle off its one
confirmed order and the fridge off the sum of the stock, which is a cardinality, so the
proof first shows that an action that moves the stock of one order moves the sum by as
much.  An action then maps to the abstract step of its name, or to a stutter if it
writes nothing of the confirmed order; the writes based on stale reads map to the steps
that `overwritten` counts.

**The weekly cycle.**  `ReachOK` (`CycleStagesProofs`): not only is the next run in
reach of the delivery at hand, so is every next run that a request has computed and not
yet written, since a request that overtakes the stage must leave a legal row too.
`JobsOK`: while a job is under way its plan is the one of the delivery at hand, and the
row cannot start a second: it is generated or skipped, or else no retry is booked and
no draft is under way that would reset the count.  `GapOK` says the same of a stage
between its two commits, which has no job yet: no other job and no draft is under way,
and the settings are such that none can start before its plan is there.

`CycleCalendarProofs`: nothing records for which cycle a run was booked.  `AwaitsStage`
says that the booked time is a stage of the cycle that the scheduler will find when
it comes, and `NextPlan` (`Follows`) that it starts where the last plan ended.  Both rest on
the lead times being shorter than the gap between two deliveries, and on a look
coming before the day of the delivery is over (`Punctual`); `ProfileAssumption` and
`Punctual` are what the deployed policy satisfies.

**Meal plans.**  Nothing locks between the check for a running generation and the commit
of a new one, so the bound on processing plans does not follow from the rows.
`OwnersOK` gives every processing plan a request of its own that, if it is about to make
another one processing, is about to fail this one; the bound is then an injection.

**Drafting** (`QuantitiesProofs`) treats the repair as the chain of stages it is.  A stage adds only
what is missing and not refused (`Filled`), and what later stages add is nothing that an
earlier one asks about or counts: fat and salt need no water, and what is added for a
name or a step is never the raw rice or the broth that water is measured by.  So
a second repair finds every stage satisfied.  `Household` is the type of
`household_size` and the list of allergies, `Cookable` that lists name ingredients and
answers list dishes, `Timed` that a call takes no longer than its timeout.

**Sums.**  Total of a draft, food in the fridge and money of a month are sums over sets,
written with `SumFunction` of the community modules, a fold.  What a fold computes is out
of reach as such, since its induction takes an operator.  `SumIsCount` goes round that
for natural summands: a sum is the cardinality of its units (`Units`), a statement
about one function and its finite domain, which follows by the minimal counterexample
under inclusion (`WFMin`, no operator needed).  What the proofs cite follows from it or by
the same argument: how a sum changes with one summand, that it grows with its
summands and with its set.

**The fridge.**  That the lots hold no more than was put in is not inductive: between
reading and writing, a deduction has counted lots that a deletion, a revocation or an
edit changes, and between its two transactions the food is neither in the lots nor noted
with the meal.  `Backed` counts all of it: each lot with what the open request has read of
it (`Claim`), if that is more; the snapshots of the meals (`Kept`); and what is taken
and not yet noted.  Their sum is at most what was supplied.  `Sound` adds that the
snapshot the request read is still that of the meal.  It is what fails with two requests,
and `PantryDoubleTap` is the counterexample; so `NoInflation` is proved for one request
at a time and not for more.

**The gate.**  The limit was computed when the order was let through, and is used when it is
committed; the user confirms other orders of the month between the two, and changes the
budget.  `LetThrough` says that, if the order was judged by a locked budget, what the
scheduler confirmed in that month fits with the order at hand into the budget the gate
remembers, which neither the user's orders nor a new budget change, as only what is
automatic counts.  That the
limit suffices (`LimitCounts`) needs that no order of the month but the current one is
open and none is later than it (`Past`): so all of the month that is confirmed lies in the
period `cycle_limit` subtracts, and the share accrued is at most the budget.

**Reminders and onboarding.**  A push that will be repeated is owed from the moment its
cause happens until it is made; `Owed` says in which states one is, and `Paid` counts it
with those that were made.  `WholeOK` speaks of the row every open request will leave,
since a row is put together from what was loaded and what was changed.  The decision
to complete the onboarding rests on a plan found earlier; `FoundOK` says that a plan a
request has found is still there.

**Sign-in.**  Between the UPDATE that uses a code and the INSERT of the token, only the
request knows of the code; `CodesOK` says that a used code is in the hands of one request
or of one token, and belongs to the user either names.  That closed tokens have no
successors but those of rotations under way is a matter of counting: `Accounted` adds
the successors there are to the rotations still to come, and every step keeps the sum
within `escaped`.

**The compositions.**  `ServicesProofs` instantiates the proofs of the parts with the
constants of `ServicesMC`, shows that each of its steps is a step or a stutter of every
part, and that the constants meet the hypotheses (`Values`, `Cooks`, `Policy`).  So the
theorems from `Onboarded` on are about the very formulas that `Services`
checks, and no hypothesis is left that the values of a run do not satisfy.  `FoodKept`
keeps the hypothesis that there is one request of the fridge, which is a constant of
the run.  `BackgroundProofs` does the same for `Background`, whose assumptions on the
constants (`StagesAssumption`, `RemindersAssumption`) TLC evaluates in the run.

Only model-checked, and why:

* Liveness: `DraftsResolve` and `DeliveriesConclude` of orders, `ReadyIsDrafted`,
  `StagesAreHandled`, `ProcessingResolves` and `ReminderIsHandled` of `Background`.  They
  need fairness and `ENABLED`.
* What does not hold: the six runs above.

Every invariant and every action property of a passing run, and the refinement, is
proved.

## Not modelled

* The rate limiter: a short sequential algorithm (`core/ratelimit.py`; its comment at
  line 46 says ten a minute where the limit is five).
* The handler of store connections, one upsert of a flag.
* Provider adapters and cryptography of the sign-in.
* Prompts, recipe texts and the price table: data the properties do not tell apart.
  The repair is modelled from the point where names and steps have been recognised.
* The parsing of the policy from the environment: the policy is a constant.
* Templates and pushes of other events than the reminder: they keep no state but a log.
* The web frontend and the mobile shell, migrations, containers and scripts.

Hazards without a property: the reminder of a blocked order is lost when the process
dies between two commits (`cycle/scheduler.py:179`; nobody promises it), and the two behind `OneMealPerSlot` and `AmountFitsCurrency` above.

## Plan

1. `FridgeStock` counts one ingredient, as its property asks; a completion that takes
   several, and finds some of them missing, would repeat it per name.
2. Daylight saving is outside the calendar (zones are fixed offsets), and a policy per
   user would make `Profiles` a variable.
3. The rate limiter and the client's shared refresh, if they earn a module.
