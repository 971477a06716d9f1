----------------------------- MODULE CycleStages -----------------------------
(***************************************************************************)
(* The weekly stages of one user: the row of user_cycle_settings, the scan *)
(* of backend/app/domains/cycle/scheduler.py that drives it through meal-  *)
(* plan generation and the order draft, and the background job that        *)
(* generates the plan.                                                     *)
(*                                                                         *)
(* Time is counted in days.  Delivery day of cycle c is day c * CycleDays; *)
(* generation and draft are due some days before it.  A setting due "in a  *)
(* minute" is due the same day.  An action that the code runs under the    *)
(* lock of the settings row, from a fresh read to its commit, is one step; *)
(* the draft stage, which awaits the price lookup under the lock, is two   *)
(* or three, and so is a generation stage that commits half way.  A        *)
(* request reads the settings row without a lock and commits later,        *)
(* writing only the columns whose value it changed.                        *)
(***************************************************************************)
EXTENDS Integers, FiniteSets

CONSTANTS
    MaxCycle,       \* deliveries are numbered 1 .. MaxCycle
    CycleDays,      \* days between two deliveries
    GenerateLead,   \* generate_lead_days of the profile
    DraftLead,      \* draft_lead_days of the profile
    RetryLimit,     \* how many draft_retry_delays_minutes there are
    Requests,       \* HTTP requests in flight at the same time
    MaxCrashes      \* the server restarts this many times

Cycles == 1 .. MaxCycle

ASSUME PolicyAssumption ==
    /\ MaxCycle \in Nat \ {0} /\ CycleDays \in Nat /\ GenerateLead \in Nat
    /\ DraftLead \in Nat \ {0} /\ RetryLimit \in Nat \ {0}
    /\ MaxCrashes \in Nat
    /\ DraftLead <= GenerateLead /\ GenerateLead < CycleDays

VARIABLES
    today,      \* the local date of the scan
    setting,    \* the committed row of user_cycle_settings
    plan,       \* the automatic meal plan of each cycle
    order,      \* the order of each cycle
    running,    \* generation tasks still generating, per cycle
    finishing,  \* generation tasks on their way to finish_generation_job
    generation, \* the scheduler's generation stage between two commits
    draft,      \* the scheduler's draft stage
    request,    \* what each HTTP request is about to write
    starts,     \* history: generations of the plan last generated, up to 3
    crashes     \* restarts so far

vars == <<today, setting, plan, order, running, finishing, generation, draft,
          request, starts, crashes>>

jobVars == <<running, finishing, starts>>

-----------------------------------------------------------------------------
(* Dates.                                                                  *)

GenerationAt(c) == c * CycleDays - GenerateLead
DraftAt(c) == c * CycleDays - DraftLead
NextGenerationAt(c) == GenerationAt(c + 1)
DeferredUntil == today + 1

(* cycle_window: the next delivery, today's included.                      *)
Window == (today + CycleDays - 1) \div CycleDays

(* _initial_next_run: the first generation time that has not passed; on    *)
(* the day itself it may or may not have.                                  *)
InitialNextRun(when) ==
    \E c \in 1 .. MaxCycle + 2 :
        /\ when = GenerationAt(c)
        /\ GenerationAt(c) >= today
        /\ GenerationAt(c - 1) <= today

Stages == {"none", "generated", "generate_failed", "drafted",
           "skipped_dormant", "skipped_user", "deferred_quota"}
Days == 0 .. (MaxCycle + 2) * CycleDays

(* stage_attempts only meets =, <= and >= with numbers up to RetryLimit,   *)
(* so it saturates one above (and above the 2 of a retried generation).    *)
AttemptsTop == IF RetryLimit < 2 THEN 2 ELSE RetryLimit + 1

Setting ==
    [enabled : BOOLEAN, stage : Stages, attempts : 0 .. AttemptsTop,
     generated : 0 .. MaxCycle,    \* last_generated_cycle_start, 0 for null
     skipUntil : 0 .. MaxCycle, nextRun : Days]

(* "aged": created_at is older than the generation timeout.                *)
Plan == [status : {"none", "processing", "ready", "failed"}, aged : BOOLEAN]

OrderStates == {"none", "draft", "confirmed", "closed"}
Columns == {"stage", "attempts", "nextRun"}

Request ==
    [at : {"idle", "skip", "reschedule"}, cycle : Cycles,
     columns : SUBSET Columns, nextRun : Days]

NoRequest == [at |-> "idle", cycle |-> 1, columns |-> {}, nextRun |-> 0]
NoDraft == [at |-> "idle", cycle |-> 1]
NoGeneration == [at |-> "idle", cycle |-> 1]

Init ==
    /\ today = 1
    /\ setting = [enabled |-> TRUE, stage |-> "none", attempts |-> 0,
                  generated |-> 0, skipUntil |-> 0,
                  nextRun |-> GenerationAt(1)]
    /\ plan = [c \in Cycles |-> [status |-> "none", aged |-> FALSE]]
    /\ order = [c \in Cycles |-> "none"]
    /\ running = [c \in Cycles |-> 0]
    /\ finishing = [c \in Cycles |-> 0]
    /\ generation = NoGeneration
    /\ draft = NoDraft
    /\ request = [r \in Requests |-> NoRequest]
    /\ starts = 0
    /\ crashes = 0

(* The draft stage holds the row lock of the settings over its lookups.    *)
SettingsFree == draft.at # "lookup"

-----------------------------------------------------------------------------
(* process_due_setting: the scan takes a due row with SKIP LOCKED and      *)
(* runs the draft stage for the cycle it has generated, the generation     *)
(* stage otherwise.                                                        *)

Due ==
    /\ generation.at = "idle"
    /\ draft.at = "idle"
    /\ setting.enabled
    /\ setting.nextRun <= today
    /\ Window \in Cycles

DraftDue == Due /\ setting.stage = "generated" /\ setting.generated = Window
GenerationDue == Due /\ ~ DraftDue

(* expire_open_orders_before.                                              *)
ExpireOlder ==
    order' = [c \in Cycles |-> IF c < Window /\ order[c] = "draft"
                               THEN "closed" ELSE order[c]]

(* Mutants: skip_until is not looked at; a failed plan is always retried.  *)
FreshEvenSkipped == setting.generated # Window
RetryableForEver == plan[Window].status = "failed"

Fresh == setting.skipUntil # Window /\ setting.generated # Window
Retryable == /\ plan[Window].status = "failed"
             /\ setting.attempts = 1

(* Mutants: the next delivery is passed over as well.                      *)
GenerateSkippedTwice ==
    /\ GenerationDue
    /\ setting.skipUntil = Window
    /\ setting' = [setting EXCEPT !.stage = "skipped_user",
                                  !.nextRun = NextGenerationAt(Window + 1)]
    /\ ExpireOlder
    /\ UNCHANGED <<today, plan, jobVars, generation, draft, request, crashes>>

GenerateDormantTwice ==
    /\ GenerationDue
    /\ Fresh
    /\ setting' = [setting EXCEPT !.stage = "skipped_dormant",
                                  !.nextRun = NextGenerationAt(Window + 1)]
    /\ ExpireOlder
    /\ UNCHANGED <<today, plan, jobVars, generation, draft, request, crashes>>

GenerateSkipped ==
    /\ GenerationDue
    /\ setting.skipUntil = Window
    /\ setting' = [setting EXCEPT !.stage = "skipped_user",
                                  !.nextRun = NextGenerationAt(Window)]
    /\ ExpireOlder
    /\ UNCHANGED <<today, plan, jobVars, generation, draft, request, crashes>>

StartJob(c, nth) ==
    /\ running' = [running EXCEPT ![c] = @ + 1]
    /\ starts' = IF nth < 3 THEN nth ELSE 3
    /\ UNCHANGED finishing

(* A failed generation is tried again on the same plan row, whose          *)
(* created_at stays as it is.                                              *)
GenerateRetry ==
    /\ GenerationDue
    /\ setting.skipUntil # Window
    /\ setting.generated = Window
    /\ Retryable
    /\ plan' = [plan EXCEPT ![Window].status = "processing"]
    /\ setting' = [setting EXCEPT !.stage = "generated", !.attempts = 2,
                                  !.nextRun = DraftAt(Window)]
    /\ StartJob(Window, starts + 1)
    /\ ExpireOlder
    /\ UNCHANGED <<today, generation, draft, request, crashes>>

(* The plan exists already: idempotent_skip.                               *)
GenerateAgain ==
    /\ GenerationDue
    /\ setting.skipUntil # Window
    /\ setting.generated = Window
    /\ ~ Retryable
    /\ setting' =
          IF plan[Window].status = "failed"
          THEN [setting EXCEPT !.stage = "generate_failed",
                               !.nextRun = NextGenerationAt(Window)]
          ELSE [setting EXCEPT !.stage = "generated",
                               !.nextRun = DraftAt(Window)]
    /\ ExpireOlder
    /\ UNCHANGED <<today, plan, jobVars, generation, draft, request, crashes>>

(* The daily limit of all users together is used up.                       *)
GenerateDeferred ==
    /\ GenerationDue
    /\ \/ Fresh
       \/ /\ setting.skipUntil # Window
          /\ setting.generated = Window
          /\ Retryable
    /\ setting' = [setting EXCEPT !.stage = "deferred_quota",
                                  !.nextRun = DeferredUntil]
    /\ ExpireOlder
    /\ UNCHANGED <<today, plan, jobVars, generation, draft, request, crashes>>

(* The user has not been active: is_active_user.  dormant_since, which     *)
(* only keeps the notification from being repeated, is left out.           *)
GenerateDormant ==
    /\ GenerationDue
    /\ Fresh
    /\ setting' = [setting EXCEPT !.stage = "skipped_dormant",
                                  !.nextRun = NextGenerationAt(Window)]
    /\ ExpireOlder
    /\ UNCHANGED <<today, plan, jobVars, generation, draft, request, crashes>>

(* start_meal_plan_generation.  Nothing of the user is being generated:    *)
(* the settings are committed with the new plan.  When another generation  *)
(* is alive everything is rolled back and the next scan tries again, which *)
(* is no step here.                                                        *)
Generated == [setting EXCEPT !.stage = "generated", !.attempts = 0,
                             !.generated = Window, !.nextRun = DraftAt(Window)]
NewPlan == [status |-> "processing", aged |-> FALSE]
Stale(c) == plan[c].status = "processing" /\ plan[c].aged

Generate ==
    /\ GenerationDue
    /\ Fresh
    /\ \A c \in Cycles : plan[c].status # "processing"
    /\ plan' = [plan EXCEPT ![Window] = NewPlan]
    /\ setting' = Generated
    /\ StartJob(Window, 1)
    /\ ExpireOlder
    /\ UNCHANGED <<today, generation, draft, request, crashes>>

(* _ensure_not_generating has found stale plans, be it one of these or one *)
(* that the user has asked for.  It marks them failed and commits: what    *)
(* the stage has written is published and the settings row unlocked while  *)
(* there is no new plan yet.                                               *)
GenerateCleared ==
    /\ GenerationDue
    /\ Fresh
    /\ plan' = [c \in Cycles |->
                  IF Stale(c) THEN [plan[c] EXCEPT !.status = "failed"]
                  ELSE plan[c]]
    /\ setting' = Generated
    /\ generation' = [at |-> "cleared", cycle |-> Window]
    /\ ExpireOlder
    /\ UNCHANGED <<today, jobVars, draft, request, crashes>>

(* The new plan follows in a transaction of its own, ...                   *)
GeneratePlan ==
    /\ generation.at = "cleared"
    /\ plan' = [plan EXCEPT ![generation.cycle] = NewPlan]
    /\ StartJob(generation.cycle, 1)
    /\ generation' = NoGeneration
    /\ UNCHANGED <<today, setting, order, draft, request, crashes>>

(* ... or not: another generation was alive beside the stale one, or the   *)
(* insert fails.  The rollback does not reach what was committed.          *)
GenerateGivenUp ==
    /\ generation.at = "cleared"
    /\ generation' = NoGeneration
    /\ UNCHANGED <<today, setting, plan, order, jobVars, draft, request,
                   crashes>>

-----------------------------------------------------------------------------
(* The background job: run_meal_plan_generation, then                      *)
(* finish_generation_job in another transaction.                           *)

(* A plan is left "processing" when marking the failure fails as well.     *)
RunJob(c) ==
    /\ running[c] > 0
    /\ running' = [running EXCEPT ![c] = @ - 1]
    /\ finishing' = [finishing EXCEPT ![c] = @ + 1]
    /\ \E status \in {"ready", "failed", "processing"} :
          plan' = [plan EXCEPT ![c].status =
                      IF status = "processing" THEN @ ELSE status]
    /\ UNCHANGED <<today, setting, order, generation, draft, request, starts,
                   crashes>>

LaterOf(a, b) == IF a < b THEN b ELSE a

(* Mutant: a success books the next cycle and not the draft.               *)
FinishJobPastDraft(c) ==
    /\ finishing[c] > 0
    /\ SettingsFree
    /\ finishing' = [finishing EXCEPT ![c] = @ - 1]
    /\ setting' = IF setting.generated # c THEN setting
                  ELSE [setting EXCEPT !.nextRun = NextGenerationAt(c)]
    /\ UNCHANGED <<today, plan, order, running, generation, draft, request,
                   starts, crashes>>

FinishJob(c) ==
    /\ finishing[c] > 0
    /\ SettingsFree
    /\ finishing' = [finishing EXCEPT ![c] = @ - 1]
    /\ setting' =
          IF setting.generated # c THEN setting
          ELSE IF plan[c].status # "failed"
          THEN [setting EXCEPT !.stage = "generated", !.attempts = 0,
                               !.nextRun = LaterOf(DraftAt(c), today)]
          ELSE IF setting.attempts = 0
          THEN [setting EXCEPT !.stage = "generate_failed", !.attempts = 1,
                               !.nextRun = DeferredUntil]
          ELSE [setting EXCEPT !.stage = "generate_failed",
                               !.nextRun = NextGenerationAt(c)]
    /\ UNCHANGED <<today, plan, order, running, generation, draft, request,
                   starts, crashes>>

(* The generation timeout passes within the day.  A job that is alive ends *)
(* long before the timeout of a plan row it has created.                   *)
Age(c) ==
    /\ plan[c].status = "processing"
    /\ ~ plan[c].aged
    /\ running[c] = 0 /\ finishing[c] = 0
    /\ plan' = [plan EXCEPT ![c].aged = TRUE]
    /\ UNCHANGED <<today, setting, order, jobVars, generation, draft, request,
                   crashes>>

(* _resolve_stale_processing, on GET /mealplans/latest and /mealplans/{id}. *)
ReadPlan(c) ==
    /\ plan[c].status = "processing"
    /\ plan[c].aged
    /\ plan' = [plan EXCEPT ![c].status = "failed"]
    /\ UNCHANGED <<today, setting, order, jobVars, generation, draft, request,
                   crashes>>

-----------------------------------------------------------------------------
(* The draft stage.  create_draft returns the open order, nothing for a    *)
(* confirmed cycle or for a plan without anything to buy (one that has no  *)
(* meals yet included), or a new draft.                                    *)

DraftBegin ==
    /\ DraftDue
    /\ draft' = [at |-> "lookup", cycle |-> Window]
    /\ UNCHANGED <<today, setting, plan, order, jobVars, generation, request,
                   crashes>>

DraftCommit ==
    LET c == draft.cycle
    IN /\ draft.at = "lookup"
       /\ setting' = [setting EXCEPT !.stage = "drafted", !.attempts = 0,
                                     !.nextRun = NextGenerationAt(c)]
       /\ \/ UNCHANGED order
          \/ /\ order[c] \in {"none", "closed"}
             /\ plan[c].status = "ready"
             /\ order' = [order EXCEPT ![c] = "draft"]
       /\ draft' = NoDraft
       /\ UNCHANGED <<today, plan, jobVars, generation, request, crashes>>

(* A failing lookup rolls back and drops the lock; the row is locked again *)
(* and re-read to book the retry or to give the cycle up.                  *)
DraftFail ==
    /\ draft.at = "lookup"
    /\ draft' = [draft EXCEPT !.at = "failed"]
    /\ UNCHANGED <<today, setting, plan, order, jobVars, generation, request,
                   crashes>>

(* Mutant: the attempt is not counted.                                     *)
DraftRetryUncounted ==
    /\ draft.at = "failed"
    /\ setting' = [setting EXCEPT !.nextRun = today]
    /\ draft' = NoDraft
    /\ UNCHANGED <<today, plan, order, jobVars, generation, request, crashes>>

DraftRetry ==
    LET attempts == IF setting.attempts < AttemptsTop
                    THEN setting.attempts + 1 ELSE AttemptsTop
    IN /\ draft.at = "failed"
       /\ setting' =
             IF attempts <= RetryLimit
             THEN [setting EXCEPT !.attempts = attempts, !.nextRun = today]
             ELSE [setting EXCEPT !.attempts = attempts,
                                  !.stage = "generate_failed",
                                  !.nextRun = NextGenerationAt(draft.cycle)]
       /\ draft' = NoDraft
       /\ UNCHANGED <<today, plan, order, jobVars, generation, request,
                      crashes>>

-----------------------------------------------------------------------------
(* POST /cycle/skip.                                                       *)

SkipRead(r) ==
    LET next == NextGenerationAt(Window)
    IN /\ request[r].at = "idle"
       /\ Window \in Cycles
       /\ order[Window] # "confirmed"
       /\ setting.skipUntil # Window
       /\ request' = [request EXCEPT ![r] =
             [at |-> "skip", cycle |-> Window, nextRun |-> next,
              columns |->
                 (IF setting.stage # "skipped_user" THEN {"stage"} ELSE {})
                 \cup (IF setting.attempts # 0 THEN {"attempts"} ELSE {})
                 \cup (IF setting.nextRun # next THEN {"nextRun"} ELSE {})]]
       /\ UNCHANGED <<today, setting, plan, order, jobVars, generation, draft,
                   crashes>>

(* Mutant: the delivery after the one meant is skipped.                    *)
SkipNextCommit(r) ==
    /\ request[r].at = "skip"
    /\ SettingsFree
    /\ setting' = [setting EXCEPT !.skipUntil = request[r].cycle + 1]
    /\ request' = [request EXCEPT ![r] = NoRequest]
    /\ UNCHANGED <<today, plan, order, jobVars, generation, draft, crashes>>

SkipCommit(r) ==
    LET q == request[r]
        Written(column, value, old) ==
            IF column \in q.columns THEN value ELSE old
    IN /\ q.at = "skip"
       /\ SettingsFree
       /\ setting' = [setting EXCEPT
             !.skipUntil = q.cycle,
             !.stage = Written("stage", "skipped_user", @),
             !.attempts = Written("attempts", 0, @),
             !.nextRun = Written("nextRun", q.nextRun, @)]
       /\ order' = [order EXCEPT ![q.cycle] =
                       IF @ = "draft" THEN "closed" ELSE @]
       /\ request' = [request EXCEPT ![r] = NoRequest]
       /\ UNCHANGED <<today, plan, jobVars, generation, draft, crashes>>

(* PUT /cycle/settings with one of the schedule fields, where the delivery *)
(* days stay what they are: next_run_at is computed again.                 *)
RescheduleRead(r) ==
    /\ request[r].at = "idle"
    /\ Window \in Cycles
    /\ \E next \in Days :
          /\ IF setting.stage = "drafted" \/ order[Window] # "none"
             THEN next = NextGenerationAt(Window)
             ELSE IF setting.generated = Window THEN next = DraftAt(Window)
             ELSE InitialNextRun(next)
          /\ request' = [request EXCEPT ![r] =
                [at |-> "reschedule", cycle |-> Window, nextRun |-> next,
                 columns |-> IF next # setting.nextRun
                             THEN {"nextRun"} ELSE {}]]
    /\ UNCHANGED <<today, setting, plan, order, jobVars, generation, draft,
                   crashes>>

RescheduleCommit(r) ==
    /\ request[r].at = "reschedule"
    /\ SettingsFree
    /\ setting' = IF "nextRun" \in request[r].columns
                  THEN [setting EXCEPT !.nextRun = request[r].nextRun]
                  ELSE setting
    /\ request' = [request EXCEPT ![r] = NoRequest]
    /\ UNCHANGED <<today, plan, order, jobVars, generation, draft, crashes>>

(* PUT /cycle/settings with "enabled".                                     *)
SetEnabled ==
    /\ SettingsFree
    /\ setting' = [setting EXCEPT !.enabled = ~ @]
    /\ UNCHANGED <<today, plan, order, jobVars, generation, draft, request,
                   crashes>>

(* The user confirms an order for the delivery, or cancels it.             *)
ConfirmOrder ==
    /\ Window \in Cycles
    /\ order[Window] # "confirmed"
    /\ order' = [order EXCEPT ![Window] = "confirmed"]
    /\ UNCHANGED <<today, setting, plan, jobVars, generation, draft, request,
                   crashes>>

CancelOrder(c) ==
    /\ order[c] = "confirmed"
    /\ order' = [order EXCEPT ![c] = "closed"]
    /\ UNCHANGED <<today, setting, plan, jobVars, generation, draft, request,
                   crashes>>

-----------------------------------------------------------------------------

(* Requests, generation and draft last minutes at most, and the scans do   *)
(* their work in the morning: none of them is under way over midnight.     *)
NextDay ==
    /\ today < MaxCycle * CycleDays
    /\ generation.at = "idle" /\ draft.at = "idle"
    /\ \A r \in Requests : request[r].at = "idle"
    /\ \A c \in Cycles : running[c] = 0 /\ finishing[c] = 0
    /\ today' = today + 1
    /\ plan' = [c \in Cycles |->
                  [plan[c] EXCEPT !.aged = plan[c].status # "none"]]
    /\ UNCHANGED <<setting, order, jobVars, generation, draft, request,
                   crashes>>

(* The process dies: background tasks and open transactions are lost.      *)
Crash ==
    /\ crashes < MaxCrashes
    /\ crashes' = crashes + 1
    /\ running' = [c \in Cycles |-> 0]
    /\ finishing' = [c \in Cycles |-> 0]
    /\ generation' = NoGeneration
    /\ draft' = NoDraft
    /\ request' = [r \in Requests |-> NoRequest]
    /\ UNCHANGED <<today, setting, plan, order, starts>>

GenerationStage ==
    \/ GenerateSkipped \/ GenerateRetry \/ GenerateAgain
    \/ GenerateDeferred \/ GenerateDormant \/ Generate
    \/ GenerateCleared \/ GeneratePlan \/ GenerateGivenUp

DraftStage == DraftBegin \/ DraftCommit \/ DraftFail \/ DraftRetry

RequestStep(r) ==
    \/ SkipRead(r) \/ SkipCommit(r)
    \/ RescheduleRead(r) \/ RescheduleCommit(r)

Next ==
    \/ GenerationStage
    \/ DraftStage
    \/ \E c \in Cycles :
          RunJob(c) \/ FinishJob(c) \/ Age(c) \/ ReadPlan(c) \/ CancelOrder(c)
    \/ \E r \in Requests : RequestStep(r)
    \/ SetEnabled
    \/ ConfirmOrder
    \/ NextDay
    \/ Crash

Spec == Init /\ [][Next]_vars

(* Every tick visits the setting when it is due and unlocked, and a task   *)
(* of the event loop goes on until it ends.  Nothing is assumed of users,  *)
(* of the calendar or of the outcome of a lookup.                          *)
Fairness ==
    /\ WF_vars(GenerationStage)
    /\ WF_vars(DraftStage)
    /\ \A c \in Cycles : WF_vars(RunJob(c)) /\ WF_vars(FinishJob(c))

FairSpec == Spec /\ Fairness

-----------------------------------------------------------------------------
(* Properties.                                                             *)

(* Every variable has its type.                                            *)
TypeOK ==
    /\ today \in 1 .. MaxCycle * CycleDays
    /\ setting \in Setting
    /\ plan \in [Cycles -> Plan]
    /\ order \in [Cycles -> OrderStates]
    /\ running \in [Cycles -> Nat]
    /\ finishing \in [Cycles -> Nat]
    /\ generation \in [at : {"idle", "cleared"}, cycle : Cycles]
    /\ draft \in [at : {"idle", "lookup", "failed"}, cycle : Cycles]
    /\ request \in [Requests -> Request]
    /\ starts \in 0 .. 3
    /\ crashes \in 0 .. MaxCrashes

(* One plan row is never generated by two background tasks at once, which  *)
(* would delete each other's meals: a retry waits for the failed task to   *)
(* end, even when a reader has marked the plan failed under it.            *)
OneJobPerPlan == \A c \in Cycles : running[c] + finishing[c] <= 1

(* Whatever skip, settings and job results write over each other, the next *)
(* run is never later than the generation of the delivery after the next   *)
(* one: the scheduler does not sleep through a cycle.                      *)
NeverSleepsThroughCycle ==
    setting.nextRun <= NextGenerationAt(Window)

(* FR-811, as far as it holds: once a skip has been committed no stage     *)
(* decides to generate the skipped cycle any more, not even for the retry  *)
(* that a failing job books after it.  What still starts is the generation *)
(* of a stage that had decided before the skip, and lost the lock to it    *)
(* when it committed the plans it found stale.                             *)
SkipStopsGeneration ==
    [][\A c \in Cycles :
          setting.skipUntil = c /\ running'[c] > running[c]
             => generation = [at |-> "cleared", cycle |-> c]]_vars

(* FR-811 as it is written.  It does not hold, for that reason.            *)
SkippedNotGenerated ==
    [][\A c \in Cycles :
          setting.skipUntil = c => running'[c] <= running[c]]_vars

(* tests/test_cycle_scheduler.py:130: the scheduler waits quietly, with    *)
(* the row as it was, while another generation is alive.  It does not hold *)
(* either: a stale plan beside the live one has the row committed, and the *)
(* cycle is taken for generated without a plan.                            *)
GeneratedHasPlan ==
    \A c \in Cycles :
        setting.generated = c /\ generation.at = "idle"
            => plan[c].status # "none"

(* docs/기획/루프완결-주간사이클.md FR-811: the skip takes this cycle out.   *)
(* finish_generation_job puts the setting of a skipped cycle back to       *)
(* "generated", and the draft stage does not look at skip_until.           *)
SkippedNotDrafted ==
    [][\A c \in Cycles :
          setting.skipUntil = c /\ order'[c] = "draft"
             => order[c] = "draft"]_vars

(* finish_generation_job: "a failure books a retry once only".  The draft  *)
(* stage resets the counter while the retry is being generated.            *)
RetriedOnce == starts <= 2

(* _is_stale_processing: a plan is stale when the timeout has passed since *)
(* this generation started.  The retry does not renew created_at.          *)
LiveJobNotFailed ==
    [][\A c \in Cycles : running[c] > 0 /\ running' = running
                            => plan'[c].status = plan[c].status]_vars

(* The scheduler gets out of every due setting: no order of retries,       *)
(* deferrals, reschedulings and job results keeps it due for ever.         *)
DueIsHandled ==
    (setting.enabled /\ setting.nextRun <= today /\ Window \in Cycles)
        ~> (setting.nextRun > today \/ ~ setting.enabled)

(* FR-807: the plan of the next delivery, once ready and due for the draft *)
(* stage, gets it before the delivery, unless the lookups failed until     *)
(* their retries were used up or the user paused, skipped or ordered.      *)
ReadyPlanIsDrafted ==
    \A c \in Cycles :
        (plan[c].status = "ready" /\ today >= DraftAt(c) /\ Window = c)
            ~> \/ setting.stage \in {"drafted", "generate_failed"}
               \/ order[c] # "none" \/ setting.skipUntil = c
               \/ ~ setting.enabled
               \/ Window # c
=============================================================================
