------------------------- MODULE MealPlanGeneration -------------------------
(***************************************************************************)
(* The meal plans of one user: the requests that start, restart or look at *)
(* a generation and the background tasks that write its meals              *)
(* (backend/app/domains/mealplan/service.py and router.py).                *)
(*                                                                         *)
(* A request only marks a plan "processing"; its meals come from a task    *)
(* that lives in the memory of the server process, reads the plan, spends  *)
(* up to minutes with the language model and then replaces the meals it    *)
(* had read.  Nothing locks the plan in between.  Every session reads      *)
(* committed rows, remembers them, and on commit writes by primary key the *)
(* columns it changed since it read them.                                  *)
(*                                                                         *)
(* A generation is numbered by the task that makes it, and the meals of a  *)
(* generation are one element: a task deletes and adds them in one         *)
(* transaction.  The meals' content is MealDrafting's subject.             *)
(***************************************************************************)
EXTENDS Integers, FiniteSets

CONSTANTS
    Requests,     \* HTTP requests (and the scheduler) in flight
    MaxPlan,      \* the rows of meal_plans are numbered 1 .. MaxPlan
    MaxTask,      \* generations are numbered 1 .. MaxTask
    MaxCrashes    \* how often the server process may die

ASSUME RequestsAssumption == IsFiniteSet(Requests)
ASSUME BoundsAssumption ==
    MaxPlan \in Nat \ {0} /\ MaxTask \in Nat /\ MaxCrashes \in Nat

Plans == 1 .. MaxPlan
Tasks == 1 .. MaxTask

VARIABLES
    plan,     \* the committed rows of meal_plans with their meals
    task,     \* the BackgroundTasks of the process
    req,      \* what each request has read and is about to write
    crashes   \* bound: deaths of the process so far

vars == <<plan, task, req, crashes>>

-----------------------------------------------------------------------------
(* Rows and sessions.                                                      *)

Finished == {"ready", "over_budget"}
Statuses == Finished \cup {"processing", "failed"}
Absent == "absent"

PlanRow ==
    [status : Statuses \cup {Absent},
     stale : BOOLEAN,             \* created_at + timeout has passed
     meals : SUBSET Tasks]        \* the generations whose meals it holds

TaskState ==
    [at : {"unused", "queued", "generating", "failing", "ended"},
     plan : Plans,
     loaded : SUBSET Tasks,                \* plan.meals as the task read it
     status : Statuses \cup {Absent}]      \* plan.status as the task read it

(* "marks" are the rows a request found stale and is about to fail, "then" *)
(* what it goes on to do.                                                  *)
RequestState ==
    [then : {"idle", "reply", "insert", "restart"},
     plan : Plans, marks : SUBSET Plans]

IdleRequest == [then |-> "idle", plan |-> 1, marks |-> {}]
UnusedTask == [at |-> "unused", plan |-> 1, loaded |-> {}, status |-> Absent]

Created(p) == plan[p].status # Absent
Processing == {p \in Plans : plan[p].status = "processing"}
(* Mutant: the timeout is not looked at.                                   *)
StaleNever == {p \in Plans : FALSE}

Stale == {p \in Processing : plan[p].stale}
Live(g) == task[g].at \in {"queued", "generating", "failing"}

(* Plans and tasks are numbered as they come.  Bound: a request that would *)
(* create one needs a free number.                                         *)
IsNextPlan(p) ==
    {q \in Plans : Created(q)} = 1 .. p - 1
IsNextTask(g) ==
    {h \in Tasks : task[h].at # "unused"} = 1 .. g - 1

Ended(g) == [task[g] EXCEPT !.at = "ended", !.loaded = {}, !.status = Absent]

Init ==
    /\ plan = [p \in Plans |-> [status |-> Absent, stale |-> FALSE,
                                meals |-> {}]]
    /\ task = [g \in Tasks |-> UnusedTask]
    /\ req = [r \in Requests |-> IdleRequest]
    /\ crashes = 0

-----------------------------------------------------------------------------
(* Requests: what they read, what they fail as stale, what they write.     *)

Reads(r, p, next, marks) ==
    /\ req[r].then = "idle"
    /\ req' = [req EXCEPT ![r] = [then |-> next, plan |-> p,
                                  marks |-> marks]]
    /\ UNCHANGED <<plan, task, crashes>>

(* Mutant: generation requests are not kept apart.                         *)
AdmittedAlways == TRUE

(* _ensure_not_generating: 409 if a processing row is not stale.  The      *)
(* stale ones are failed either way.                                       *)
Admitted == Processing = Stale

(* POST /mealplans, and the scheduler's generation stage.                  *)
StartGeneration(r) ==
    /\ Admitted \/ Stale # {}
    /\ Reads(r, 1, IF Admitted THEN "insert" ELSE "reply", Stale)

(* POST /mealplans/{id}/regenerate: a plan without meals is refused, but   *)
(* only after the stale rows have been committed as failed.                *)
StartRegeneration(r, p) ==
    /\ Created(p)
    /\ Admitted \/ Stale # {}
    /\ Reads(r, p, IF Admitted /\ plan[p].meals # {} THEN "restart"
                                                   ELSE "reply", Stale)

(* GET /mealplans/{id} and /mealplans/latest, which poll a generation:     *)
(* _resolve_stale_processing.                                              *)
Poll(r, p) ==
    /\ p \in Stale
    /\ Reads(r, p, "reply", {p})

(* The commit of the stale rows: by primary key, whatever they are by now. *)
MarkStale(r) ==
    /\ req[r].marks # {}
    /\ plan' = [p \in Plans |->
                  IF p \in req[r].marks THEN [plan[p] EXCEPT !.status = "failed"]
                                        ELSE plan[p]]
    /\ req' = [req EXCEPT ![r] = IF req[r].then = "reply" THEN IdleRequest
                                 ELSE [@ EXCEPT !.marks = {}]]
    /\ UNCHANGED <<task, crashes>>

Queue(g, p) == task' = [task EXCEPT ![g].at = "queued", ![g].plan = p]

(* The new processing row is committed, then the router adds its task.     *)
InsertPlan(r) ==
    /\ req[r].then = "insert" /\ req[r].marks = {}
    /\ \E p \in Plans, g \in Tasks :
         /\ IsNextPlan(p) /\ IsNextTask(g)
         /\ plan' = [plan EXCEPT ![p].status = "processing"]
         /\ Queue(g, p)
    /\ req' = [req EXCEPT ![r] = IdleRequest]
    /\ UNCHANGED crashes

(* An existing plan goes back to processing, its clock restarted.          *)
RestartPlan(r) ==
    /\ req[r].then = "restart" /\ req[r].marks = {}
    /\ \E g \in Tasks : IsNextTask(g) /\ Queue(g, req[r].plan)
    /\ plan' = [plan EXCEPT ![req[r].plan].status = "processing",
                            ![req[r].plan].stale = FALSE]
    /\ req' = [req EXCEPT ![r] = IdleRequest]
    /\ UNCHANGED crashes

(* POST /mealplans/monthly generates inside the request and inserts the    *)
(* finished plan; it asks nobody whether another generation is running.    *)
MonthlyPlan(r) ==
    /\ req[r].then = "idle"
    /\ \E p \in Plans, g \in Tasks, s \in Finished :
         /\ IsNextPlan(p) /\ IsNextTask(g)
         /\ plan' = [plan EXCEPT ![p].status = s, ![p].meals = {g}]
         /\ task' = [task EXCEPT ![g].at = "ended", ![g].plan = p]
    /\ UNCHANGED <<req, crashes>>

-----------------------------------------------------------------------------
(* run_meal_plan_generation.                                               *)

(* Its own session loads the plan and its meals.                           *)
LoadPlan(g) ==
    /\ task[g].at = "queued"
    /\ task' = [task EXCEPT ![g].at = "generating",
                            ![g].loaded = plan[task[g].plan].meals,
                            ![g].status = plan[task[g].plan].status]
    /\ UNCHANGED <<plan, req, crashes>>

(* The meals it loaded are deleted (a row that is already gone is no       *)
(* error), the new ones added, and the status written if it differs from   *)
(* the one it loaded.                                                      *)
StoreMeals(g) ==
    /\ task[g].at = "generating"
    /\ \E s \in Finished :
         plan' = [plan EXCEPT
                    ![task[g].plan].meals = (@ \ task[g].loaded) \cup {g},
                    ![task[g].plan].status =
                        IF s = task[g].status THEN @ ELSE s]
    /\ task' = [task EXCEPT ![g] = Ended(g)]
    /\ UNCHANGED <<req, crashes>>

(* Mutant: the old meals are deleted before the generation is known to     *)
(* succeed.                                                                *)
GenerationFailsEmptied(g) ==
    /\ task[g].at \in {"queued", "generating"}
    /\ task' = [task EXCEPT ![g] = [Ended(g) EXCEPT !.at = "failing"]]
    /\ plan' = [plan EXCEPT ![task[g].plan].meals = @ \ task[g].loaded]
    /\ UNCHANGED <<req, crashes>>

(* Any exception: nothing of the task's transaction is kept.               *)
GenerationFails(g) ==
    /\ task[g].at \in {"queued", "generating"}
    /\ task' = [task EXCEPT ![g] = [Ended(g) EXCEPT !.at = "failing"]]
    /\ UNCHANGED <<plan, req, crashes>>

(* Mutant: a status that ck_meal_plans_status does not know.               *)
MarkFailedError(g) ==
    /\ task[g].at = "failing"
    /\ plan' = [plan EXCEPT ![task[g].plan].status = "error"]
    /\ task' = [task EXCEPT ![g] = Ended(g)]
    /\ UNCHANGED <<req, crashes>>

(* _mark_generation_failed, in a session of its own.                       *)
MarkFailed(g) ==
    /\ task[g].at = "failing"
    /\ plan' = [plan EXCEPT ![task[g].plan].status = "failed"]
    /\ task' = [task EXCEPT ![g] = Ended(g)]
    /\ UNCHANGED <<req, crashes>>

(* ... which may fail too; the plan then stays as it is.                   *)
MarkFailedFails(g) ==
    /\ task[g].at = "failing"
    /\ task' = [task EXCEPT ![g] = Ended(g)]
    /\ UNCHANGED <<plan, req, crashes>>

-----------------------------------------------------------------------------
(* mealplan_generation_timeout_minutes pass.  Nothing stops a task that is *)
(* still running then.                                                     *)
TimeOut(p) ==
    /\ plan[p].status = "processing" /\ ~plan[p].stale
    /\ plan' = [plan EXCEPT ![p].stale = TRUE]
    /\ UNCHANGED <<task, req, crashes>>

(* The process dies with its tasks and its open transactions.              *)
Crash ==
    /\ crashes < MaxCrashes
    /\ task' = [g \in Tasks |->
                  IF Live(g) THEN Ended(g) ELSE task[g]]
    /\ req' = [r \in Requests |-> IdleRequest]
    /\ crashes' = crashes + 1
    /\ UNCHANGED plan

RequestStep(r) ==
    \/ StartGeneration(r)
    \/ \E p \in Plans : StartRegeneration(r, p)
    \/ \E p \in Plans : Poll(r, p)
    \/ MarkStale(r)
    \/ InsertPlan(r)
    \/ RestartPlan(r)
    \/ MonthlyPlan(r)

TaskStep(g) ==
    \/ LoadPlan(g)
    \/ StoreMeals(g)
    \/ GenerationFails(g)
    \/ MarkFailed(g)
    \/ MarkFailedFails(g)

Next ==
    \/ \E r \in Requests : RequestStep(r)
    \/ \E g \in Tasks : TaskStep(g)
    \/ \E p \in Plans : TimeOut(p)
    \/ Crash

Spec == Init /\ [][Next]_vars

(* Time passes, and a request that has read goes on to write.  Nothing is  *)
(* assumed of users: a client stops polling long before the timeout, and   *)
(* nobody polls a plan that the scheduler has started.                     *)
Fairness ==
    /\ \A p \in Plans : WF_vars(TimeOut(p))
    /\ \A r \in Requests :
         /\ WF_vars(MarkStale(r))
         /\ WF_vars(InsertPlan(r) \/ RestartPlan(r))

FairSpec == Spec /\ Fairness

-----------------------------------------------------------------------------
(* Every variable keeps its type.                                          *)
TypeOK ==
    /\ plan \in [Plans -> PlanRow]
    /\ task \in [Tasks -> TaskState]
    /\ req \in [Requests -> RequestState]
    /\ crashes \in 0 .. MaxCrashes

(* However requests overlap, the plans that are processing at once are no  *)
(* more than the requests that can run at once: a request is admitted only *)
(* when none is processing, so only overlapping ones slip past the check.  *)
(* The requests that have been admitted and not yet written count too.     *)
InFlight == {r \in Requests : req[r].then = "insert"}

ProcessingBounded ==
    Cardinality(Processing \ UNION {req[r].marks : r \in InFlight})
        + Cardinality(InFlight) <= Cardinality(Requests)

(* A plan keeps the meals it has until one generation of that very plan    *)
(* brings its own: a failed, lost or timed-out generation leaves the       *)
(* old meals in place, so that the plan can still be regenerated           *)
(* (_ensure_has_meals), and no generation writes into another plan.        *)
MealsOnlyReplaced ==
    [][\A p \in Plans :
         plan'[p].meals # plan[p].meals =>
           \E g \in Tasks : /\ plan'[p].meals \ plan[p].meals = {g}
                            /\ task'[g].plan = p]_vars

(* A plan that somebody still looks at after the timeout does not stay     *)
(* processing, whatever was lost, crashed or failed to be recorded before: *)
(* no overlap of requests leaves it processing or keeps reviving it.       *)
(* Without that look (GET /mealplans/latest and /mealplans/{id}) nothing   *)
(* ends it; the server has no clock of its own for it.                     *)
LookedAt(p) == WF_vars(\E r \in Requests : Poll(r, p))

ProcessingResolves ==
    \A p \in Plans :
        LookedAt(p) =>
            (plan[p].status = "processing" ~> plan[p].status # "processing")

(* "Existing meals are removed, then the new result is applied"            *)
(* (service.py:362): a plan holds the meals of one generation.  It does    *)
(* not hold: two generations of a plan may both have loaded the same old   *)
(* meals, and each removes only those.                                     *)
OneGenerationPerPlan == \A p \in Plans : Cardinality(plan[p].meals) <= 1
=============================================================================
