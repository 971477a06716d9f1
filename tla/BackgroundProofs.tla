-------------------------- MODULE BackgroundProofs --------------------------
(***************************************************************************)
(* Proofs about what BackgroundMC runs.  The first part is about           *)
(* MealPlanGeneration itself, for any number of requests, plans, tasks and *)
(* crashes: no more plans are processing than requests run at once, and    *)
(* the meals of a plan are only ever replaced.                             *)
(*                                                                         *)
(* Nothing locks a plan between the check for a running generation and the *)
(* commit of a new one, so the bound is not a matter of the rows alone.    *)
(* It follows from who made them processing: every processing plan can be  *)
(* given to a request of its own that, should it be about to make another  *)
(* one processing, is also about to fail this one (OwnersOK).              *)
(*                                                                         *)
(* The second part brings these and the proofs about CycleStages and       *)
(* Reminders to BackgroundMC: a part that does not run stutters.           *)
(***************************************************************************)
EXTENDS BackgroundMC, TLAPS, FiniteSetTheorems, FunctionTheorems

Writing(r) == req[r].then \in {"insert", "restart"}

OwnersOK ==
    \E f \in [Processing -> Requests] :
      /\ \A p, q \in Processing : f[p] = f[q] => p = q
      /\ \A p \in Processing : Writing(f[p]) => p \in req[f[p]].marks

(* The meals of a generation are those of a task that has ended, and are   *)
(* in the plan it worked for.                                              *)
MealsOK ==
    \A p \in Plans : \A g \in plan[p].meals :
        task[g].at = "ended" /\ task[g].plan = p

IInv == TypeOK /\ OwnersOK /\ MealsOK

-----------------------------------------------------------------------------
(* Plans that are numbered next do not exist yet.                          *)
LEMMA NextPlanIsAbsent ==
    ASSUME NEW p \in Plans, IsNextPlan(p)
    PROVE  ~Created(p)
  BY DEF IsNextPlan, Plans

(* Nor have tasks that are numbered next been used.                        *)
LEMMA NextTaskIsUnused ==
    ASSUME NEW g \in Tasks, IsNextTask(g)
    PROVE  task[g].at = "unused"
  BY DEF IsNextTask, Tasks

(* At the start there is no plan.                                          *)
LEMMA Start == Init => IInv
<1> SUFFICES ASSUME Init PROVE IInv
  OBVIOUS
<1>1. 1 \in Plans
  BY BoundsAssumption DEF Plans
<1>2. TypeOK
  BY <1>1, BoundsAssumption
     DEF Init, TypeOK, PlanRow, TaskState, RequestState, Statuses, Finished,
         Absent, UnusedTask, IdleRequest
<1>3. Processing = {}
  BY DEF Init, Processing, Absent
<1>4. OwnersOK
  <2> DEFINE f == [p \in Processing |-> CHOOSE r \in Requests : TRUE]
  <2>1. f \in [Processing -> Requests]
    BY <1>3
  <2> QED
    BY <1>3, <2>1 DEF OwnersOK
<1>5. MealsOK
  BY DEF Init, MealsOK
<1> QED
  BY <1>2, <1>4, <1>5 DEF IInv

-----------------------------------------------------------------------------
(* Types.                                                                  *)

(* A task that keeps its types but for what is named keeps them all.       *)
LEMMA TaskTyped ==
    ASSUME NEW t \in TaskState,
           NEW a \in {"unused", "queued", "generating", "failing", "ended"},
           NEW p \in Plans, NEW l \in SUBSET Tasks,
           NEW s \in Statuses \cup {Absent}
    PROVE  /\ [t EXCEPT !.at = a] \in TaskState
           /\ [t EXCEPT !.at = a, !.plan = p] \in TaskState
           /\ [t EXCEPT !.at = a, !.loaded = l, !.status = s] \in TaskState
<1> DEFINE t1 == [t EXCEPT !.at = a]
           t2 == [t1 EXCEPT !.loaded = l]
<1>1. t1 \in TaskState
  BY DEF TaskState
<1>2. [t EXCEPT !.at = a, !.plan = p] = [t1 EXCEPT !.plan = p]
  OBVIOUS
<1>3. [t EXCEPT !.at = a, !.loaded = l, !.status = s]
         = [t2 EXCEPT !.status = s]
  OBVIOUS
<1> HIDE DEF t1
<1>4. [t1 EXCEPT !.plan = p] \in TaskState
  BY <1>1 DEF TaskState
<1>5. t2 \in TaskState
  BY <1>1 DEF TaskState
<1> HIDE DEF t2
<1>6. [t2 EXCEPT !.status = s] \in TaskState
  BY <1>5 DEF TaskState
<1> QED
  BY <1>1, <1>2, <1>3, <1>4, <1>6 DEF t1

(* Every step keeps the types.                                             *)
LEMMA TypesKept ==
    ASSUME TypeOK, Next
    PROVE  TypeOK'
<1> USE DEF Plans, Tasks
<1>1. \A p \in Plans : plan[p] \in PlanRow
  BY DEF TypeOK
<1>2. \A g \in Tasks : task[g] \in TaskState
  BY DEF TypeOK
<1>3. IdleRequest \in RequestState
  BY BoundsAssumption DEF IdleRequest, RequestState
<1>4. \A g \in Tasks : Ended(g) \in TaskState
  <2> SUFFICES ASSUME NEW g \in Tasks PROVE Ended(g) \in TaskState
    OBVIOUS
  <2>1. {} \in SUBSET Tasks /\ Absent \in Statuses \cup {Absent}
        /\ task[g].plan \in Plans
    BY <1>2 DEF TaskState
  <2> QED
    BY <1>2, <2>1, TaskTyped DEF Ended
<1>5. ASSUME NEW r \in Requests, NEW p \in Plans, NEW m \in SUBSET Plans,
             NEW next \in {"insert", "restart", "reply"}, Reads(r, p, next, m)
      PROVE  TypeOK'
  <2>1. [then |-> next, plan |-> p, marks |-> m] \in RequestState
    BY DEF RequestState
  <2> QED
    BY <1>5, <2>1 DEF Reads, TypeOK
<1>6. Stale \in SUBSET Plans
  BY DEF Stale, Processing
<1>7. ASSUME NEW r \in Requests, StartGeneration(r) PROVE TypeOK'
  <2>1. 1 \in Plans
    BY BoundsAssumption
  <2> QED
    BY <1>5, <1>6, <1>7, <2>1 DEF StartGeneration
<1>8. ASSUME NEW r \in Requests, NEW p \in Plans,
             StartRegeneration(r, p) \/ Poll(r, p)
      PROVE  TypeOK'
  BY <1>5, <1>6, <1>8 DEF StartRegeneration, Poll
<1>9. ASSUME NEW r \in Requests, MarkStale(r) PROVE TypeOK'
  <2>1. plan' \in [Plans -> PlanRow]
    BY <1>1, <1>9 DEF MarkStale, PlanRow, Statuses, TypeOK
  <2>2. [req[r] EXCEPT !.marks = {}] \in RequestState
    BY DEF TypeOK, RequestState
  <2>3. req' \in [Requests -> RequestState]
    BY <1>3, <1>9, <2>2 DEF MarkStale, TypeOK
  <2> QED
    BY <1>9, <2>1, <2>3 DEF MarkStale, TypeOK
<1>10. ASSUME NEW g \in Tasks, NEW p \in Plans, Queue(g, p)
       PROVE  task' \in [Tasks -> TaskState]
  <2>1. [task[g] EXCEPT !.at = "queued", !.plan = p] \in TaskState
    BY <1>2, TaskTyped
  <2>2. task' = [task EXCEPT ![g] = [task[g] EXCEPT !.at = "queued",
                                                    !.plan = p]]
    BY <1>10 DEF Queue, TypeOK
  <2> QED
    BY <2>1, <2>2 DEF TypeOK
<1>11. ASSUME NEW r \in Requests, InsertPlan(r) \/ RestartPlan(r) PROVE TypeOK'
  <2>1. req[r].plan \in Plans
    BY DEF TypeOK, RequestState
  <2>2. task' \in [Tasks -> TaskState]
    BY <1>10, <1>11, <2>1 DEF InsertPlan, RestartPlan
  <2>3. plan' \in [Plans -> PlanRow]
    <3>1. CASE InsertPlan(r)
      BY <1>1, <3>1 DEF InsertPlan, TypeOK, PlanRow, Statuses
    <3>2. CASE RestartPlan(r)
      BY <1>1, <2>1, <3>2 DEF RestartPlan, TypeOK, PlanRow, Statuses
    <3> QED
      BY <1>11, <3>1, <3>2
  <2> QED
    BY <1>3, <1>11, <2>2, <2>3 DEF InsertPlan, RestartPlan, TypeOK
<1>12. ASSUME NEW r \in Requests, MonthlyPlan(r) PROVE TypeOK'
  <2>1. PICK p \in Plans, g \in Tasks, s \in Finished :
          /\ plan' = [plan EXCEPT ![p].status = s, ![p].meals = {g}]
          /\ task' = [task EXCEPT ![g].at = "ended", ![g].plan = p]
    BY <1>12 DEF MonthlyPlan
  <2>2. plan' \in [Plans -> PlanRow]
    BY <1>1, <2>1 DEF TypeOK, PlanRow, Statuses
  <2>3. task' \in [Tasks -> TaskState]
    <3>1. task' = [task EXCEPT ![g] = [task[g] EXCEPT !.at = "ended",
                                                      !.plan = p]]
      BY <2>1 DEF TypeOK
    <3> QED
      BY <1>2, <3>1, TaskTyped DEF TypeOK
  <2> QED
    BY <1>12, <2>2, <2>3 DEF MonthlyPlan, TypeOK
<1>13. ASSUME NEW g \in Tasks, LoadPlan(g) PROVE TypeOK'
  <2>1. task[g].plan \in Plans
    BY <1>2 DEF TaskState
  <2>2. task' \in [Tasks -> TaskState]
    <3> DEFINE p == task[g].plan
               t == [task[g] EXCEPT !.at = "generating",
                                    !.loaded = plan[p].meals,
                                    !.status = plan[p].status]
    <3>1. task' = [task EXCEPT ![g] = t]
      BY <1>13 DEF LoadPlan, TypeOK
    <3>2. /\ plan[p].meals \in SUBSET Tasks
          /\ plan[p].status \in Statuses \cup {Absent}
      BY <1>1, <2>1 DEF PlanRow
    <3>3. t \in TaskState
      BY <1>2, <2>1, <3>2, TaskTyped
    <3> QED
      BY <3>1, <3>3 DEF TypeOK
  <2> QED
    BY <1>13, <2>2 DEF LoadPlan, TypeOK
<1>14. ASSUME NEW g \in Tasks, StoreMeals(g) PROVE TypeOK'
  <2>1. PICK s \in Finished :
          plan' = [plan EXCEPT
                    ![task[g].plan].meals = (@ \ task[g].loaded) \cup {g},
                    ![task[g].plan].status =
                        IF s = task[g].status THEN @ ELSE s]
    BY <1>14 DEF StoreMeals
  <2>2. plan' \in [Plans -> PlanRow]
    <3> DEFINE p == task[g].plan
               m == (plan[p].meals \ task[g].loaded) \cup {g}
               st == IF s = task[g].status THEN plan[p].status ELSE s
    <3>1. p \in Plans
      BY <1>2 DEF TaskState
    <3>2. plan' = [plan EXCEPT ![p].meals = m, ![p].status = st]
      BY <2>1, <3>1 DEF TypeOK
    <3>3. m \in SUBSET Tasks /\ st \in Statuses \cup {Absent}
      BY <1>1, <3>1 DEF PlanRow, Statuses
    <3> HIDE DEF p, m, st
    <3> QED
      BY <1>1, <3>1, <3>2, <3>3 DEF TypeOK, PlanRow
  <2> QED
    BY <1>4, <1>14, <2>2 DEF StoreMeals, TypeOK
<1>15. ASSUME NEW g \in Tasks, GenerationFails(g) PROVE TypeOK'
  <2>1. [Ended(g) EXCEPT !.at = "failing"] \in TaskState
    BY <1>4 DEF TaskState
  <2> QED
    BY <1>15, <2>1 DEF GenerationFails, TypeOK
<1>16. ASSUME NEW g \in Tasks, MarkFailed(g) \/ MarkFailedFails(g) PROVE TypeOK'
  <2>1. plan' \in [Plans -> PlanRow]
    BY <1>1, <1>16 DEF MarkFailed, MarkFailedFails, TypeOK, PlanRow, Statuses
  <2> QED
    BY <1>4, <1>16, <2>1 DEF MarkFailed, MarkFailedFails, TypeOK
<1>17. ASSUME NEW p \in Plans, TimeOut(p) PROVE TypeOK'
  BY <1>1, <1>17 DEF TimeOut, TypeOK, PlanRow
<1>18. ASSUME Crash PROVE TypeOK'
  BY <1>2, <1>3, <1>4, <1>18, BoundsAssumption DEF Crash, TypeOK
<1> QED
  BY <1>7, <1>8, <1>9, <1>11, <1>12, <1>13, <1>14, <1>15, <1>16, <1>17, <1>18
     DEF Next, RequestStep, TaskStep

-----------------------------------------------------------------------------
(* Owners of processing plans.                                             *)

(* Plans that stay processing stay with their requests, if these do not    *)
(* set out to make another one processing without failing them.            *)
LEMMA OwnersStay ==
    ASSUME OwnersOK, Processing' \subseteq Processing,
           \A r \in Requests, p \in Processing' :
             Writing(r)' /\ (Writing(r) => p \in req[r].marks) =>
               p \in req'[r].marks
    PROVE  OwnersOK'
<1>1. PICK f \in [Processing -> Requests] :
        /\ \A p, q \in Processing : f[p] = f[q] => p = q
        /\ \A p \in Processing : Writing(f[p]) => p \in req[f[p]].marks
  BY DEF OwnersOK
<1> DEFINE h == [p \in Processing' |-> f[p]]
<1>2. h \in [Processing' -> Requests]
  BY <1>1
<1>3. \A p, q \in Processing' : h[p] = h[q] => p = q
  BY <1>1
<1>4. ASSUME NEW p \in Processing',
             req'[h[p]].then \in {"insert", "restart"}
      PROVE  p \in req'[h[p]].marks
  BY <1>1, <1>4 DEF Writing
<1> QED
  BY <1>2, <1>3, <1>4 DEF OwnersOK, Writing

(* A request that makes a plan processing has failed the one it owned.     *)
LEMMA OwnerWrites ==
    ASSUME TypeOK, OwnersOK, NEW r \in Requests, NEW p \in Plans,
           Writing(r), req[r].marks = {},
           Processing' = Processing \cup {p},
           req' = [req EXCEPT ![r] = IdleRequest]
    PROVE  OwnersOK'
<1>1. PICK f \in [Processing -> Requests] :
        /\ \A q, s \in Processing : f[q] = f[s] => q = s
        /\ \A q \in Processing : Writing(f[q]) => q \in req[f[q]].marks
  BY DEF OwnersOK
<1>2. \A q \in Processing : f[q] # r
  BY <1>1
<1> DEFINE h == [q \in Processing' |-> IF q = p THEN r ELSE f[q]]
<1>3. h \in [Processing' -> Requests]
  BY <1>1
<1>4. \A q, s \in Processing' : h[q] = h[s] => q = s
  BY <1>1, <1>2
<1>5. req'[r].then = "idle" /\ \A s \in Requests \ {r} : req'[s] = req[s]
  BY DEF TypeOK, IdleRequest
<1>6. ASSUME NEW q \in Processing', req'[h[q]].then \in {"insert", "restart"}
      PROVE  q \in req'[h[q]].marks
  <2>1. q # p /\ h[q] = f[q] /\ q \in Processing
    BY <1>5, <1>6
  <2>2. f[q] \in Requests \ {r}
    BY <1>1, <1>2, <2>1
  <2> QED
    BY <1>1, <1>5, <1>6, <2>1, <2>2 DEF Writing
<1> QED
  BY <1>3, <1>4, <1>6 DEF OwnersOK, Writing

(* Every step leaves every processing plan an owner.                       *)
LEMMA OwnersKept ==
    ASSUME TypeOK, OwnersOK, Next
    PROVE  OwnersOK'
<1>1. ASSUME NEW r \in Requests, NEW p, NEW m, NEW next,
             Reads(r, p, next, m), next = "reply" \/ m = Processing
      PROVE  OwnersOK'
  <2>1. /\ plan' = plan
        /\ req'[r] = [then |-> next, plan |-> p, marks |-> m]
        /\ \A s \in Requests \ {r} : req'[s] = req[s]
    BY <1>1 DEF Reads, TypeOK
  <2>2. Processing' = Processing
    BY <2>1 DEF Processing
  <2> QED
    BY <1>1, <2>1, <2>2, OwnersStay DEF Writing
<1>2. ASSUME NEW r \in Requests,
             StartGeneration(r) \/ \E p \in Plans : StartRegeneration(r, p)
                                                    \/ Poll(r, p)
      PROVE  OwnersOK'
  BY <1>1, <1>2 DEF StartGeneration, StartRegeneration, Poll, Admitted
<1>3. ASSUME NEW r \in Requests, MarkStale(r) PROVE OwnersOK'
  <2>1. Processing' = Processing \ req[r].marks
    BY <1>3 DEF MarkStale, Processing, TypeOK, PlanRow
  <2>2. /\ \A s \in Requests \ {r} : req'[s] = req[s]
        /\ req'[r].then \in {"idle", req[r].then}
    BY <1>3 DEF MarkStale, TypeOK, RequestState, IdleRequest
  <2> QED
    BY <2>1, <2>2, OwnersStay DEF Writing
<1>4. ASSUME NEW r \in Requests, InsertPlan(r) \/ RestartPlan(r) PROVE OwnersOK'
  <2>1. PICK p \in Plans :
          \/ plan' = [plan EXCEPT ![p].status = "processing"]
          \/ plan' = [plan EXCEPT ![p].status = "processing",
                                  ![p].stale = FALSE]
    BY <1>4 DEF InsertPlan, RestartPlan, TypeOK, RequestState
  <2>2. Processing' = Processing \cup {p}
    BY <2>1 DEF Processing, TypeOK, PlanRow
  <2> QED
    BY <1>4, <2>2, OwnerWrites DEF InsertPlan, RestartPlan, Writing
<1>5. ASSUME req' = req, Processing' \subseteq Processing
      PROVE  OwnersOK'
  BY <1>5, OwnersStay DEF Writing
<1>6. ASSUME NEW r \in Requests, MonthlyPlan(r) PROVE OwnersOK'
  <2>1. PICK p \in Plans, g \in Tasks, s \in Finished :
          plan' = [plan EXCEPT ![p].status = s, ![p].meals = {g}]
    BY <1>6 DEF MonthlyPlan
  <2>2. Processing' \subseteq Processing
    BY <2>1 DEF Processing, TypeOK, PlanRow, Finished
  <2> QED
    BY <1>5, <1>6, <2>2 DEF MonthlyPlan
<1>7. ASSUME NEW g \in Tasks, TaskStep(g) PROVE OwnersOK'
  <2>1. Processing' \subseteq Processing
    <3>1. CASE StoreMeals(g)
      BY <3>1 DEF StoreMeals, Processing, TypeOK, PlanRow, Finished
    <3>2. CASE MarkFailed(g)
      BY <3>2 DEF MarkFailed, Processing, TypeOK, PlanRow
    <3>3. CASE plan' = plan
      BY <3>3 DEF Processing
    <3> QED
      BY <1>7, <3>1, <3>2, <3>3
         DEF TaskStep, LoadPlan, GenerationFails, MarkFailedFails
  <2> QED
    BY <1>5, <1>7, <2>1
       DEF TaskStep, LoadPlan, StoreMeals, GenerationFails, MarkFailed,
           MarkFailedFails
<1>8. ASSUME NEW p \in Plans, TimeOut(p) PROVE OwnersOK'
  <2>1. Processing' \subseteq Processing
    BY <1>8 DEF TimeOut, Processing, TypeOK, PlanRow
  <2> QED
    BY <1>5, <1>8, <2>1 DEF TimeOut
<1>9. ASSUME Crash PROVE OwnersOK'
  <2>1. Processing' = Processing /\ \A r \in Requests : req'[r] = IdleRequest
    BY <1>9 DEF Crash, Processing
  <2> QED
    BY <2>1, OwnersStay DEF Writing, IdleRequest
<1> QED
  BY <1>2, <1>3, <1>4, <1>6, <1>7, <1>8, <1>9 DEF Next, RequestStep

-----------------------------------------------------------------------------
(* Meals.                                                                  *)

(* A plan gets the meals of a generation from its own task alone, which    *)
(* has not had any before, and it gets no others.                          *)
Replaces(p) ==
    \E g \in Tasks : /\ plan'[p].meals \ plan[p].meals = {g}
                     /\ task'[g].plan = p /\ task'[g].at = "ended"

(* Tasks that have ended are left alone.                                   *)
LEMMA EndedStays ==
    ASSUME TypeOK, Next, NEW g \in Tasks, task[g].at = "ended"
    PROVE  task'[g] = task[g]
<1>1. ASSUME NEW h \in Tasks, IsNextTask(h) PROVE h # g
  BY <1>1, NextTaskIsUnused
<1>2. ASSUME NEW r \in Requests, RequestStep(r) PROVE task'[g] = task[g]
  BY <1>1, <1>2
     DEF RequestStep, StartGeneration, StartRegeneration, Poll, Reads,
         MarkStale, InsertPlan, RestartPlan, MonthlyPlan, Queue, TypeOK
<1>3. ASSUME NEW h \in Tasks, TaskStep(h) PROVE task'[g] = task[g]
  BY <1>3 DEF TaskStep, LoadPlan, StoreMeals, GenerationFails, MarkFailed,
              MarkFailedFails, TypeOK
<1>4. ASSUME Crash PROVE task'[g] = task[g]
  BY <1>4 DEF Crash, Live
<1> QED
  BY <1>2, <1>3, <1>4 DEF Next, TimeOut

(* No step changes the meals of a plan in another way.                     *)
LEMMA MealsReplaced ==
    ASSUME TypeOK, MealsOK, Next, NEW p \in Plans
    PROVE  plan'[p].meals = plan[p].meals \/ Replaces(p)
<1>1. ASSUME NEW r \in Requests, MonthlyPlan(r)
      PROVE  plan'[p].meals = plan[p].meals \/ Replaces(p)
  <2>1. PICK q \in Plans, g \in Tasks, s \in Finished :
          /\ IsNextTask(g)
          /\ plan' = [plan EXCEPT ![q].status = s, ![q].meals = {g}]
          /\ task' = [task EXCEPT ![g].at = "ended", ![g].plan = q]
    BY <1>1 DEF MonthlyPlan
  <2>2. CASE p = q
    <3>1. g \notin plan[p].meals
      BY <2>1, NextTaskIsUnused DEF MealsOK
    <3>2. plan'[p].meals = {g}
      BY <2>1, <2>2 DEF TypeOK, PlanRow
    <3>3. task'[g].plan = p /\ task'[g].at = "ended"
      BY <2>1, <2>2 DEF TypeOK, TaskState
    <3> QED
      BY <3>1, <3>2, <3>3 DEF Replaces
  <2>3. CASE p # q
    BY <2>1, <2>3 DEF TypeOK
  <2> QED
    BY <2>2, <2>3
<1>2. ASSUME NEW g \in Tasks, StoreMeals(g)
      PROVE  plan'[p].meals = plan[p].meals \/ Replaces(p)
  <2>1. PICK s \in Finished :
          plan' = [plan EXCEPT
                    ![task[g].plan].meals = (@ \ task[g].loaded) \cup {g},
                    ![task[g].plan].status =
                        IF s = task[g].status THEN @ ELSE s]
    BY <1>2 DEF StoreMeals
  <2>2. task[g].plan \in Plans
    BY DEF TypeOK, TaskState
  <2>3. CASE p = task[g].plan
    <3>1. g \notin plan[p].meals
      BY <1>2 DEF StoreMeals, MealsOK
    <3>2. plan'[p].meals = (plan[p].meals \ task[g].loaded) \cup {g}
      BY <2>1, <2>2, <2>3 DEF TypeOK, PlanRow
    <3>3. task'[g].plan = p /\ task'[g].at = "ended"
      BY <1>2, <2>3 DEF StoreMeals, Ended, TypeOK, TaskState
    <3> QED
      BY <3>1, <3>2, <3>3 DEF Replaces
  <2>4. CASE p # task[g].plan
    BY <2>1, <2>2, <2>4 DEF TypeOK
  <2> QED
    BY <2>3, <2>4
<1>3. ASSUME NEW r \in Requests, InsertPlan(r) \/ RestartPlan(r) \/ MarkStale(r)
      PROVE  plan'[p].meals = plan[p].meals
  <2>1. req[r].plan \in Plans
    BY DEF TypeOK, RequestState
  <2> QED
    BY <1>3, <2>1 DEF InsertPlan, RestartPlan, MarkStale, TypeOK, PlanRow
<1>4. ASSUME NEW g \in Tasks, MarkFailed(g)
      PROVE  plan'[p].meals = plan[p].meals
  BY <1>4 DEF MarkFailed, TypeOK, PlanRow, TaskState
<1>5. ASSUME NEW q \in Plans, TimeOut(q) PROVE plan'[p].meals = plan[p].meals
  BY <1>5 DEF TimeOut, TypeOK, PlanRow
<1> QED
  BY <1>1, <1>2, <1>3, <1>4, <1>5
     DEF Next, RequestStep, TaskStep, StartGeneration, StartRegeneration,
         Poll, Reads, LoadPlan, GenerationFails, MarkFailedFails, Crash

(* The meals of a plan stay those of ended tasks of the plan.              *)
LEMMA MealsKept ==
    ASSUME TypeOK, MealsOK, Next
    PROVE  MealsOK'
<1> SUFFICES ASSUME NEW p \in Plans, NEW g \in plan'[p].meals
             PROVE  task'[g].at = "ended" /\ task'[g].plan = p
  BY DEF MealsOK
<1>1. CASE g \in plan[p].meals
  <2>1. g \in Tasks
    BY <1>1 DEF TypeOK, PlanRow
  <2> QED
    BY <1>1, <2>1, EndedStays DEF MealsOK
<1>2. CASE g \notin plan[p].meals
  BY <1>2, MealsReplaced DEF Replaces
<1> QED
  BY <1>1, <1>2

-----------------------------------------------------------------------------
(* Every step keeps the inductive invariant.                               *)
LEMMA StepKeeps == IInv /\ [Next]_vars => IInv'
<1> SUFFICES ASSUME IInv, [Next]_vars PROVE IInv'
  OBVIOUS
<1>1. CASE Next
  BY <1>1, TypesKept, OwnersKept, MealsKept DEF IInv
<1>2. CASE UNCHANGED vars
  BY <1>2 DEF vars, IInv, TypeOK, OwnersOK, MealsOK, Processing, Writing
<1> QED
  BY <1>1, <1>2

(* The inductive invariant holds in every reachable state.                 *)
THEOREM Inductive == Spec => []IInv
  BY Start, StepKeeps, PTL DEF Spec

(* Every variable keeps its type, a plan's status that of the CHECK        *)
(* constraint of meal_plans.                                               *)
THEOREM Types == Spec => []TypeOK
<1>1. IInv => TypeOK
  BY DEF IInv
<1> QED
  BY <1>1, Inductive, PTL

(* However requests overlap, no more plans are processing, or about to be, *)
(* than requests run at once (_ensure_not_generating).                     *)
THEOREM Bounded == Spec => []ProcessingBounded
<1>1. IInv => ProcessingBounded
  <2> SUFFICES ASSUME IInv PROVE ProcessingBounded
    OBVIOUS
  <2> DEFINE Left == Processing \ UNION {req[r].marks : r \in InFlight}
             Free == Requests \ InFlight
  <2>1. PICK f \in [Processing -> Requests] :
          /\ \A p, q \in Processing : f[p] = f[q] => p = q
          /\ \A p \in Processing : Writing(f[p]) => p \in req[f[p]].marks
    BY DEF IInv, OwnersOK
  <2> DEFINE h == [p \in Left |-> f[p]]
  <2>2. \A p \in Left : h[p] \in Free
    BY <2>1 DEF InFlight, Writing
  <2>3. h \in Injection(Left, Free)
    BY <2>1, <2>2 DEF Injection, IsInjective
  <2>4. InFlight \in SUBSET Requests /\ Free \in SUBSET Requests
    BY DEF InFlight
  <2>5. IsFiniteSet(InFlight) /\ IsFiniteSet(Free)
    BY <2>4, FS_Subset, RequestsAssumption
  <2>6. IsFiniteSet(Left) /\ Cardinality(Left) <= Cardinality(Free)
    BY <2>3, <2>5, FS_Injection
  <2>7. Cardinality(Free) = Cardinality(Requests) - Cardinality(InFlight)
    <3>1. Requests \cap InFlight = InFlight
      BY <2>4
    <3>2. Cardinality(Requests \ InFlight)
             = Cardinality(Requests) - Cardinality(Requests \cap InFlight)
      BY RequestsAssumption, FS_Difference
    <3> QED
      BY <3>1, <3>2
  <2>8. /\ Cardinality(Left) \in Nat /\ Cardinality(InFlight) \in Nat
        /\ Cardinality(Requests) \in Nat
    BY <2>5, <2>6, RequestsAssumption, FS_CardinalityType
  <2>9. Cardinality(Left) + Cardinality(InFlight) <= Cardinality(Requests)
    <3> HIDE DEF Left, Free
    <3> QED
      BY <2>6, <2>7, <2>8
  <2> QED
    BY <2>9 DEF ProcessingBounded
<1> QED
  BY <1>1, Inductive, PTL

(* Whatever fails, is lost or comes late, a plan's meals go only when a    *)
(* generation of that very plan brings its own                             *)
(* (run_meal_plan_generation).                                             *)
THEOREM OnlyReplaced == Spec => MealsOnlyReplaced
<1> DEFINE A == \A p \in Plans :
                  plan'[p].meals # plan[p].meals =>
                    \E g \in Tasks :
                      /\ plan'[p].meals \ plan[p].meals = {g}
                      /\ task'[g].plan = p
<1>1. IInv /\ [Next]_vars => [A]_vars
  BY MealsReplaced DEF IInv, Replaces
<1> HIDE DEF A
<1>2. Spec => [][A]_vars
  BY <1>1, Inductive, PTL DEF Spec
<1> QED
  BY <1>2 DEF A, MealsOnlyReplaced

-----------------------------------------------------------------------------
(* The other parts, as they are proved about, ...                          *)
SP == INSTANCE CycleStagesProofs WITH
        Requests <- {}, MaxCrashes <- StageCrashes, setting <- settings,
        plan <- cyclePlan, request <- stageRequest, crashes <- stageCrashes
RP == INSTANCE RemindersProofs WITH
        Requests <- SettingRequests, req <- put

(* ... which are those of BackgroundMC.                                    *)

(* The stages.                                                             *)
LEMMA SameStages ==
    /\ S!Init <=> SP!Init
    /\ [S!Next]_(S!vars) <=> [SP!Next]_(SP!vars)
    /\ S!TypeOK <=> SP!TypeOK
  BY DEF S!Cycles, SP!Cycles, S!vars, SP!vars, S!jobVars, SP!jobVars,
         S!GenerationAt, SP!GenerationAt, S!DraftAt, SP!DraftAt,
         S!NextGenerationAt, SP!NextGenerationAt, S!DeferredUntil,
         SP!DeferredUntil, S!Window, SP!Window, S!InitialNextRun,
         SP!InitialNextRun, S!Stages, SP!Stages, S!Days, SP!Days,
         S!AttemptsTop, SP!AttemptsTop, S!Setting, SP!Setting, S!Plan,
         SP!Plan, S!OrderStates, SP!OrderStates, S!Columns, SP!Columns,
         S!Request, SP!Request, S!NoRequest, SP!NoRequest, S!NoDraft,
         SP!NoDraft, S!Init, SP!Init, S!SettingsFree, SP!SettingsFree,
         S!Due, SP!Due, S!DraftDue, SP!DraftDue, S!GenerationDue,
         SP!GenerationDue, S!ExpireOlder, SP!ExpireOlder, S!Fresh, SP!Fresh,
         S!Retryable, SP!Retryable, S!GenerateSkipped, SP!GenerateSkipped,
         S!StartJob, SP!StartJob, S!GenerateRetry, SP!GenerateRetry,
         S!GenerateAgain, SP!GenerateAgain, S!GenerateDeferred,
         SP!GenerateDeferred, S!GenerateDormant, SP!GenerateDormant,
         S!NoGeneration, SP!NoGeneration, S!Generated, SP!Generated,
         S!NewPlan, SP!NewPlan, S!Stale, SP!Stale, S!GenerateCleared,
         SP!GenerateCleared, S!GeneratePlan, SP!GeneratePlan,
         S!GenerateGivenUp, SP!GenerateGivenUp,
         S!Generate, SP!Generate, S!RunJob, SP!RunJob, S!LaterOf,
         SP!LaterOf, S!FinishJob, SP!FinishJob, S!Age, SP!Age, S!ReadPlan,
         SP!ReadPlan, S!DraftBegin, SP!DraftBegin, S!DraftCommit,
         SP!DraftCommit, S!DraftFail, SP!DraftFail, S!DraftRetry,
         SP!DraftRetry, S!SkipRead, SP!SkipRead, S!SkipCommit,
         SP!SkipCommit, S!RescheduleRead, SP!RescheduleRead,
         S!RescheduleCommit, SP!RescheduleCommit, S!SetEnabled,
         SP!SetEnabled, S!ConfirmOrder, SP!ConfirmOrder, S!CancelOrder,
         SP!CancelOrder, S!NextDay, SP!NextDay, S!Crash, SP!Crash,
         S!GenerationStage, SP!GenerationStage, S!DraftStage, SP!DraftStage,
         S!RequestStep, SP!RequestStep, S!Next, SP!Next, S!TypeOK, SP!TypeOK

(* The reminders.                                                          *)
LEMMA SameReminders ==
    /\ R!Init <=> RP!Init
    /\ [R!Next]_(R!vars) <=> [RP!Next]_(RP!vars)
    /\ R!TypeOK <=> RP!TypeOK
  BY DEF R!history, RP!history, R!vars, RP!vars, R!Slots, RP!Slots, R!Never,
         RP!Never, R!SlotsOfDay, RP!SlotsOfDay, R!ComputeNext,
         RP!ComputeNext, R!SettingRow, RP!SettingRow, R!NoSetting,
         RP!NoSetting, R!Scheduled, RP!Scheduled, R!ScanState, RP!ScanState,
         R!IdleScan, RP!IdleScan, R!Columns, RP!Columns, R!Updated,
         RP!Updated, R!NoRequest, RP!NoRequest, R!Due, RP!Due, R!Mine,
         RP!Mine, R!Init, RP!Init, R!Tick, RP!Tick, R!CreateSetting,
         RP!CreateSetting, R!LoadSetting, RP!LoadSetting, R!CommitSetting,
         RP!CommitSetting, R!Overtake, RP!Overtake, R!RegisterDevice,
         RP!RegisterDevice, R!DropDevice, RP!DropDevice, R!StartScan,
         RP!StartScan, R!Skip, RP!Skip, R!Push, RP!Push, R!RecordPush,
         RP!RecordPush, R!RecordFails, RP!RecordFails, R!FlushPending,
         RP!FlushPending, R!CommitScan, RP!CommitScan, R!ScanFails,
         RP!ScanFails, R!Crash, RP!Crash, R!Next, RP!Next, R!TypeOK,
         RP!TypeOK, R!Cardinality, RP!Cardinality

(* The stages move or stand still, ...                                     *)
LEMMA Schedules == [BackgroundNext]_all => [S!Next]_(S!vars)
  BY DEF BackgroundNext, StagesNext, MealPlansNext, RemindersNext, all,
         S!vars, stageVars

(* ... so do the reminders ...                                             *)
LEMMA Reminds == [BackgroundNext]_all => [R!Next]_(R!vars)
  BY DEF BackgroundNext, StagesNext, MealPlansNext, RemindersNext, all,
         R!vars, R!history, reminderVars

(* ... and the meal plans.                                                 *)
LEMMA Generates == [BackgroundNext]_all => [Next]_vars
  BY DEF BackgroundNext, StagesNext, MealPlansNext, RemindersNext, all

(* So a behaviour of BackgroundMC is one of each part.                     *)
LEMMA Implied == BackgroundSpec => Spec /\ SP!Spec /\ RP!Spec
<1>1. BackgroundInit => Init /\ SP!Init /\ RP!Init
  BY SameStages, SameReminders DEF BackgroundInit
<1>2. [BackgroundNext]_all => [SP!Next]_(SP!vars)
  BY Schedules, SameStages
<1>3. [BackgroundNext]_all => [RP!Next]_(RP!vars)
  BY Reminds, SameReminders
<1> QED
  BY <1>1, <1>2, <1>3, Generates, PTL
     DEF BackgroundSpec, Spec, SP!Spec, RP!Spec

(* The bounds are what the proofs ask of them.                             *)
LEMMA Values == SP!PolicyAssumption /\ RP!Bounded
  BY StagesAssumption, RemindersAssumption
     DEF SP!PolicyAssumption, RP!Bounded, RP!IsFiniteSet, IsFiniteSet

(* Every part of the background work keeps the types of its variables,     *)
(* whatever dies, retries or overlaps.                                     *)
THEOREM BackgroundTypes == BackgroundSpec => []TypesOK
<1>1. SP!Spec => []SP!TypeOK
  BY Values, SP!Types
<1>2. RP!Spec => []RP!TypeOK
  BY Values, RP!Types
<1>3. TypeOK /\ SP!TypeOK /\ RP!TypeOK => TypesOK
  BY SameStages, SameReminders DEF TypesOK
<1> QED
  BY <1>1, <1>2, <1>3, Implied, Types, PTL

(* What is proved of meal plans holds next to the other parts: no more     *)
(* plans are processing than requests run at once, and meals are only ever *)
(* replaced (start_generation, _run_generation).                           *)
THEOREM BackgroundMeals ==
    BackgroundSpec => []ProcessingBounded /\ MealsOnlyReplaced
  BY Implied, Bounded, OnlyReplaced, PTL
=============================================================================
