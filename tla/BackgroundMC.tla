----------------------------- MODULE BackgroundMC ---------------------------
(***************************************************************************)
(* The work nobody waits for, for TLC: the stages of the scheduler         *)
(* (CycleStages), the generation of meal plans (MealPlanGeneration) and    *)
(* the reminder loop (Reminders).  A behaviour is one of the three; they   *)
(* are one run since they ask one question, whether what is due gets done  *)
(* and what has failed gets noticed.                                       *)
(***************************************************************************)
EXTENDS MealPlanGeneration

CONSTANTS MaxCycle, CycleDays, GenerateLead, DraftLead, RetryLimit,
          StageCrashes,
          Devices, SettingRequests, DayLength, MaxTime, MaxFailures, MaxLate,
          MaxOvertaken

ASSUME StagesAssumption ==
    /\ MaxCycle \in Nat \ {0} /\ CycleDays \in Nat /\ GenerateLead \in Nat
    /\ DraftLead \in Nat \ {0} /\ RetryLimit \in Nat \ {0}
    /\ StageCrashes \in Nat
    /\ DraftLead <= GenerateLead /\ GenerateLead < CycleDays
ASSUME RemindersAssumption ==
    /\ DayLength \in Nat \ {0} /\ MaxTime \in Nat
    /\ IsFiniteSet(SettingRequests)
    /\ MaxFailures \in Nat /\ MaxLate \in Nat /\ MaxOvertaken \in Nat

VARIABLES part,
          today, settings, cyclePlan, order, running, finishing, generation,
          draft, stageRequest, starts, stageCrashes,
          time, setting, device, scan, put, failures, late, overtaken,
          pushed, again

stageVars == <<today, settings, cyclePlan, order, running, finishing,
               generation, draft, stageRequest, starts, stageCrashes>>
reminderVars == <<time, setting, device, scan, put, failures, late,
                  overtaken, pushed, again>>
all == <<part, vars, stageVars, reminderVars>>

S == INSTANCE CycleStages WITH
        Requests <- {}, MaxCrashes <- StageCrashes, setting <- settings,
        plan <- cyclePlan, request <- stageRequest, crashes <- stageCrashes
R == INSTANCE Reminders WITH
        Requests <- SettingRequests, req <- put

BackgroundInit ==
    /\ part \in {"stages", "mealplans", "reminders"}
    /\ Init /\ S!Init /\ R!Init

StagesNext ==
    part = "stages" /\ S!Next /\ UNCHANGED <<part, vars, reminderVars>>
MealPlansNext ==
    part = "mealplans" /\ Next /\ UNCHANGED <<part, stageVars, reminderVars>>
RemindersNext ==
    part = "reminders" /\ R!Next /\ UNCHANGED <<part, vars, stageVars>>

BackgroundNext == StagesNext \/ MealPlansNext \/ RemindersNext

(* The fairness of each part, while it is the one that runs.               *)
Stage(A) == part = "stages" /\ A /\ UNCHANGED <<part, vars, reminderVars>>
Meal(A) == part = "mealplans" /\ A /\ UNCHANGED <<part, stageVars, reminderVars>>
Remind(A) == part = "reminders" /\ A /\ UNCHANGED <<part, vars, stageVars>>

BackgroundFairness ==
    /\ WF_all(Stage(S!GenerationStage)) /\ WF_all(Stage(S!DraftStage))
    /\ \A c \in S!Cycles :
          WF_all(Stage(S!RunJob(c))) /\ WF_all(Stage(S!FinishJob(c)))
    /\ \A p \in Plans : WF_all(Meal(TimeOut(p)))
    /\ \A r \in Requests :
          /\ WF_all(Meal(MarkStale(r)))
          /\ WF_all(Meal(InsertPlan(r) \/ RestartPlan(r)))
    /\ WF_all(Remind(R!Tick)) /\ WF_all(Remind(R!StartScan))
    /\ WF_all(Remind(R!Skip \/ R!Push))
    /\ WF_all(Remind(\E dead \in SUBSET Devices : R!RecordPush(dead)))
    /\ WF_all(Remind(R!RecordFails)) /\ WF_all(Remind(R!CommitScan))

BackgroundSpec == BackgroundInit /\ [][BackgroundNext]_all /\ BackgroundFairness

-----------------------------------------------------------------------------
(* Each part's variables keep their types (the TypeOK of its module).  The *)
(* other properties of meal plans are MealPlanGeneration's own: while      *)
(* another part runs there are no plans.                                   *)
TypesOK ==
    /\ part = "stages" => S!TypeOK
    /\ part = "mealplans" => TypeOK
    /\ part = "reminders" => R!TypeOK
(* A reminder that is due is sent or skipped in the end.                   *)
ReminderIsHandled == part = "reminders" => R!DueIsHandled
(* A stage that is due runs in the end.                                    *)
StagesAreHandled == part = "stages" => S!DueIsHandled
(* A plan that is ready gets its order drafted in the end.                 *)
ReadyIsDrafted == part = "stages" => S!ReadyPlanIsDrafted
=============================================================================
