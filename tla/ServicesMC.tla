------------------------------ MODULE ServicesMC ----------------------------
(***************************************************************************)
(* What requests and stages compute and commit, for TLC: the calendar of   *)
(* the cycle (CycleCalendar), the drafting of meals (MealDrafting), the    *)
(* contents and the gate of orders (OrderGate), the fridge (FridgeStock),  *)
(* sign-in (AuthSessions), onboarding (Onboarding) and the reminders       *)
(* (Reminders).  They touch different tables, and a behaviour is one of    *)
(* them.                                                                   *)
(***************************************************************************)
EXTENDS AuthSessions, CyclePolicy, Ingredients, Sequences

CONSTANTS Tappers, Devices, SettingRequests

ASSUME SettingRequestsFinite == IsFiniteSet(SettingRequests)

VARIABLES part,
          enabled, phase, attempt, clock, drafts, conflicts, verdict, stored,
          window, budget, order, gate,
          lot, meal, tap, supplied, crashes,
          now, schedule, nextRun, stage, generated, ordered, moved, moves,
          user, plan, household, saves, settings, save,
          time, setting, device, scan, put, failures, late, overtaken,
          pushed, again

draftVars ==
    <<enabled, phase, attempt, clock, drafts, conflicts, verdict, stored>>
gateVars == <<window, budget, order, gate>>
fridgeVars == <<lot, meal, tap, supplied, crashes>>
calendarVars ==
    <<now, schedule, nextRun, stage, generated, ordered, moved, moves>>
userVars == <<user, plan, household, saves, settings, save>>
reminderVars == <<time, setting, device, scan, put, failures, late,
                  overtaken, pushed, again>>
others == <<draftVars, gateVars, fridgeVars, calendarVars, userVars>>
all == <<part, vars, others, reminderVars>>

-----------------------------------------------------------------------------
(* The values of the constants.                                            *)

MCProfiles == [weekly |-> [generate |-> 5, draft |-> 2],
               biweekly |-> [generate |-> 2, draft |-> 1]]
MCZones == {9, -5}

(* Dishes of all sorts with little in their lists, and two recipes.        *)
Nothing == [k \in Keys \cup Others |-> -1]
Dish(named, explicit, marks, rows) ==
    [named |-> named, explicit |-> explicit, marks |-> marks,
     rows |-> [k \in DOMAIN Nothing |->
                 IF k \in DOMAIN rows THEN rows[k] ELSE Nothing[k]]]
Stew == Dish({"doenjang"}, {}, {"soup", "rice"},
             [doenjang |-> 30, tofu |-> 150, raw_rice |-> 400])
FriedRice == Dish({}, {}, {"pan", "rice"}, [egg |-> 4, raw_rice |-> 400])
Texts == {<<{}, {}>>, <<{"tofu"}, {"water", "butter", "egg"}>>}
Manners ==
    {{"curry", "rice"}, {"soup", "namul"}, {"steam_egg", "garnish"},
     {"braise", "pan", "no_oil"}, {"porridge"}, {"boiled_egg", "sprout_rice"},
     {"blanch", "rice"}, {}}
Lists ==
    {[spinach |-> 70], [water |-> 200, broth |-> 100, oil |-> 0],
     [curry_sauce |-> 200, pasta |-> 100],
     [raw_rice |-> 0, curry |-> 60, salt |-> 1]}
ManyDishes ==
    {Dish(text[1], text[2], marks, rows) :
        text \in Texts, marks \in Manners, rows \in Lists}
MCBank == <<Stew, FriedRice>>
MCBook == [d \in {Stew, FriedRice} \cup ManyDishes |-> d]

(* Answers with one meal, and answers with too many of them, a slot named  *)
(* twice and days outside the plan.                                        *)
Meal(day, type, dish) ==
    [day |-> day, type |-> type, dish |-> dish, rows |-> dish.rows]
MCAnswers ==
    {<<Meal(1, "breakfast", d)>> : d \in ManyDishes}
    \cup {<<Meal(day, "breakfast", MCBank[1]), Meal(day, "breakfast", MCBank[2]),
            Meal(2, "breakfast", MCBank[2]), Meal(2, "lunch", MCBank[2])>> :
             day \in {0, 1, 3}}
MCUnitCost == [k \in DOMAIN Nothing |-> IF k = "water" THEN 0 ELSE 1]

(* Eggs by the piece and by weight have one name.                          *)
MCNameOf == [eggs_ea |-> "eggs", eggs_g |-> "eggs"]
MCPayloads == {[amount |-> 100, currency |-> "USD"],
               [amount |-> 100000, currency |-> "KRW"]}

-----------------------------------------------------------------------------
D == INSTANCE MealDrafting WITH
        Book <- MCBook, Answers <- MCAnswers, Bank <- MCBank,
        Days <- 2, PerDay <- 1, People <- 2, Allergies <- {"soy", "egg"},
        UnitCost <- MCUnitCost, Limit <- 500, Durations <- {1, 4, 12},
        CallLimit <- 12, RetryBefore <- 5, MaxRetries <- 3
G == INSTANCE OrderGate WITH
        Items <- DOMAIN MCNameOf, NameOf <- MCNameOf, Prices <- {1, 3},
        MaxCycle <- 3, FirstStart <- 0, Spacing <- 2, MonthDays <- 5,
        BudgetAmounts <- {2, 3}, Threshold <- 30
F == INSTANCE FridgeStock WITH
        Requests <- Tappers, MaxMeal <- 2, Need <- 2, MaxLot <- 3,
        MaxSupply <- 3, MaxCrashes <- 1, req <- tap
K == INSTANCE CycleCalendar WITH
        Step <- 8, MaxLate <- 12, FirstDay <- 7, LastDay <- 24, MaxMoves <- 1
O == INSTANCE Onboarding WITH
        Payloads <- MCPayloads, MaxSaves <- 2, req <- save
R == INSTANCE Reminders WITH
        Requests <- SettingRequests, DayLength <- 2, MaxTime <- 2,
        MaxFailures <- 1, MaxLate <- 1, MaxOvertaken <- 1, req <- put

(* A part that does not run keeps one of its initial states.               *)
ServicesInit ==
    /\ part \in {"calendar", "drafting", "gate", "fridge", "auth", "onboarding",
                "reminders"}
    /\ Init /\ K!Init /\ D!Init /\ G!Init /\ F!Init /\ O!Init /\ R!Init
    /\ part # "calendar" => schedule = CHOOSE s \in K!Schedule : TRUE
    /\ part # "drafting" => enabled
    /\ part # "onboarding" => user.country = "KR"

CalendarNext ==
    /\ part = "calendar" /\ K!Next
    /\ UNCHANGED <<part, vars, draftVars, gateVars, fridgeVars, userVars,
                   reminderVars>>
DraftingNext ==
    /\ part = "drafting" /\ D!Next
    /\ UNCHANGED <<part, vars, gateVars, fridgeVars, calendarVars, userVars,
                   reminderVars>>
GateNext ==
    /\ part = "gate" /\ G!Next
    /\ UNCHANGED <<part, vars, draftVars, fridgeVars, calendarVars, userVars,
                   reminderVars>>
FridgeNext ==
    /\ part = "fridge" /\ F!Next
    /\ UNCHANGED <<part, vars, draftVars, gateVars, calendarVars, userVars,
                   reminderVars>>
AuthNext ==
    /\ part = "auth" /\ Next
    /\ UNCHANGED <<part, others, reminderVars>>
OnboardingNext ==
    /\ part = "onboarding" /\ O!Next
    /\ UNCHANGED <<part, vars, draftVars, gateVars, fridgeVars, calendarVars,
                   reminderVars>>
RemindersNext ==
    /\ part = "reminders" /\ R!Next
    /\ UNCHANGED <<part, vars, others>>

ServicesNext ==
    \/ CalendarNext
    \/ DraftingNext
    \/ GateNext
    \/ FridgeNext
    \/ AuthNext
    \/ OnboardingNext
    \/ RemindersNext

ServicesSpec == ServicesInit /\ [][ServicesNext]_all

-----------------------------------------------------------------------------
(* Each part's variables keep their types (the TypeOK of its module).  The *)
(* properties of sign-in are those of AuthSessions itself.                 *)
TypesOK ==
    /\ part = "calendar" => K!TypeOK
    /\ part = "drafting" => D!TypeOK
    /\ part = "gate" => G!TypeOK
    /\ part = "fridge" => F!TypeOK
    /\ part = "auth" => TypeOK
    /\ part = "onboarding" => O!TypeOK
    /\ part = "reminders" => R!TypeOK
(* What a drafted plan is said to be is what it is.                        *)
VerdictDescribesResult == part = "drafting" => D!VerdictDescribesResult
(* A plan is drafted within the time budget and one call.                  *)
AnswersInTime == part = "drafting" => D!AnswersInTime
(* Repairing a repaired meal changes nothing.                              *)
RepairIsStable == part = "drafting" => D!RepairIsStable
(* No repair adds what the user may not eat.                               *)
RepairMindsAllergies == part = "drafting" => D!RepairMindsAllergies
(* Completing and undoing meals makes no food.                             *)
NoInflation == part = "fridge" => F!NoInflation
(* An onboarded user has a budget and cycle settings.                      *)
OnboardedIsComplete == part = "onboarding" => O!OnboardedIsComplete
(* The household saved last is there.                                      *)
LastHouseholdKept == part = "onboarding" => O!LastHouseholdKept
(* The run that is booked is a stage of the cycle it falls into.           *)
StageOfItsCycle == part = "calendar" => K!StageOfItsCycle
(* The scheduler alone never spends more in a month than the locked budget *)
(* it judges by.                                                           *)
AutoSpendWithinMonth == G!AutoSpendWithinMonth
(* Plans follow one another without a gap.                                 *)
PlansTile == K!PlansTile
(* Changed settings never return to their defaults.                        *)
SettingsKept == O!SettingsKept
(* A reminder is repeated only after a scan that died or a late request.   *)
RepeatsExplained == part = "reminders" => R!RepeatsExplained
(* A reminder that is switched on has a time of its own to be sent at,     *)
(* unless two requests have overlapped.                                    *)
EnabledIsScheduled == part = "reminders" => R!EnabledIsScheduled
=============================================================================
