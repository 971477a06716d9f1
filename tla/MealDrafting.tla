---------------------------- MODULE MealDrafting ----------------------------
(***************************************************************************)
(* What goes into a meal plan: the attempts of _generate_within_budget     *)
(* (mealplan/service.py), the answer of the language model or the fixed    *)
(* recipes behind it (generator.py), the repair of the ingredient lists    *)
(* (ingredient_requirements.py) and the meals that are stored.             *)
(*                                                                         *)
(* A dish is what the repair reads from its name and its steps, with the   *)
(* amounts it lists; the dictionary holds an ingredient of every kind the  *)
(* repair tells apart.  The time that passes is that of the model's calls. *)
(***************************************************************************)
EXTENDS Integers, FiniteSets, Sequences, SequencesExt, FiniteSetsExt,
        Ingredients

CONSTANTS
    Book,          \* dishes: [dish -> what it is named, says and lists]
    Answers,       \* what the language model may return
    Bank,          \* the fixed recipes, a sequence of dishes
    Days, PerDay,  \* the plan asked for
    People,        \* household_size
    Allergies,     \* the user's
    UnitCost,      \* the price of each ingredient
    Limit,         \* the share of the budget
    Durations,     \* of a call: at most CallLimit
    CallLimit,     \* LLM_TIMEOUT_SECONDS
    RetryBefore,   \* GENERATION_TIME_BUDGET_SECONDS
    MaxRetries     \* MAX_BUDGET_RETRIES

VARIABLES
    enabled,       \* there is a key for the language model
    phase,         \* "generate", "judge", "accepted", "stored"
    attempt,
    clock,         \* time since the start
    drafts,        \* the repaired meals of this attempt
    conflicts,     \* ingredient_allergy_conflicts
    verdict,       \* status, total and whether the allergy note was added
    stored         \* the meals of the plan

vars == <<enabled, phase, attempt, clock, drafts, conflicts, verdict, stored>>

NotListed == -1
Marks == {"rice", "curry", "soup", "porridge", "braise", "steam_egg", "namul",
          "blanch", "boiled_egg", "sprout_rice", "pan", "garnish", "no_oil"}
MealTypes == <<"breakfast", "lunch", "dinner", "snack", "supper">>

Draft(day, type, dish) ==
    [day |-> day, type |-> type, dish |-> dish, rows |-> Book[dish].rows]
Undecided == [status |-> "failed", total |-> 0, warned |-> FALSE]
Phases == {"generate", "judge", "accepted", "stored"}
Statuses == {"failed", "ready", "over_budget"}

Init ==
    /\ enabled \in BOOLEAN
    /\ phase = "generate" /\ attempt = 0 /\ clock = 0
    /\ drafts = <<>> /\ conflicts = {} /\ verdict = Undecided /\ stored = <<>>

-----------------------------------------------------------------------------
(* The repair of a meal.                                                   *)

Amount(rows, k) == Max({0, rows[k]})
Present(rows, k) == rows[k] > 0
Listed(rows, k) == rows[k] # NotListed

(* What add() would not add for the user's allergies.                      *)
Refused(k) ==
    /\ Allergies # {}
    /\ k \in Composites \/ \E a \in Allergies : k \in MadeOf[a] \cup NameHas[a]

Missing(rows, keys) ==
    {k \in keys : ~Present(rows, k) /\ ~(k = "rice" /\ Present(rows, "raw_rice"))}

(* Mutant: what is missing is added whatever the allergies.                *)
FillAll(rows, keys) ==
    [k \in DOMAIN rows |->
        IF k \in Missing(rows, keys) THEN PerPerson[k] * People ELSE rows[k]]

(* add() for ingredients that are wanted in the amount for the household.  *)
Fill(rows, keys) ==
    [k \in DOMAIN rows |->
        IF k \in Missing(rows, keys) /\ ~Refused(k) THEN PerPerson[k] * People
        ELSE rows[k]]

CurryBase(dish, rows) ==
    "curry" \in dish.marks /\ ~Listed(rows, "curry_sauce")

(* Rows without an amount, the steps, the name of the dish, its staple.    *)
Basics(dish, rows) ==
    {k \in Keys : rows[k] = 0}
    \cup (dish.explicit \ (Fats \cup {"water"}))
    \cup dish.named
    \cup {k \in {"rice"} : "rice" \in dish.marks /\ ~Listed(rows, "raw_rice")}
    \cup {k \in {"curry"} : CurryBase(dish, rows)}

CookingWater(dish, rows) ==
    Max({0, (IF CurryBase(dish, rows)
                THEN Max({25 * People, Amount(rows, "curry")}) * 7
             ELSE IF "porridge" \in dish.marks THEN 400 * People
             ELSE IF "soup" \in dish.marks THEN 300 * People
             ELSE IF {"braise", "steam_egg"} \cap dish.marks # {}
                THEN 100 * People
             ELSE 0) - Amount(rows, "broth")})

BoilingWater(dish, rows) ==
    (IF \/ "blanch" \in dish.marks
        \/ "namul" \in dish.marks /\ Present(rows, "spinach")
     THEN Max({1000, 500 * People}) ELSE 0)
    + (IF "sprout_rice" \in dish.marks /\ ~Present(rows, "raw_rice")
       THEN 100 * People ELSE 0)
    + (IF "boiled_egg" \in dish.marks THEN Max({1000, 500 * People}) ELSE 0)
    + (IF Listed(rows, "pasta") THEN 1000 * People ELSE 0)

RiceWater(dish, rows) ==
    IF "porridge" \in dish.marks THEN 0
    ELSE (Amount(rows, "raw_rice") * 3) \div 2

RequiredWater(dish, rows) ==
    LET w == CookingWater(dish, rows) + BoilingWater(dish, rows)
               + RiceWater(dish, rows)
    IN IF w = 0 /\ "water" \in dish.explicit
       THEN Max({0, 300 * People - Amount(rows, "broth")}) ELSE w

(* Mutant: all the water is added again.                                   *)
WithWaterAgain(dish, rows) ==
    [rows EXCEPT !["water"] = @ + RequiredWater(dish, rows)]

WithWater(dish, rows) ==
    LET lacking == RequiredWater(dish, rows) - Amount(rows, "water")
    IN IF lacking <= 0 THEN rows
       ELSE [rows EXCEPT !["water"] = Amount(rows, "water") + lacking]

PanFat(dish, rows) ==
    {k \in {"oil"} :
        /\ \/ "pan" \in dish.marks \/ CurryBase(dish, rows)
           \/ "garnish" \in dish.marks /\ Present(rows, "egg")
        /\ "no_oil" \notin dish.marks
        /\ \A f \in {"oil", "butter"} : ~Present(rows, f)}

Seasoning(dish, rows) ==
    {k \in {"salt"} :
        /\ {"soup", "steam_egg"} \cap dish.marks # {}
        /\ \A s \in Salty : ~Present(rows, s)}

(* repair_meal_ingredients: each stage sees what the ones before it added. *)
Stages(dish, r0) ==
    LET r1 == Fill(r0, Basics(dish, r0))
        r2 == WithWater(dish, r1)
        r3 == Fill(r2, dish.explicit \cap Fats)
        r4 == Fill(r3, PanFat(dish, r3))
    IN <<<<r0, Basics(dish, r0)>>, <<r2, dish.explicit \cap Fats>>,
         <<r3, PanFat(dish, r3)>>, <<r4, Seasoning(dish, r4)>>>>

Repair(dish, rows) ==
    LET last == Last(Stages(dish, rows)) IN Fill(last[1], last[2])

(* Necessary ingredients that were left out.                               *)
LeftOut(dish, rows) ==
    UNION {{k \in Missing(s[1], s[2]) : Refused(k)} :
             s \in ToSet(Stages(dish, rows))}

-----------------------------------------------------------------------------
(* An attempt.                                                             *)

Slot(m) == <<m.day, m.type>>
(* _parse_meals: the first meal of a slot, and no more than asked for, at  *)
(* the places they had in the answer.                                      *)
Unique(meals) ==
    LET first == {i \in DOMAIN meals :
                    \A j \in 1 .. i - 1 : Slot(meals[j]) # Slot(meals[i])}
    IN Restrict(meals, {i \in first :
                          Cardinality(first \cap (1 .. i)) <= Days * PerDay})

(* _mock: the recipes in turn.                                             *)
Mock ==
    [i \in 1 .. Days * PerDay |->
        Draft((i - 1) \div PerDay + 1, MealTypes[((i - 1) % PerDay) + 1],
              Bank[((i - 1) % Len(Bank)) + 1])]

Repaired(meals) ==
    [i \in DOMAIN meals |->
        [meals[i] EXCEPT !.rows = Repair(Book[meals[i].dish], meals[i].rows)]]

(* generate_meals: an answer, or the recipes without one.                  *)
Generate ==
    /\ phase = "generate"
    /\ \E meals \in {Mock} \cup {Unique(a) : a \in IF enabled THEN Answers ELSE {}},
          took \in IF enabled THEN Durations ELSE {0} :
         /\ drafts' = Repaired(meals)
         /\ conflicts' = UNION {LeftOut(Book[m.dish], m.rows) : m \in ToSet(meals)}
         /\ clock' = clock + took
    /\ phase' = "judge"
    /\ UNCHANGED <<enabled, attempt, verdict, stored>>

(* _check_allergies looks at the names in the list.                        *)
Violations(meals, left) ==
    left \cup {k \in Keys : \E m \in ToSet(meals), a \in Allergies :
                              Listed(m.rows, k) /\ k \in NameHas[a]}

(* _price *)
Cost(rows) ==
    SumFunction([k \in DOMAIN rows |-> Amount(rows, k) * UnitCost[k]])
Price(meals) == SumFunction([i \in DOMAIN meals |-> Cost(meals[i].rows)])

TimeLeft == clock < RetryBefore
(* Mutant: allergens are a reason to try again at any time.                *)
RetryableLate == attempt < MaxRetries /\ enabled

Retryable == attempt < MaxRetries /\ enabled /\ TimeLeft

(* Mutant: the note is added before it is tried again.                     *)
RejectNoted ==
    /\ phase = "judge" /\ Violations(drafts, conflicts) # {} /\ Retryable
    /\ attempt' = attempt + 1 /\ phase' = "generate"
    /\ verdict' = [verdict EXCEPT !.warned = TRUE]
    /\ UNCHANGED <<enabled, clock, drafts, conflicts, stored>>

(* Allergens are a reason to try again ...                                 *)
Reject ==
    /\ phase = "judge" /\ Violations(drafts, conflicts) # {} /\ Retryable
    /\ attempt' = attempt + 1 /\ phase' = "generate"
    /\ UNCHANGED <<enabled, clock, drafts, conflicts, verdict, stored>>

(* Mutant: one attempt too many.                                           *)
AfterOverBudgetOnceMore ==
    IF attempt > MaxRetries \/ ~enabled \/ ~TimeLeft THEN "accepted"
    ELSE "generate"

AfterOverBudget ==
    IF attempt = MaxRetries \/ ~enabled \/ ~TimeLeft THEN "accepted"
    ELSE "generate"

(* ... and so is a price above the limit, as long as there is time.        *)
Judge ==
    /\ phase = "judge"
    /\ Violations(drafts, conflicts) = {} \/ ~Retryable
    /\ LET total == Price(drafts)
           warned == verdict.warned \/ Violations(drafts, conflicts) # {}
       IN IF total <= Limit
          THEN /\ verdict' = [status |-> "ready", total |-> total, warned |-> warned]
               /\ phase' = "accepted" /\ UNCHANGED attempt
          ELSE /\ verdict' = [status |-> "over_budget", total |-> total,
                              warned |-> warned]
               /\ phase' = AfterOverBudget
               /\ attempt' = IF phase' = "generate" THEN attempt + 1 ELSE attempt
    /\ UNCHANGED <<enabled, clock, drafts, conflicts, stored>>

Clamp(day) == Max({1, Min({day, Days})})

(* _apply_drafts *)
Store ==
    /\ phase = "accepted"
    /\ stored' = [i \in DOMAIN drafts |->
                    [drafts[i] EXCEPT !.day = Clamp(drafts[i].day)]]
    /\ phase' = "stored"
    /\ UNCHANGED <<enabled, attempt, clock, drafts, conflicts, verdict>>

Next == Generate \/ Reject \/ Judge \/ Store

Spec == Init /\ [][Next]_vars

-----------------------------------------------------------------------------
(* Every variable keeps its type, and amounts stay numbers.                *)
TypeOK ==
    /\ enabled \in BOOLEAN /\ phase \in Phases
    /\ attempt \in 0 .. MaxRetries /\ clock \in Nat
    /\ conflicts \subseteq Keys
    /\ verdict.status \in Statuses /\ verdict.total \in Nat
    /\ verdict.warned \in BOOLEAN
    /\ \A m \in ToSet(drafts) \cup ToSet(stored) :
         m.dish \in DOMAIN Book /\ m.rows \in [Keys \cup Others -> Int]

(* The status, the total and the allergy note tell of the meals that were  *)
(* accepted, not of an earlier attempt, however often and for whatever     *)
(* reason it was tried again (_generate_within_budget).                    *)
VerdictDescribesResult ==
    phase \in {"accepted", "stored"} =>
      /\ verdict.total = Price(drafts)
      /\ verdict.status = IF Price(drafts) <= Limit THEN "ready" ELSE "over_budget"
      /\ verdict.warned <=> Violations(drafts, conflicts) # {}

(* The answer comes within the time budget and one call, although two      *)
(* different reasons to retry each look at the clock (service.py:61-62).   *)
AnswersInTime == clock < RetryBefore + CallLimit

(* Repairing a repaired meal changes nothing, and no amount got smaller,   *)
(* although every stage depends on what the earlier ones added (the        *)
(* promise of repair_meal_ingredients, ingredient_requirements.py:232).    *)
RepairIsStable ==
    \A m \in ToSet(drafts) :
      /\ Repair(Book[m.dish], m.rows) = m.rows
      /\ \A k \in DOMAIN m.rows : m.rows[k] >= Book[m.dish].rows[k]

(* The repair adds nothing the user may not eat or cannot judge, at any of *)
(* its stages, and reports what it therefore left out.                     *)
RepairMindsAllergies ==
    \A m \in ToSet(drafts), k \in Keys :
      Refused(k) =>
        /\ m.rows[k] = Book[m.dish].rows[k]
        /\ k \in Missing(m.rows, Basics(Book[m.dish], m.rows)) => k \in conflicts

(* No two meals of a plan share a day and a kind of meal, as the comment   *)
(* on _parse_meals has it (generator.py:272).  It does not hold: the days  *)
(* are clamped after the slots were compared.                              *)
OneMealPerSlot ==
    \A i, j \in DOMAIN stored : i # j => Slot(stored[i]) # Slot(stored[j])
=============================================================================
