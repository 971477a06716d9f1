---------------------------- MODULE FridgeStock ----------------------------
(***************************************************************************)
(* The stock of one ingredient in the virtual fridge of a user and the     *)
(* meals that consume it (backend/app/domains/fridge/service.py and        *)
(* set_meal_completion of backend/app/domains/mealplan/service.py).        *)
(*                                                                         *)
(* Completing a meal takes its ingredients from the fridge, oldest lot     *)
(* first, and remembers in the meal's row what it really got; undoing the  *)
(* completion puts just that back.  A completion is four steps: it loads   *)
(* the meal; the first query for lots flushes completed_at, which locks    *)
(* the meal's row; the first commit writes the new quantities of the lots, *)
(* computed from what was read; a second commit writes what was taken.     *)
(***************************************************************************)
EXTENDS Integers, FiniteSets, FiniteSetsExt, Functions

CONSTANTS
    Requests,     \* requests that consume or restore, in flight
    MaxMeal,      \* meals are numbered 1 .. MaxMeal
    Need,         \* the amount of the ingredient one meal takes
    MaxLot,       \* lots are numbered 1 .. MaxLot in the order of _by_expiry
    MaxSupply,    \* bound: the amount that ever enters the fridge
    MaxCrashes    \* bound: how often the server process may die

VARIABLES
    lot,        \* the committed rows of fridge_items
    meal,       \* the committed rows of meals
    req,        \* the session of each request
    supplied,   \* history: all that was bought, delivered or typed in
    crashes

vars == <<lot, meal, req, supplied, crashes>>

Lots == 1 .. MaxLot
Meals == 1 .. MaxMeal
NoMeal == 0             \* POST /fridge/deduct is about no meal
Amounts == 0 .. MaxSupply
Null == -1              \* fridge_deducted IS NULL

LotRow == [qty : Amounts, delivered : BOOLEAN]      \* no row: qty = 0
MealRow == [present : BOOLEAN, completed : BOOLEAN, snap : Null .. Need]
Session ==
    [at : {"idle", "loaded", "selected", "deducted"},
     meal : Meals \cup {NoMeal}, want : BOOLEAN,
     was : BOOLEAN, snap : Null .. Need,         \* the meal as it was loaded
     read : [Lots -> Amounts],                   \* the lots as selected
     taken : 0 .. Need]                          \* committed, no snapshot yet

NoRow == [qty |-> 0, delivered |-> FALSE]
Idle == [at |-> "idle", meal |-> NoMeal, want |-> FALSE, was |-> FALSE,
         snap |-> Null, read |-> [l \in Lots |-> 0], taken |-> 0]

Present == {l \in Lots : lot[l].qty > 0}
Total(f) == SumFunctionOnSet(f, Lots)
Stock == Total([l \in Lots |-> lot[l].qty])

(* UPDATE meals holds the row until the transaction ends.                  *)
RowLocked(m) == \E r \in Requests : req[r].at = "selected" /\ req[r].meal = m

(* A lot's number is not reused while a session still refers to the row.   *)
Free(l) == lot[l].qty = 0 /\ \A r \in Requests : req[r].read[l] = 0

Init ==
    /\ lot = [l \in Lots |-> NoRow]
    /\ meal = [m \in Meals |-> [present |-> TRUE, completed |-> FALSE,
                                snap |-> Null]]
    /\ req = [r \in Requests |-> Idle]
    /\ supplied = 0
    /\ crashes = 0

-----------------------------------------------------------------------------
(* The items a user or a delivery registers and removes, one commit each.  *)

(* add_items: the expiry date decides the lot's place.                     *)
AddItem(l, q, delivered) ==
    /\ Free(l)
    /\ supplied + q <= MaxSupply
    /\ lot' = [lot EXCEPT ![l] = [qty |-> q, delivered |-> delivered]]
    /\ supplied' = supplied + q
    /\ UNCHANGED <<meal, req, crashes>>

UpdateQuantity(l, q) ==
    /\ l \in Present
    /\ lot' = [lot EXCEPT ![l].qty = q]
    /\ supplied' = supplied + Max({q - lot[l].qty, 0})
    /\ supplied' <= MaxSupply
    /\ UNCHANGED <<meal, req, crashes>>

DeleteItem(l) ==
    /\ l \in Present
    /\ lot' = [lot EXCEPT ![l] = NoRow]
    /\ UNCHANGED <<meal, req, supplied, crashes>>

(* delete_delivery_items: what is left of a delivery reported as missing.  *)
DeleteDelivery ==
    /\ \E l \in Present : lot[l].delivered
    /\ lot' = [l \in Lots |-> IF lot[l].delivered THEN NoRow ELSE lot[l]]
    /\ UNCHANGED <<meal, req, supplied, crashes>>

(* A regeneration deletes the meal and its snapshot with it.               *)
ReplaceMeal(m) ==
    /\ meal[m].present /\ ~RowLocked(m)
    /\ meal' = [meal EXCEPT ![m] = [present |-> FALSE, completed |-> FALSE,
                                    snap |-> Null]]
    /\ UNCHANGED <<lot, req, supplied, crashes>>

-----------------------------------------------------------------------------
(* set_meal_completion and the deduction of POST /fridge/deduct.           *)

LoadMeal(r, m, want) ==
    /\ req[r].at = "idle"
    /\ meal[m].present
    /\ req' = [req EXCEPT ![r] =
                 [Idle EXCEPT !.at = "loaded", !.meal = m, !.want = want,
                              !.was = meal[m].completed,
                              !.snap = meal[m].snap]]
    /\ UNCHANGED <<lot, meal, supplied, crashes>>

StartDeduct(r) ==
    /\ req[r].at = "idle"
    /\ req' = [req EXCEPT ![r] = [Idle EXCEPT !.at = "loaded", !.want = TRUE]]
    /\ UNCHANGED <<lot, meal, supplied, crashes>>

(* StaleDataError: the row to update is gone, the transaction rolls back.  *)
RowGone(r) ==
    /\ req[r].at \in {"loaded", "deducted"}
    /\ req[r].meal # NoMeal /\ ~meal[req[r].meal].present
    /\ req' = [req EXCEPT ![r] = Idle]
    /\ UNCHANGED <<lot, meal, supplied, crashes>>

Reachable(r) == req[r].meal \in Meals /\ meal[req[r].meal].present
                                      /\ ~RowLocked(req[r].meal)

(* The flush of completed_at waits for the row; _matches then reads lots.  *)
SelectLots(r) ==
    /\ req[r].at = "loaded" /\ req[r].want /\ ~req[r].was
    /\ req[r].meal = NoMeal \/ Reachable(r)
    /\ req' = [req EXCEPT ![r].at = "selected",
                          ![r].read = [l \in Lots |-> lot[l].qty]]
    /\ UNCHANGED <<lot, meal, supplied, crashes>>

(* deduct: each lot gives what the lots before it could not.               *)
Before(read, l) == SumFunctionOnSet(read, 1 .. l - 1)
(* Mutant: a lot gives more than it holds.                                 *)
TakeAll(read) == [l \in Lots |-> Max({Need - Before(read, l), 0})]

Take(read) ==
    [l \in Lots |-> Min({read[l], Max({Need - Before(read, l), 0})})]

(* Lots are written by primary key with the quantity computed from what    *)
(* was read.  An UPDATE of a lot that is gone fails the transaction, a     *)
(* DELETE of one does not.                                                 *)
CommitDeduct(r) ==
    /\ req[r].at = "selected"
    /\ LET read == req[r].read
           take == Take(read)
           written == {l \in Lots : take[l] > 0}
           lost == \E l \in written : take[l] < read[l] /\ lot[l].qty = 0
       IN IF lost
          THEN /\ req' = [req EXCEPT ![r] = Idle]
               /\ UNCHANGED <<lot, meal>>
          ELSE /\ lot' = [l \in Lots |->
                            IF l \notin written THEN lot[l]
                            ELSE IF take[l] = read[l] THEN NoRow
                            ELSE [lot[l] EXCEPT !.qty = read[l] - take[l]]]
               /\ IF req[r].meal = NoMeal
                  THEN /\ req' = [req EXCEPT ![r] = Idle]
                       /\ UNCHANGED meal
                  ELSE /\ req' = [req EXCEPT
                                    ![r] = [Idle EXCEPT
                                              !.at = "deducted",
                                              !.meal = req[r].meal,
                                              !.taken = Total(take)]]
                       /\ meal' = [meal EXCEPT
                                     ![req[r].meal].completed = TRUE]
    /\ UNCHANGED <<supplied, crashes>>

(* The second commit: fridge_deducted.                                     *)
CommitSnapshot(r) ==
    /\ req[r].at = "deducted" /\ Reachable(r)
    /\ meal' = [meal EXCEPT ![req[r].meal].snap = req[r].taken]
    /\ req' = [req EXCEPT ![r] = Idle]
    /\ UNCHANGED <<lot, supplied, crashes>>

(* A completed meal completed again only gets a new time.                  *)
CompleteAgain(r) ==
    /\ req[r].at = "loaded" /\ req[r].want /\ req[r].was /\ Reachable(r)
    /\ meal' = [meal EXCEPT ![req[r].meal].completed = TRUE]
    /\ req' = [req EXCEPT ![r] = Idle]
    /\ UNCHANGED <<lot, supplied, crashes>>

(* Mutant: the recipe's amount is restored, not the snapshot's.            *)
RestoreRecipe(r) == Need

(* One commit for the row, whose NULLs are written where the loaded values *)
(* were not, and for the restored lot, which has no date and goes last.    *)
Restore(r) == Max({req[r].snap, 0})

Uncomplete(r) ==
    /\ req[r].at = "loaded" /\ ~req[r].want /\ req[r].was /\ Reachable(r)
    /\ meal' = [meal EXCEPT ![req[r].meal].completed = FALSE,
                            ![req[r].meal].snap =
                                IF req[r].snap = Null THEN @ ELSE Null]
    /\ IF Restore(r) = 0 THEN UNCHANGED lot
       ELSE \E l \in Lots : /\ Free(l) /\ \A k \in Present : k < l
                            /\ lot' = [lot EXCEPT ![l] =
                                         [NoRow EXCEPT !.qty = Restore(r)]]
    /\ req' = [req EXCEPT ![r] = Idle]
    /\ UNCHANGED <<supplied, crashes>>

(* Undoing what is not done writes nothing.                                *)
UncompleteAgain(r) ==
    /\ req[r].at = "loaded" /\ ~req[r].want /\ ~req[r].was
    /\ req' = [req EXCEPT ![r] = Idle]
    /\ UNCHANGED <<lot, meal, supplied, crashes>>

Crash ==
    /\ crashes < MaxCrashes
    /\ req' = [r \in Requests |-> Idle]
    /\ crashes' = crashes + 1
    /\ UNCHANGED <<lot, meal, supplied>>

Next ==
    \/ \E l \in Lots, q \in Amounts \ {0}, d \in BOOLEAN : AddItem(l, q, d)
    \/ \E l \in Lots, q \in Amounts \ {0} : UpdateQuantity(l, q)
    \/ \E l \in Lots : DeleteItem(l)
    \/ DeleteDelivery
    \/ \E m \in Meals : ReplaceMeal(m)
    \/ \E r \in Requests, m \in Meals, want \in BOOLEAN : LoadMeal(r, m, want)
    \/ \E r \in Requests : StartDeduct(r)
    \/ \E r \in Requests : RowGone(r)
    \/ \E r \in Requests : SelectLots(r)
    \/ \E r \in Requests : CommitDeduct(r)
    \/ \E r \in Requests : CommitSnapshot(r)
    \/ \E r \in Requests : CompleteAgain(r)
    \/ \E r \in Requests : Uncomplete(r)
    \/ \E r \in Requests : UncompleteAgain(r)
    \/ Crash

Spec == Init /\ [][Next]_vars

-----------------------------------------------------------------------------
(* Every variable keeps its type.                                          *)
TypeOK ==
    /\ lot \in [Lots -> LotRow]
    /\ meal \in [Meals -> MealRow]
    /\ req \in [Requests -> Session]
    /\ supplied \in Amounts
    /\ crashes \in 0 .. MaxCrashes

(* What the meals could still give back, and what they are about to note.  *)
Restorable == SumFunction([m \in Meals |-> Max({meal[m].snap, 0})])
InFlight == SumFunction([r \in Requests |-> req[r].taken])

(* Completing and undoing meals makes no food: what is in the fridge and   *)
(* what can be restored to it never exceed what was ever put in, whatever  *)
(* shortage, deletion, regeneration or crash comes in between ("restored   *)
(* from the snapshot, not from the recipe", service.py:471).               *)
NoInflation == Stock + Restorable + InFlight <= supplied

=============================================================================
