----------------------------- MODULE Onboarding -----------------------------
(***************************************************************************)
(* How one user's profile comes about: the budget plan, the household, the *)
(* region and the cycle settings (backend/app/domains/budget, household,   *)
(* update_region of auth and get_or_create_settings of cycle).             *)
(*                                                                         *)
(* Onboarding is complete once a plan and a household are saved, in either *)
(* order: the handler that saves the second finds the first.  All handlers *)
(* work on the user's row as authentication loaded it, and an UPDATE       *)
(* writes only the columns whose value differs from the loaded one.  A     *)
(* query flushes what is pending, and a flushed row is locked until the    *)
(* transaction ends.                                                       *)
(***************************************************************************)
EXTENDS Integers, FiniteSets

CONSTANTS
    Requests,     \* HTTP requests of the user, in flight
    Payloads,     \* the budgets they ask for: [amount, currency]
    MaxSaves      \* bound: how often a household is saved

VARIABLES
    user,         \* the row of users: onboarding, country and currency
    plan,         \* the row of budget_plans
    household,    \* which saves have members in household_members
    saves,        \* how many households were saved, which also numbers them
    settings,     \* the row of user_cycle_settings
    req           \* the session of each request

vars == <<user, plan, household, saves, settings, req>>

CountryCurrency == [KR |-> "KRW", US |-> "USD"]
Countries == DOMAIN CountryCurrency
NoPlan == [amount |-> 0, currency |-> "none"]
PlanRow == [amount : {p.amount : p \in Payloads},
            currency : {p.currency : p \in Payloads}] \cup {NoPlan}
UserRow == [onboarded : BOOLEAN, country : Countries,
            currency : {CountryCurrency[c] : c \in Countries}]
Session ==
    [at : {"idle", "loaded", "create", "upsert", "flushed",
           "household", "checked", "settings"},
     user : UserRow, plan : PlanRow,            \* as they were loaded
     pay : PlanRow,                             \* the budget to save
     del : SUBSET (1 .. MaxSaves),              \* the members to delete
     other : BOOLEAN]                           \* the other half was found

(* AMOUNT_RANGE, which every payload was validated against.                *)
InRange(b) == CASE b.currency = "KRW" -> b.amount \in 50000 .. 5000000
                [] b.currency = "USD" -> b.amount \in 50 .. 5000
                [] OTHER -> FALSE

NewUser(c) ==
    [onboarded |-> FALSE, country |-> c, currency |-> CountryCurrency[c]]
Idle == [at |-> "idle", user |-> NewUser("KR"), plan |-> NoPlan,
         pay |-> NoPlan, del |-> {}, other |-> FALSE]

Init ==
    /\ user \in {NewUser(c) : c \in Countries}
    /\ plan = NoPlan
    /\ household = {} /\ saves = 0
    /\ settings = "absent"
    /\ req = [r \in Requests |-> Idle]

Done(r) == req' = [req EXCEPT ![r] = Idle]
Others(r) == Requests \ {r}
PlanLocked(r) == \E s \in Others(r) : req[s].at = "flushed"

(* ON CONFLICT DO NOTHING *)
Ensured == IF settings = "absent" THEN "default" ELSE settings

(* Mutant: the settings are left to the first look at the cycle.           *)
FinishUserOnly(r, found) ==
    /\ user' = IF req[r].user.onboarded \/ ~found THEN user
               ELSE [user EXCEPT !.onboarded = TRUE]
    /\ settings' = settings

(* onboarding_completed_at and the settings, in the caller's transaction.  *)
Finish(r, found) ==
    IF req[r].user.onboarded \/ ~found
    THEN UNCHANGED <<user, settings>>
    ELSE /\ user' = [user EXCEPT !.onboarded = TRUE]
         /\ settings' = Ensured

-----------------------------------------------------------------------------
(* get_current_user *)
Authenticate(r) ==
    /\ req[r].at = "idle"
    /\ req' = [req EXCEPT ![r].at = "loaded", ![r].user = user]
    /\ UNCHANGED <<user, plan, household, saves, settings>>

(* create_budget_plan: a plan that is there is refused, before or by the   *)
(* unique key.  It completes the onboarding without asking for a household.*)
Create(r, p) ==
    /\ req[r].at = "loaded" /\ plan = NoPlan
    /\ req' = [req EXCEPT ![r].at = "create", ![r].pay = p]
    /\ UNCHANGED <<user, plan, household, saves, settings>>

CreateCommit(r) ==
    /\ req[r].at = "create" /\ ~PlanLocked(r)
    /\ IF plan # NoPlan
       THEN UNCHANGED <<user, plan, settings>>
       ELSE plan' = req[r].pay /\ Finish(r, TRUE)
    /\ Done(r)
    /\ UNCHANGED <<household, saves>>

(* upsert_budget_plan: the plan is loaded, ...                             *)
Upsert(r, p) ==
    /\ req[r].at = "loaded"
    /\ req' = [req EXCEPT ![r].at = "upsert", ![r].pay = p, ![r].plan = plan]
    /\ UNCHANGED <<user, plan, household, saves, settings>>

Inserted(r) == req[r].plan = NoPlan
Duplicate(r) == Inserted(r) /\ plan # NoPlan

(* ... flushed by the query for a household, unless already onboarded, ... *)
UpsertFlush(r) ==
    /\ req[r].at = "upsert" /\ ~req[r].user.onboarded
    /\ ~PlanLocked(r) /\ ~Duplicate(r)
    /\ req' = [req EXCEPT ![r].at = "flushed", ![r].other = household # {}]
    /\ UNCHANGED <<user, plan, household, saves, settings>>

UpsertFails(r) ==
    /\ req[r].at = "upsert" /\ ~PlanLocked(r) /\ Duplicate(r)
    /\ Done(r)
    /\ UNCHANGED <<user, plan, household, saves, settings>>

(* ... and committed: an INSERT, or an UPDATE of the columns that changed. *)
Written(old, new, now) == IF new = old THEN now ELSE new

UpsertCommit(r) ==
    /\ \/ req[r].at = "flushed"
       \/ /\ req[r].at = "upsert" /\ req[r].user.onboarded
          /\ ~PlanLocked(r) /\ ~Duplicate(r)
    /\ plan' = IF Inserted(r) THEN req[r].pay
               ELSE [f \in {"amount", "currency"} |->
                       Written(req[r].plan[f], req[r].pay[f], plan[f])]
    /\ Finish(r, req[r].other)
    /\ Done(r)
    /\ UNCHANGED <<household, saves>>

(* replace_household: DELETE sees the members committed when it starts and *)
(* waits for those another request is deleting; then the plan is looked    *)
(* for, and the new members are committed.                                 *)
ReplaceStart(r) ==
    /\ req[r].at = "loaded"
    /\ req' = [req EXCEPT ![r].at = "household", ![r].del = household]
    /\ UNCHANGED <<user, plan, household, saves, settings>>

MembersLocked(r) ==
    \E s \in Others(r) : /\ req[s].at = "checked"
                         /\ req[s].del \cap req[r].del \cap household # {}

(* Mutant: the deletion is committed on its own.                           *)
ReplaceDeletesFirst(r) ==
    /\ req[r].at = "household" /\ ~MembersLocked(r)
    /\ household' = household \ req[r].del
    /\ req' = [req EXCEPT ![r].at = "checked", ![r].other = plan # NoPlan]
    /\ UNCHANGED <<user, plan, saves, settings>>

ReplaceCheck(r) ==
    /\ req[r].at = "household" /\ ~MembersLocked(r)
    /\ req' = [req EXCEPT ![r].at = "checked", ![r].other = plan # NoPlan]
    /\ UNCHANGED <<user, plan, household, saves, settings>>

ReplaceCommit(r) ==
    /\ req[r].at = "checked" /\ saves < MaxSaves
    /\ household' = (household \ req[r].del) \cup {saves + 1}
    /\ saves' = saves + 1
    /\ Finish(r, req[r].other)
    /\ Done(r)
    /\ UNCHANGED plan

(* Mutant: the country is stored in both columns.                          *)
RegionTwice(r, c) ==
    /\ req[r].at = "loaded"
    /\ user' = [user EXCEPT !.country = c, !.currency = c]
    /\ Done(r)
    /\ UNCHANGED <<plan, household, saves, settings>>

(* update_region *)
Region(r, c) ==
    /\ req[r].at = "loaded"
    /\ user' = [user EXCEPT
                  !.country = Written(req[r].user.country, c, @),
                  !.currency = Written(req[r].user.currency,
                                       CountryCurrency[c], @)]
    /\ Done(r)
    /\ UNCHANGED <<plan, household, saves, settings>>

(* get_or_create_settings, of whatever asks for the cycle first.           *)
FindSettings(r) ==
    /\ req[r].at = "loaded" /\ settings = "absent"
    /\ req' = [req EXCEPT ![r].at = "settings"]
    /\ UNCHANGED <<user, plan, household, saves, settings>>

(* Mutant: a conflicting insert overwrites the row.                        *)
CreateSettingsAnew(r) ==
    /\ req[r].at = "settings"
    /\ settings' = "default"
    /\ UNCHANGED <<user, plan, household, saves>>
    /\ Done(r)

CreateSettings(r) ==
    /\ req[r].at = "settings"
    /\ settings' = Ensured
    /\ UNCHANGED <<user, plan, household, saves>>
    /\ Done(r)

(* update_settings, which creates the row if it has to.                    *)
ChangeSettings(r) ==
    /\ req[r].at = "loaded"
    /\ settings' = "changed"
    /\ UNCHANGED <<user, plan, household, saves>>
    /\ Done(r)

(* A client that goes away, a failure, a deadlock the database breaks.     *)
Abandon(r) ==
    /\ req[r].at # "idle"
    /\ UNCHANGED <<user, plan, household, saves, settings>>
    /\ Done(r)

Next ==
    \E r \in Requests :
      \/ Authenticate(r)
      \/ \E p \in Payloads : Create(r, p)
      \/ CreateCommit(r)
      \/ \E p \in Payloads : Upsert(r, p)
      \/ UpsertFlush(r)
      \/ UpsertFails(r)
      \/ UpsertCommit(r)
      \/ ReplaceStart(r)
      \/ ReplaceCheck(r)
      \/ ReplaceCommit(r)
      \/ \E c \in Countries : Region(r, c)
      \/ FindSettings(r)
      \/ CreateSettings(r)
      \/ ChangeSettings(r)
      \/ Abandon(r)

Spec == Init /\ [][Next]_vars

-----------------------------------------------------------------------------
(* Every variable keeps its type.                                          *)
TypeOK ==
    /\ user \in UserRow /\ plan \in PlanRow
    /\ household \subseteq 1 .. MaxSaves /\ saves \in 0 .. MaxSaves
    /\ settings \in {"absent", "default", "changed"}
    /\ req \in [Requests -> Session]

(* The scheduler finds every onboarded user: whichever handler, from       *)
(* however old a view of the user, completes the onboarding, the plan and  *)
(* the cycle settings are there (ensure_settings_for_onboarding).          *)
OnboardedIsComplete ==
    user.onboarded => plan # NoPlan /\ settings # "absent"

(* What was saved last is there, whatever was being replaced meanwhile.    *)
LastHouseholdKept == saves > 0 => saves \in household

(* Settings the user has changed never return to the defaults of their     *)
(* lazy creation.                                                          *)
SettingsKept == [][settings = "changed" => settings' = "changed"]_vars

(* The amount of the plan is one its currency allows ("the server          *)
(* validates everything again", budget/schemas.py:3-5).  It does not hold: *)
(* two overlapping saves each write only the column they changed.          *)
AmountFitsCurrency == plan # NoPlan => InRange(plan)
=============================================================================
