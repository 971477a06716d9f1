-------------------------- MODULE OnboardingProofs --------------------------
(***************************************************************************)
(* Proofs about Onboarding, for any number of requests, budgets and saves: *)
(* whichever handler completes the onboarding, on whatever it read before, *)
(* the user has a plan and cycle settings; and what was saved stays.       *)
(*                                                                         *)
(* The decision to complete rests on a plan that was found earlier; it is  *)
(* right since a plan, once there, is never deleted.                       *)
(***************************************************************************)
EXTENDS Onboarding, TLAPS

(* What the constants are: BudgetPlanCreate names one of two currencies.   *)
Validated ==
    /\ Payloads \subseteq [amount : Int, currency : {"KRW", "USD"}]
    /\ MaxSaves \in Nat

IsPlan(p) == p.currency # "none"

(* What requests have found is still there.                                *)
FoundOK ==
    \A r \in Requests :
      /\ req[r].at \in {"create", "upsert", "flushed"} => IsPlan(req[r].pay)
      /\ req[r].at \in {"upsert", "flushed"} =>
           req[r].plan = NoPlan \/ (IsPlan(req[r].plan) /\ IsPlan(plan))
      /\ req[r].at = "checked" /\ req[r].other => IsPlan(plan)

IInv ==
    /\ TypeOK /\ FoundOK
    /\ user.onboarded => IsPlan(plan) /\ settings # "absent"

-----------------------------------------------------------------------------
(* A plan is told from NoPlan by its currency.                             *)
LEMMA PlanRows ==
    ASSUME Validated
    PROVE  /\ NoPlan \in PlanRow /\ ~IsPlan(NoPlan)
           /\ Payloads \subseteq PlanRow
           /\ \A p \in Payloads : IsPlan(p)
           /\ \A p \in PlanRow : p = NoPlan \/ IsPlan(p)
  BY DEF Validated, PlanRow, NoPlan, IsPlan

(* At the start nobody is onboarded and no request has found anything.     *)
LEMMA Start == ASSUME Validated, Init PROVE IInv
<1>1. Idle \in Session /\ Idle.at = "idle"
  BY PlanRows DEF Idle, Session, NewUser, UserRow, Countries, CountryCurrency
<1>2. user \in UserRow /\ ~user.onboarded
  <2>1. PICK c \in Countries : user = NewUser(c)
    BY DEF Init
  <2>2. CountryCurrency[c] \in {CountryCurrency[d] : d \in Countries}
    OBVIOUS
  <2> QED
    BY <2>1, <2>2 DEF NewUser, UserRow
<1>3. \A r \in Requests : req[r] = Idle
  BY DEF Init
<1>4. FoundOK
  BY <1>1, <1>3 DEF FoundOK
<1>5. TypeOK
  BY <1>1, <1>2, PlanRows DEF Init, TypeOK, Validated
<1> QED
  BY <1>2, <1>4, <1>5 DEF IInv

(* A request that ends takes nothing from what the others have found.      *)
LEMMA Ending ==
    ASSUME Validated, IInv, NEW r \in Requests, Done(r),
           IsPlan(plan) => IsPlan(plan')
    PROVE  req' \in [Requests -> Session] /\ FoundOK'
<1>1. Idle \in Session /\ Idle.at = "idle"
  BY PlanRows DEF Idle, Session, NewUser, UserRow, Countries, CountryCurrency
<1> QED
  BY <1>1 DEF IInv, TypeOK, FoundOK, Done, IsPlan

(* A handler that completes the onboarding leaves settings behind.         *)
LEMMA FinishOK ==
    ASSUME IInv, NEW r \in Requests, NEW found, Finish(r, found),
           found => IsPlan(plan'), IsPlan(plan) => IsPlan(plan')
    PROVE  /\ user' \in UserRow
           /\ settings' \in {"absent", "default", "changed"}
           /\ user'.onboarded => IsPlan(plan') /\ settings' # "absent"
  BY DEF IInv, TypeOK, Finish, Ensured, UserRow

(* The steps that only read.                                               *)
LEMMA Reading ==
    ASSUME Validated, IInv, NEW r \in Requests,
           \/ Authenticate(r) \/ \E p \in Payloads : Create(r, p)
           \/ \E p \in Payloads : Upsert(r, p)
           \/ UpsertFlush(r) \/ ReplaceStart(r) \/ ReplaceCheck(r)
           \/ FindSettings(r)
    PROVE  IInv'
<1>0. req[r] \in Session /\ UNCHANGED <<user, plan, household, saves, settings>>
  BY DEF IInv, TypeOK, Authenticate, Create, Upsert, UpsertFlush,
         ReplaceStart, ReplaceCheck, FindSettings
<1>1. ASSUME NEW x \in Session, req' = [req EXCEPT ![r] = x],
             x.at \in {"create", "upsert", "flushed"} => IsPlan(x.pay),
             x.at \in {"upsert", "flushed"} =>
               x.plan = NoPlan \/ (IsPlan(x.plan) /\ IsPlan(plan)),
             x.at = "checked" /\ x.other => IsPlan(plan)
      PROVE  IInv'
  BY <1>0, <1>1 DEF IInv, TypeOK, FoundOK
<1>2. CASE Authenticate(r)
  <2> DEFINE x == [req[r] EXCEPT !.at = "loaded", !.user = user]
  <2>1. x \in Session /\ x.at = "loaded"
    BY <1>0 DEF IInv, TypeOK, Session
  <2>2. req' = [req EXCEPT ![r] = x]
    BY <1>2 DEF Authenticate, IInv, TypeOK
  <2> QED
    BY <1>1, <2>1, <2>2
<1>3. ASSUME NEW p \in Payloads, Create(r, p) PROVE IInv'
  <2> DEFINE x == [req[r] EXCEPT !.at = "create", !.pay = p]
  <2>1. x \in Session /\ x.at = "create" /\ x.pay = p
    BY <1>0, PlanRows DEF Session
  <2>2. req' = [req EXCEPT ![r] = x]
    BY <1>3 DEF Create, IInv, TypeOK
  <2> QED
    BY <1>1, <2>1, <2>2, PlanRows
<1>4. ASSUME NEW p \in Payloads, Upsert(r, p) PROVE IInv'
  <2> DEFINE x == [req[r] EXCEPT !.at = "upsert", !.pay = p, !.plan = plan]
  <2>1. x \in Session /\ x.at = "upsert" /\ x.pay = p /\ x.plan = plan
    BY <1>0, PlanRows DEF IInv, TypeOK, Session
  <2>2. req' = [req EXCEPT ![r] = x]
    BY <1>4 DEF Upsert, IInv, TypeOK
  <2>3. plan = NoPlan \/ IsPlan(plan)
    BY PlanRows DEF IInv, TypeOK
  <2> HIDE DEF x
  <2>4. /\ IsPlan(x.pay)
        /\ x.plan = NoPlan \/ (IsPlan(x.plan) /\ IsPlan(plan))
    BY <2>1, <2>3, PlanRows DEF IsPlan
  <2> QED
    BY <1>1, <2>1, <2>2, <2>4
<1>5. CASE UpsertFlush(r)
  <2> DEFINE x == [req[r] EXCEPT !.at = "flushed", !.other = household # {}]
  <2>1. /\ x \in Session /\ x.at = "flushed"
        /\ x.pay = req[r].pay /\ x.plan = req[r].plan
    <3>1. (household # {}) \in BOOLEAN
      OBVIOUS
    <3> HIDE DEF x
    <3>2. PICK b \in BOOLEAN : x = [req[r] EXCEPT !.at = "flushed", !.other = b]
      BY <3>1 DEF x
    <3> QED
      BY <1>0, <3>2 DEF Session
  <2>2. req' = [req EXCEPT ![r] = x] /\ req[r].at = "upsert"
    BY <1>5 DEF UpsertFlush, IInv, TypeOK
  <2> QED
    BY <1>1, <2>1, <2>2 DEF IInv, FoundOK
<1>6. CASE ReplaceStart(r)
  <2> DEFINE x == [req[r] EXCEPT !.at = "household", !.del = household]
  <2>1. x \in Session /\ x.at = "household"
    BY <1>0 DEF IInv, TypeOK, Session
  <2>2. req' = [req EXCEPT ![r] = x]
    BY <1>6 DEF ReplaceStart, IInv, TypeOK
  <2> QED
    BY <1>1, <2>1, <2>2
<1>7. CASE ReplaceCheck(r)
  <2> DEFINE x == [req[r] EXCEPT !.at = "checked", !.other = plan # NoPlan]
  <2>1. x \in Session /\ x.at = "checked" /\ (x.other => plan # NoPlan)
    <3>1. x.other = (plan # NoPlan)
      BY Zenon, <1>0 DEF Session
    <3> QED
      BY <1>0, <3>1 DEF Session
  <2>2. req' = [req EXCEPT ![r] = x]
    BY <1>7 DEF ReplaceCheck, IInv, TypeOK
  <2>3. plan = NoPlan \/ IsPlan(plan)
    BY PlanRows DEF IInv, TypeOK
  <2> QED
    BY <1>1, <2>1, <2>2, <2>3
<1>8. CASE FindSettings(r)
  <2> DEFINE x == [req[r] EXCEPT !.at = "settings"]
  <2>1. x \in Session /\ x.at = "settings"
    BY <1>0 DEF Session
  <2>2. req' = [req EXCEPT ![r] = x]
    BY <1>8 DEF FindSettings, IInv, TypeOK
  <2> QED
    BY <1>1, <2>1, <2>2
<1> QED
  BY <1>2, <1>3, <1>4, <1>5, <1>6, <1>7, <1>8

(* The commits of a budget plan.                                           *)
LEMMA PlanSaved ==
    ASSUME Validated, IInv, NEW r \in Requests,
           CreateCommit(r) \/ UpsertCommit(r)
    PROVE  IInv'
<1>0. req[r] \in Session /\ plan \in PlanRow /\ household' = household
        /\ saves' = saves /\ Done(r)
  BY DEF IInv, TypeOK, CreateCommit, UpsertCommit
<1>1. CASE CreateCommit(r) /\ plan # NoPlan
  BY <1>0, <1>1, Ending DEF CreateCommit, IInv, TypeOK
<1>2. CASE CreateCommit(r) /\ plan = NoPlan
  <2>1. plan' = req[r].pay /\ Finish(r, TRUE) /\ IsPlan(plan')
    BY <1>2 DEF CreateCommit, IInv, FoundOK
  <2>2. plan' \in PlanRow
    BY <1>0, <2>1 DEF Session
  <2> QED
    BY <1>0, <2>1, <2>2, FinishOK, Ending DEF IInv, TypeOK
<1>3. CASE UpsertCommit(r)
  <2>1. Finish(r, req[r].other)
    BY <1>3 DEF UpsertCommit
  <2>2. req[r].pay \in PlanRow /\ IsPlan(req[r].pay)
    BY <1>0, <1>3 DEF UpsertCommit, IInv, FoundOK, Session
  <2>3. plan' \in PlanRow /\ IsPlan(plan')
    <3>1. CASE Inserted(r)
      BY <1>3, <2>2, <3>1 DEF UpsertCommit
    <3>2. CASE ~Inserted(r)
      <4>1. IsPlan(plan) /\ plan # NoPlan
        BY <1>3, <3>2, PlanRows DEF UpsertCommit, Inserted, IInv, FoundOK
      <4> DEFINE col(f) == Written(req[r].plan[f], req[r].pay[f], plan[f])
      <4>2. plan' = [f \in {"amount", "currency"} |-> col(f)]
        BY <1>3, <3>2 DEF UpsertCommit
      <4>4. plan' = [amount |-> col("amount"), currency |-> col("currency")]
        BY <4>2
      <4>5. /\ col("amount") \in {req[r].pay.amount, plan.amount}
            /\ col("currency") \in {req[r].pay.currency, plan.currency}
        BY DEF Written
      <4>3. \A p \in PlanRow :
              IsPlan(p) => /\ p.amount \in {q.amount : q \in Payloads}
                           /\ p.currency \in {q.currency : q \in Payloads}
        BY DEF PlanRow, NoPlan, IsPlan
      <4> QED
        BY <1>0, <2>2, <4>1, <4>3, <4>4, <4>5 DEF PlanRow, IsPlan
    <3> QED
      BY <3>1, <3>2
  <2> QED
    BY <1>0, <2>1, <2>3, FinishOK, Ending DEF IInv, TypeOK
<1> QED
  BY <1>1, <1>2, <1>3

(* The other commits.                                                      *)
LEMMA OthersSaved ==
    ASSUME Validated, IInv, NEW r \in Requests,
           \/ UpsertFails(r) \/ ReplaceCommit(r)
           \/ \E c \in Countries : Region(r, c)
           \/ CreateSettings(r) \/ ChangeSettings(r) \/ Abandon(r)
    PROVE  IInv'
<1>0. plan' = plan /\ Done(r)
  BY DEF UpsertFails, ReplaceCommit, Region, CreateSettings, ChangeSettings,
         Abandon
<1>1. CASE UpsertFails(r) \/ Abandon(r)
  BY <1>0, <1>1, Ending DEF UpsertFails, Abandon, IInv, TypeOK
<1>2. CASE CreateSettings(r) \/ ChangeSettings(r)
  BY <1>0, <1>2, Ending
     DEF CreateSettings, ChangeSettings, Ensured, IInv, TypeOK
<1>3. CASE ReplaceCommit(r)
  <2>1. Finish(r, req[r].other) /\ (req[r].other => IsPlan(plan))
    BY <1>3 DEF ReplaceCommit, IInv, FoundOK
  <2>2. household' \subseteq 1 .. MaxSaves /\ saves' \in 0 .. MaxSaves
    BY <1>3 DEF ReplaceCommit, IInv, TypeOK, Validated
  <2> QED
    BY <1>0, <2>1, <2>2, FinishOK, Ending DEF IInv, TypeOK
<1>4. ASSUME NEW c \in Countries, Region(r, c) PROVE IInv'
  <2>1. CountryCurrency[c] \in {CountryCurrency[d] : d \in Countries}
    OBVIOUS
  <2>2. user' \in UserRow /\ user'.onboarded = user.onboarded
    BY <1>4, <2>1 DEF Region, Written, IInv, TypeOK, UserRow
  <2>3. UNCHANGED <<household, saves, settings>>
    BY <1>4 DEF Region
  <2> QED
    BY <1>0, <2>2, <2>3, Ending DEF IInv, TypeOK
<1> QED
  BY <1>1, <1>2, <1>3, <1>4

-----------------------------------------------------------------------------
(* Types, and what every request has found, in all reachable states.       *)
THEOREM Inductive == ASSUME Validated PROVE Spec => []IInv
<1>1. Init => IInv
  BY Start
<1>2. IInv /\ [Next]_vars => IInv'
  <2>1. ASSUME IInv, Next PROVE IInv'
    BY <2>1, Reading, PlanSaved, OthersSaved DEF Next
  <2>2. CASE UNCHANGED vars
    BY <2>2 DEF vars, IInv, TypeOK, FoundOK
  <2> QED
    BY <2>1, <2>2
<1> QED
  BY <1>1, <1>2, PTL DEF Spec

(* Whoever is onboarded has a budget plan and cycle settings, so that the  *)
(* scheduler finds the user (ensure_settings_for_onboarding).              *)
THEOREM Complete == ASSUME Validated PROVE Spec => []OnboardedIsComplete
<1>1. IInv => OnboardedIsComplete
  BY PlanRows DEF IInv, OnboardedIsComplete
<1> QED
  BY <1>1, Inductive, PTL

(* Every variable keeps its type: what a handler writes of the row it had  *)
(* loaded fits the columns it leaves.                                      *)
THEOREM Types == ASSUME Validated PROVE Spec => []TypeOK
<1>1. IInv => TypeOK
  BY DEF IInv
<1> QED
  BY <1>1, Inductive, PTL

(* The household that was saved last is there: the members a request       *)
(* deletes are replaced by its own in the same transaction, so that only a *)
(* later save can end a household (replace_household).                     *)
THEOREM LastKept == Spec => []LastHouseholdKept
<1> DEFINE Last == LastHouseholdKept
<1>1. Init => Last
  BY DEF Init, LastHouseholdKept
<1>2. Last /\ [Next]_vars => Last'
  <2> SUFFICES ASSUME Last, [Next]_vars PROVE Last'
    OBVIOUS
  <2>1. ASSUME NEW r \in Requests, ReplaceCommit(r) PROVE Last'
    BY <2>1 DEF ReplaceCommit, LastHouseholdKept
  <2>2. CASE UNCHANGED <<household, saves>>
    BY <2>2 DEF LastHouseholdKept
  <2> QED
    BY <2>1, <2>2
       DEF Next, vars, Authenticate, Create, CreateCommit, Upsert,
           UpsertFlush, UpsertFails, UpsertCommit, ReplaceStart,
           ReplaceCheck, Region, FindSettings, CreateSettings,
           ChangeSettings, Abandon
<1> QED
  BY <1>1, <1>2, PTL DEF Spec

(* Settings the user has changed are never replaced by the defaults of a   *)
(* handler that found none before (ON CONFLICT DO NOTHING).                *)
THEOREM ChangesKept == Spec => SettingsKept
<1> DEFINE A == settings = "changed" => settings' = "changed"
<1>1. [Next]_vars => [A]_vars
  <2>1. ASSUME NEW r \in Requests, NEW found, Finish(r, found) PROVE A
    BY <2>1 DEF Finish, Ensured
  <2> QED
    BY <2>1
       DEF Next, Authenticate, Create, CreateCommit, Upsert, UpsertFlush,
           UpsertFails, UpsertCommit, ReplaceStart, ReplaceCheck,
           ReplaceCommit, Region, FindSettings, CreateSettings, Ensured,
           ChangeSettings, Abandon
<1> HIDE DEF A
<1>2. Spec => [][A]_vars
  BY <1>1, PTL DEF Spec
<1> QED
  BY <1>2 DEF A, SettingsKept
=============================================================================
