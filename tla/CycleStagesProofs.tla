-------------------------- MODULE CycleStagesProofs --------------------------
(***************************************************************************)
(* Proofs about CycleStages, for every number of cycles and requests and   *)
(* every policy that PolicyAssumption allows.                              *)
(***************************************************************************)
EXTENDS CycleStages, TLAPS

-----------------------------------------------------------------------------
(* Dates.  Products are kept away from the provers: the proofs below see   *)
(* c * CycleDays through these lemmas only.                                *)

LEMMA Policy ==
    /\ MaxCycle \in Nat /\ MaxCycle >= 1 /\ CycleDays \in Nat /\ CycleDays >= 2
    /\ GenerateLead \in Nat /\ DraftLead \in Nat /\ DraftLead >= 1
    /\ DraftLead <= GenerateLead /\ GenerateLead < CycleDays
  BY PolicyAssumption

(* Delivery days are CycleDays apart.                                      *)
LEMMA NextDelivery ==
    ASSUME NEW c \in Nat
    PROVE  /\ c * CycleDays \in Nat
           /\ (c + 1) * CycleDays = c * CycleDays + CycleDays
           /\ (c + 2) * CycleDays = c * CycleDays + CycleDays + CycleDays
  BY Policy

(* A later cycle has a later delivery day.                                 *)
LEMMA DeliveriesInOrder ==
    ASSUME NEW b \in Nat, NEW c \in Nat, b <= c
    PROVE  b * CycleDays <= c * CycleDays
<1>1. PICK k \in Nat : c = b + k
  <2>1. c - b \in Nat /\ c = b + (c - b)
    OBVIOUS
  <2> QED
    BY <2>1
<1>2. k * CycleDays \in Nat /\ b * CycleDays \in Nat
  BY NextDelivery
<1>3. (b + k) * CycleDays = b * CycleDays + k * CycleDays
  BY Policy
<1> QED
  BY <1>1, <1>2, <1>3

(* Division rounded up.                                                    *)
LEMMA Quotient ==
    ASSUME NEW d \in Nat
    PROVE  /\ d \div CycleDays \in Nat
           /\ (d \div CycleDays) * CycleDays <= d
           /\ d < ((d \div CycleDays) + 1) * CycleDays
  BY Policy, SMT

WindowOf(d) == (d + CycleDays - 1) \div CycleDays

(* The next delivery is one of the cycles, today or later, and less than   *)
(* CycleDays away.                                                         *)
LEMMA WindowOfDay ==
    ASSUME NEW d \in 1 .. MaxCycle * CycleDays
    PROVE  /\ WindowOf(d) \in Cycles
           /\ d <= WindowOf(d) * CycleDays
           /\ WindowOf(d) * CycleDays < d + CycleDays
<1> DEFINE q == (d + CycleDays - 1) \div CycleDays
<1>0. MaxCycle * CycleDays \in Nat /\ d \in Nat /\ d >= 1
  BY Policy, NextDelivery
<1>1. d + CycleDays - 1 \in Nat
  BY <1>0, Policy
<1>2. /\ q \in Nat
      /\ q * CycleDays <= d + CycleDays - 1
      /\ d + CycleDays - 1 < (q + 1) * CycleDays
  BY <1>1, Quotient
<1> HIDE DEF q
<1>3. q * CycleDays \in Nat /\ (q + 1) * CycleDays = q * CycleDays + CycleDays
  BY <1>2, NextDelivery
<1>4. d <= q * CycleDays /\ q * CycleDays < d + CycleDays
  BY <1>0, <1>2, <1>3, Policy
<1>5. q >= 1
  <2>1. SUFFICES ASSUME q = 0 PROVE FALSE
    BY <1>2
  <2>2. q * CycleDays = 0
    BY <2>1, Policy
  <2> QED
    BY <1>0, <1>4, <2>2
<1>6. q <= MaxCycle
  <2>1. SUFFICES ASSUME MaxCycle + 1 <= q PROVE FALSE
    BY <1>2, Policy
  <2>2. (MaxCycle + 1) * CycleDays <= q * CycleDays
    BY <1>2, <2>1, Policy, DeliveriesInOrder
  <2>3. (MaxCycle + 1) * CycleDays = MaxCycle * CycleDays + CycleDays
    BY NextDelivery, Policy
  <2> QED
    BY <1>0, <1>3, <1>4, <2>2, <2>3, Policy
<1> QED
  BY <1>2, <1>4, <1>5, <1>6, Policy DEF q, WindowOf, Cycles

(* The window is the delivery of today or the next one.                    *)
LEMMA WindowIsNext ==
    ASSUME today \in 1 .. MaxCycle * CycleDays
    PROVE  /\ Window \in Cycles
           /\ today <= Window * CycleDays
           /\ Window * CycleDays < today + CycleDays
  BY WindowOfDay DEF Window, WindowOf

(* The days that generation and draft are booked for are days of the       *)
(* calendar, and come in this order.                                       *)
LEMMA BookedDays ==
    ASSUME NEW c \in Cycles
    PROVE  /\ GenerationAt(c) \in Days /\ DraftAt(c) \in Days
           /\ NextGenerationAt(c) \in Days
           /\ DraftAt(c) < NextGenerationAt(c)
           /\ GenerationAt(c) < NextGenerationAt(c)
<1>1. /\ c * CycleDays \in Nat /\ (c + 1) * CycleDays = c * CycleDays + CycleDays
      /\ c \in Nat /\ 1 <= c /\ c <= MaxCycle
  BY NextDelivery, Policy DEF Cycles
<1>2. 1 * CycleDays <= c * CycleDays /\ c * CycleDays <= MaxCycle * CycleDays
  BY <1>1, DeliveriesInOrder, Policy
<1>3. /\ (MaxCycle + 2) * CycleDays
              = MaxCycle * CycleDays + CycleDays + CycleDays
      /\ MaxCycle * CycleDays \in Nat
      /\ 1 * CycleDays = CycleDays
  BY NextDelivery, Policy
<1> QED
  BY <1>1, <1>2, <1>3, Policy
     DEF GenerationAt, DraftAt, NextGenerationAt, Days

InReach(d) == d <= NextGenerationAt(Window)

(* Nothing that is booked for the next delivery, for tomorrow or from the  *)
(* profile of the schedule is later than the generation after it.          *)
LEMMA InReachOfWindow ==
    ASSUME today \in 1 .. MaxCycle * CycleDays
    PROVE  /\ InReach(NextGenerationAt(Window)) /\ InReach(DraftAt(Window))
           /\ InReach(DeferredUntil) /\ DeferredUntil \in Days
           /\ InReach(today) /\ today \in Days
           /\ InReach(LaterOf(DraftAt(Window), today))
           /\ LaterOf(DraftAt(Window), today) \in Days
<1>1. /\ Window \in Cycles /\ today <= Window * CycleDays
      /\ Window * CycleDays < today + CycleDays
  BY WindowIsNext
<1>2. /\ NextGenerationAt(Window) \in Days /\ DraftAt(Window) \in Days
      /\ DraftAt(Window) < NextGenerationAt(Window)
  BY <1>1, BookedDays
<1>3. /\ (Window + 1) * CycleDays = Window * CycleDays + CycleDays
      /\ Window * CycleDays \in Nat
      /\ (MaxCycle + 2) * CycleDays
              = MaxCycle * CycleDays + CycleDays + CycleDays
      /\ MaxCycle * CycleDays \in Nat
  BY <1>1, NextDelivery, Policy DEF Cycles
<1>4. today + 1 <= NextGenerationAt(Window)
  BY <1>1, <1>3, Policy DEF NextGenerationAt, GenerationAt
<1>5. today \in Days /\ today + 1 \in Days
  BY <1>3, Policy DEF Days
<1> QED
  BY <1>2, <1>4, <1>5 DEF InReach, DeferredUntil, LaterOf, Days

(* InitialNextRun gives the first generation time that has not passed.     *)
LEMMA InitialInReach ==
    ASSUME today \in 1 .. MaxCycle * CycleDays, NEW when, InitialNextRun(when)
    PROVE  InReach(when)
<1>1. /\ Window \in Cycles /\ today <= Window * CycleDays
  BY WindowIsNext
<1>2. PICK c \in 1 .. MaxCycle + 2 :
          when = GenerationAt(c) /\ GenerationAt(c - 1) <= today
  BY DEF InitialNextRun
<1>3. c - 1 \in Nat /\ c = (c - 1) + 1 /\ Window \in Nat
  BY <1>1, Policy DEF Cycles
<1>4. c * CycleDays = (c - 1) * CycleDays + CycleDays
  BY <1>3, NextDelivery
<1>5. c <= Window + 1
  <2>1. SUFFICES ASSUME Window + 1 <= c - 1 PROVE FALSE
    BY <1>3
  <2>2. (Window + 1) * CycleDays <= (c - 1) * CycleDays
    BY <1>3, <2>1, DeliveriesInOrder
  <2>3. /\ (Window + 1) * CycleDays = Window * CycleDays + CycleDays
        /\ Window * CycleDays \in Nat /\ (c - 1) * CycleDays \in Nat
    BY <1>3, NextDelivery
  <2> QED
    BY <1>1, <1>2, <2>2, <2>3, Policy DEF GenerationAt
<1>6. c * CycleDays <= (Window + 1) * CycleDays
  BY <1>3, <1>5, DeliveriesInOrder
<1>7. c * CycleDays \in Nat /\ (Window + 1) * CycleDays \in Nat
  BY <1>3, NextDelivery
<1> QED
  BY <1>2, <1>6, <1>7, Policy DEF InReach, NextGenerationAt, GenerationAt

(* From one day to the next the next delivery does not move back.          *)
LEMMA WindowAdvances ==
    ASSUME today \in 1 .. MaxCycle * CycleDays,
           today' \in 1 .. MaxCycle * CycleDays, today' = today + 1
    PROVE  NextGenerationAt(Window) <= NextGenerationAt(Window)'
<1> DEFINE w == WindowOf(today)
           v == WindowOf(today')
<1>1. /\ w \in Cycles /\ w * CycleDays < today + CycleDays
      /\ v \in Cycles /\ today + 1 <= v * CycleDays
  BY WindowOfDay
<1>2. Window = w /\ Window' = v
  BY DEF Window, WindowOf
<1> HIDE DEF w, v
<1>3. w \in Nat /\ v \in Nat /\ MaxCycle * CycleDays \in Nat
  BY <1>1, Policy, NextDelivery DEF Cycles
<1>4. /\ v * CycleDays \in Nat /\ w * CycleDays \in Nat
      /\ (v + 1) * CycleDays = v * CycleDays + CycleDays
      /\ (w + 1) * CycleDays = w * CycleDays + CycleDays
  BY <1>3, NextDelivery
<1>5. w <= v
  <2>1. SUFFICES ASSUME v + 1 <= w PROVE FALSE
    BY <1>3
  <2>2. (v + 1) * CycleDays <= w * CycleDays
    BY <1>3, <2>1, DeliveriesInOrder
  <2> QED
    BY <1>1, <1>3, <1>4, <2>2, Policy
<1>6. w * CycleDays <= v * CycleDays
  BY <1>3, <1>5, DeliveriesInOrder
<1> QED
  BY <1>2, <1>4, <1>6, Policy DEF NextGenerationAt, GenerationAt

-----------------------------------------------------------------------------
(* The inductive invariant.  A background task exists for the plan of the  *)
(* next delivery only, and while it does the scan cannot start another:    *)
(* the stage says "generated", or the cycle is skipped, or the attempt     *)
(* that a retry asks for has not been booked.  The same holds while the    *)
(* generation stage has published the row and not yet the plan.  What      *)
(* requests and the draft stage are about to write was read today.         *)

HasJob(c) == running[c] + finishing[c] > 0

ReachOK ==
    /\ InReach(setting.nextRun)
    /\ \A r \in Requests :
          request[r].at # "idle" =>
              request[r].cycle = Window /\ InReach(request[r].nextRun)
    /\ draft.at # "idle" => draft.cycle = Window

NoRetry == setting.stage = "generated" \/ setting.skipUntil = Window

JobsOK ==
    \A c \in Cycles :
        /\ running[c] + finishing[c] <= 1
        /\ HasJob(c) =>
              /\ c = Window /\ setting.generated = c
              /\ NoRetry \/ (setting.attempts # 1 /\ draft.at = "idle")

GapOK ==
    generation.at # "idle" =>
        /\ generation.cycle = Window /\ setting.generated = Window
        /\ NoRetry /\ draft.at = "idle"
        /\ \A c \in Cycles : running[c] = 0 /\ finishing[c] = 0

IInv == TypeOK /\ ReachOK /\ JobsOK /\ GapOK

(* The columns of the row.                                                 *)
LEMMA SettingFields ==
    ASSUME setting \in Setting
    PROVE  /\ setting.enabled \in BOOLEAN /\ setting.stage \in Stages
           /\ setting.attempts \in 0 .. AttemptsTop
           /\ setting.generated \in 0 .. MaxCycle
           /\ setting.skipUntil \in 0 .. MaxCycle
           /\ setting.nextRun \in Days
  BY DEF Setting

(* The counter of attempts.                                                *)
LEMMA Attempts ==
    /\ RetryLimit \in Nat /\ RetryLimit >= 1
    /\ AttemptsTop \in Nat /\ AttemptsTop >= 2 /\ AttemptsTop > RetryLimit
    /\ 0 \in 0 .. AttemptsTop /\ 1 \in 0 .. AttemptsTop
    /\ 2 \in 0 .. AttemptsTop
  BY PolicyAssumption DEF AttemptsTop

(* Cycles are among the values of skip_until.                              *)
LEMMA CycleIsNumber == Cycles \subseteq 0 .. MaxCycle
  BY Policy DEF Cycles

(* What is there at the start has a type.                                  *)
LEMMA Nothing == 0 \in Days /\ 1 \in Cycles /\ NoRequest \in Request
<1>1. 0 \in Days
  <2>1. (MaxCycle + 2) * CycleDays \in Nat
    BY NextDelivery, Policy
  <2> QED
    BY <2>1 DEF Days
<1>2. 1 \in Cycles
  BY Policy DEF Cycles
<1> QED
  BY <1>1, <1>2 DEF NoRequest, Request

(* The forms in which the steps write the settings row.                    *)
LEMMA Booking ==
    ASSUME setting \in Setting, NEW st \in Stages, NEW d \in Days,
           NEW n \in 0 .. AttemptsTop, NEW c \in Cycles
    PROVE  /\ [setting EXCEPT !.nextRun = d] \in Setting
           /\ [setting EXCEPT !.stage = st, !.nextRun = d] \in Setting
           /\ [setting EXCEPT !.attempts = n, !.nextRun = d] \in Setting
           /\ [setting EXCEPT !.stage = st, !.attempts = n, !.nextRun = d]
                 \in Setting
           /\ [setting EXCEPT !.attempts = n, !.stage = st, !.nextRun = d]
                 \in Setting
           /\ [setting EXCEPT !.stage = st, !.attempts = n, !.generated = c,
                              !.nextRun = d] \in Setting
           /\ [setting EXCEPT !.skipUntil = c, !.stage = st, !.attempts = n,
                              !.nextRun = d] \in Setting
  BY CycleIsNumber DEF Setting

(* At the start nothing is under way.                                      *)
LEMMA InitOK == Init => IInv
<1> SUFFICES ASSUME Init PROVE IInv
  OBVIOUS
<1>1. 1 \in Cycles /\ 1 * CycleDays = CycleDays /\ 0 \in Days
  BY Policy, NextDelivery, BookedDays DEF Cycles, Days
<1>2. today \in 1 .. MaxCycle * CycleDays
  <2>1. 1 * CycleDays <= MaxCycle * CycleDays /\ MaxCycle * CycleDays \in Nat
    BY DeliveriesInOrder, NextDelivery, Policy
  <2> QED
    BY <1>1, <2>1, Policy DEF Init
<1>3. Window \in Cycles /\ Window * CycleDays < 1 + CycleDays
  BY <1>2, WindowIsNext DEF Init
<1>4. TypeOK
  <2>1. setting \in Setting
    BY <1>1, BookedDays, Attempts, Policy DEF Init, Setting, Stages
  <2>2. request \in [Requests -> Request]
    BY <1>1 DEF Init, Request, NoRequest
  <2> QED
    BY <1>1, <1>2, <2>1, <2>2, PolicyAssumption
       DEF Init, TypeOK, Plan, OrderStates, NoDraft, NoGeneration
<1>5. ReachOK
  <2>1. Window \in Nat /\ Window >= 1
    BY <1>3 DEF Cycles
  <2>2. 1 * CycleDays <= Window * CycleDays /\ Window * CycleDays \in Nat
    BY <2>1, DeliveriesInOrder, NextDelivery
  <2>3. (Window + 1) * CycleDays = Window * CycleDays + CycleDays
    BY <2>1, NextDelivery
  <2> QED
    BY <1>1, <2>2, <2>3, Policy
       DEF Init, ReachOK, InReach, GenerationAt, NextGenerationAt, NoRequest,
           NoDraft
<1>6. JobsOK /\ GapOK
  BY DEF Init, JobsOK, HasJob, GapOK, NoGeneration
<1> QED
  BY <1>4, <1>5, <1>6 DEF IInv

-----------------------------------------------------------------------------
(* Every step keeps the types.                                             *)

LEMMA GenerationTypes ==
    ASSUME TypeOK, GenerationStage
    PROVE  TypeOK'
<1>0. /\ Window \in Cycles /\ Window \in 0 .. MaxCycle
      /\ NextGenerationAt(Window) \in Days
      /\ DraftAt(Window) \in Days /\ DeferredUntil \in Days
  BY WindowIsNext, BookedDays, InReachOfWindow, CycleIsNumber DEF TypeOK
<1>1. order' \in [Cycles -> OrderStates]
  <2>1. ExpireOlder => order' \in [Cycles -> OrderStates]
    BY DEF ExpireOlder, TypeOK, OrderStates
  <2> QED
    BY <2>1 DEF GenerationStage, GenerateSkipped, GenerateRetry, GenerateAgain,
                GenerateDeferred, GenerateDormant, Generate, GenerateCleared,
                GeneratePlan, GenerateGivenUp, TypeOK
<1>2. setting' \in Setting
  <2> USE <1>0, Attempts, Booking DEF TypeOK, Stages
  <2>1. CASE GenerateSkipped
    BY <2>1 DEF GenerateSkipped
  <2>2. CASE GenerateRetry
    BY <2>2 DEF GenerateRetry
  <2>3. CASE GenerateAgain
    BY <2>3 DEF GenerateAgain
  <2>4. CASE GenerateDeferred
    BY <2>4 DEF GenerateDeferred
  <2>5. CASE GenerateDormant
    BY <2>5 DEF GenerateDormant
  <2>6. CASE Generate \/ GenerateCleared
    <3>1. setting' = Generated
      BY <2>6 DEF Generate, GenerateCleared
    <3>2. "generated" \in Stages /\ 0 \in 0 .. AttemptsTop /\ setting \in Setting
      OBVIOUS
    <3>3. Generated \in Setting
      BY <1>0, <3>2, Booking DEF Generated
    <3> QED
      BY <3>1, <3>3
  <2>7. CASE GeneratePlan \/ GenerateGivenUp
    BY <2>7 DEF GeneratePlan, GenerateGivenUp
  <2> QED
    BY <2>1, <2>2, <2>3, <2>4, <2>5, <2>6, <2>7 DEF GenerationStage
<1>3. /\ plan' \in [Cycles -> Plan] /\ running' \in [Cycles -> Nat]
      /\ starts' \in 0 .. 3 /\ finishing' = finishing
  <2>1. CASE GenerateRetry \/ Generate \/ GeneratePlan
    <3>1. plan' \in [Cycles -> Plan]
      <4>1. /\ plan \in [Cycles -> Plan] /\ NewPlan \in Plan
            /\ [plan[Window] EXCEPT !.status = "processing"] \in Plan
        BY <1>0 DEF TypeOK, Plan, NewPlan
      <4>2. CASE GenerateRetry
        BY <1>0, <4>1, <4>2 DEF GenerateRetry
      <4>3. CASE Generate \/ GeneratePlan
        BY <1>0, <4>1, <4>3 DEF Generate, GeneratePlan
      <4> QED
        BY <2>1, <4>2, <4>3
    <3>2. /\ running' \in [Cycles -> Nat] /\ starts' \in 0 .. 3
          /\ finishing' = finishing
      BY <1>0, <2>1
         DEF TypeOK, GenerateRetry, Generate, GeneratePlan, StartJob
    <3> QED
      BY <3>1, <3>2
  <2>2. CASE GenerateCleared
    <3>1. \A c \in Cycles : [plan[c] EXCEPT !.status = "failed"] \in Plan
      BY DEF TypeOK, Plan
    <3>2. plan' \in [Cycles -> Plan]
      BY <2>2, <3>1 DEF GenerateCleared, TypeOK
    <3> QED
      BY <2>2, <3>2 DEF GenerateCleared, TypeOK, jobVars
  <2>3. CASE ~ (GenerateRetry \/ Generate \/ GeneratePlan \/ GenerateCleared)
    BY <2>3 DEF TypeOK, GenerationStage, GenerateSkipped, GenerateAgain,
                GenerateDeferred, GenerateDormant, GenerateGivenUp, jobVars
  <2> QED
    BY <2>1, <2>2, <2>3
<1>4. /\ UNCHANGED <<today, draft, request, crashes>>
      /\ generation' \in {generation, [at |-> "cleared", cycle |-> Window],
                          NoGeneration}
  BY DEF GenerationStage, GenerateSkipped, GenerateRetry, GenerateAgain,
         GenerateDeferred, GenerateDormant, Generate, GenerateCleared,
         GeneratePlan, GenerateGivenUp
<1>5. generation' \in [at : {"idle", "cleared"}, cycle : Cycles]
  BY <1>0, <1>4, Nothing DEF TypeOK, NoGeneration
<1> QED
  BY <1>1, <1>2, <1>3, <1>4, <1>5 DEF TypeOK

(* ... of a job, a plan or an order, ...                                   *)
LEMMA JobTypes ==
    ASSUME TypeOK, NEW c \in Cycles,
           \/ RunJob(c) \/ FinishJob(c) \/ Age(c) \/ ReadPlan(c)
           \/ CancelOrder(c)
    PROVE  TypeOK'
<1>1. CASE RunJob(c)
  <2>1. running' \in [Cycles -> Nat] /\ finishing' \in [Cycles -> Nat]
    BY <1>1 DEF RunJob, TypeOK
  <2>2. plan' \in [Cycles -> Plan]
    BY <1>1 DEF RunJob, TypeOK, Plan
  <2> QED
    BY <1>1, <2>1, <2>2 DEF RunJob, TypeOK
<1>2. CASE FinishJob(c)
  <2>1. setting' \in Setting
    <3>1. /\ NextGenerationAt(c) \in Days /\ DraftAt(c) \in Days
          /\ today \in Days /\ DeferredUntil \in Days
      BY BookedDays, InReachOfWindow DEF TypeOK
    <3>2. LaterOf(DraftAt(c), today) \in Days
      BY <3>1 DEF LaterOf
    <3> QED
      BY <1>2, <3>1, <3>2, Booking, Attempts DEF FinishJob, TypeOK, Stages
  <2>2. finishing' \in [Cycles -> Nat]
    BY <1>2 DEF FinishJob, TypeOK
  <2> QED
    BY <1>2, <2>1, <2>2 DEF FinishJob, TypeOK
<1>3. CASE Age(c) \/ ReadPlan(c)
  <2>1. plan' \in [Cycles -> Plan]
    <3>1. /\ plan \in [Cycles -> Plan]
          /\ [plan[c] EXCEPT !.aged = TRUE] \in Plan
          /\ [plan[c] EXCEPT !.status = "failed"] \in Plan
      BY DEF TypeOK, Plan
    <3> QED
      BY <1>3, <3>1 DEF Age, ReadPlan
  <2> QED
    BY <1>3, <2>1 DEF Age, ReadPlan, TypeOK, jobVars
<1>4. CASE CancelOrder(c)
  BY <1>4 DEF CancelOrder, TypeOK, OrderStates, jobVars
<1> QED
  BY <1>1, <1>2, <1>3, <1>4

(* ... of the draft stage, ...                                             *)
LEMMA DraftTypes ==
    ASSUME TypeOK, DraftStage
    PROVE  TypeOK'
<1>0. /\ Window \in Cycles /\ draft.cycle \in Cycles /\ today \in Days
      /\ NextGenerationAt(draft.cycle) \in Days /\ 1 \in Cycles
  BY WindowIsNext, InReachOfWindow, BookedDays, Policy DEF TypeOK, Cycles
<1>1. CASE DraftBegin
  BY <1>0, <1>1 DEF DraftBegin, TypeOK, jobVars
<1>2. CASE DraftCommit
  <2>1. setting' \in Setting
    BY <1>0, <1>2, Attempts, Booking DEF DraftCommit, TypeOK, Stages
  <2>2. order' \in [Cycles -> OrderStates]
    BY <1>0, <1>2 DEF DraftCommit, TypeOK, OrderStates
  <2> QED
    BY <1>0, <1>2, <2>1, <2>2 DEF DraftCommit, TypeOK, NoDraft, jobVars
<1>3. CASE DraftFail
  BY <1>0, <1>3 DEF DraftFail, TypeOK, jobVars
<1>4. CASE DraftRetry
  <2>1. setting' \in Setting
    <3> DEFINE attempts == IF setting.attempts < AttemptsTop
                           THEN setting.attempts + 1 ELSE AttemptsTop
    <3>1. attempts \in 0 .. AttemptsTop
      BY Attempts, SettingFields DEF TypeOK
    <3> QED
      BY <1>0, <1>4, <3>1, Booking DEF DraftRetry, TypeOK, Stages
  <2> QED
    BY <1>0, <1>4, <2>1 DEF DraftRetry, TypeOK, NoDraft, jobVars
<1> QED
  BY <1>1, <1>2, <1>3, <1>4 DEF DraftStage

(* ... of a request, ...                                                   *)
LEMMA RequestTypes ==
    ASSUME TypeOK, NEW r \in Requests, RequestStep(r)
    PROVE  TypeOK'
<1>0. /\ Window \in Cycles /\ NextGenerationAt(Window) \in Days
      /\ request[r] \in Request /\ NoRequest \in Request
  BY WindowIsNext, BookedDays, Nothing DEF TypeOK
<1>1. CASE SkipRead(r)
  BY <1>0, <1>1 DEF SkipRead, TypeOK, Request, Columns, jobVars
<1>2. CASE SkipCommit(r)
  <2>1. setting' \in Setting
    <3>1. /\ request[r].cycle \in Cycles /\ request[r].nextRun \in Days
          /\ setting.stage \in Stages /\ setting.nextRun \in Days
          /\ setting.attempts \in 0 .. AttemptsTop
      BY <1>0, SettingFields DEF TypeOK, Request
    <3>2. "skipped_user" \in Stages
      BY DEF Stages
    <3> QED
      BY <1>2, <3>1, <3>2, Attempts, Booking DEF SkipCommit, TypeOK
  <2>2. order' \in [Cycles -> OrderStates]
    BY <1>2 DEF SkipCommit, TypeOK, OrderStates
  <2> QED
    BY <1>0, <1>2, <2>1, <2>2 DEF SkipCommit, TypeOK, jobVars
<1>3. CASE RescheduleRead(r)
  BY <1>0, <1>3 DEF RescheduleRead, TypeOK, Request, Columns, jobVars
<1>4. CASE RescheduleCommit(r)
  <2>1. setting' \in Setting
    BY <1>0, <1>4 DEF RescheduleCommit, TypeOK, Setting, Request
  <2> QED
    BY <1>0, <1>4, <2>1 DEF RescheduleCommit, TypeOK, jobVars
<1> QED
  BY <1>1, <1>2, <1>3, <1>4 DEF RequestStep

(* ... of the user, the clock and a restart.                               *)
LEMMA OtherTypes ==
    ASSUME TypeOK, SetEnabled \/ ConfirmOrder \/ NextDay \/ Crash
    PROVE  TypeOK'
<1>1. CASE SetEnabled
  BY <1>1 DEF SetEnabled, TypeOK, Setting, jobVars
<1>2. CASE ConfirmOrder
  BY <1>2 DEF ConfirmOrder, TypeOK, OrderStates, jobVars
<1>3. CASE NextDay
  <2>1. plan' \in [Cycles -> Plan]
    BY <1>3 DEF NextDay, TypeOK, Plan
  <2>2. today' \in 1 .. MaxCycle * CycleDays
    <3>1. MaxCycle * CycleDays \in Nat
      BY Policy, NextDelivery
    <3> QED
      BY <1>3, <3>1 DEF NextDay, TypeOK
  <2> QED
    BY <1>3, <2>1, <2>2 DEF NextDay, TypeOK, jobVars
<1>4. CASE Crash
  BY <1>4, Nothing, PolicyAssumption DEF Crash, TypeOK, NoDraft, NoGeneration
<1> QED
  BY <1>1, <1>2, <1>3, <1>4

-----------------------------------------------------------------------------
(* Every step but NextDay leaves the day alone, and with it what is in     *)
(* reach.                                                                  *)

LEMMA SameDay ==
    ASSUME UNCHANGED today
    PROVE  /\ Window' = Window
           /\ NextGenerationAt(Window)' = NextGenerationAt(Window)
  BY DEF Window, NextGenerationAt, GenerationAt

(* While a job runs the scan has nothing to start.                         *)
LEMMA NoJobToRepeat ==
    ASSUME TypeOK, JobsOK, GenerationDue, setting.skipUntil # Window,
           Retryable \/ setting.generated # Window
    PROVE  \A c \in Cycles : /\ ~ HasJob(c)
                             /\ running[c] = 0 /\ finishing[c] = 0
<1>1. \A c \in Cycles : ~ HasJob(c)
  BY DEF GenerationDue, DraftDue, JobsOK, NoRetry, Retryable
<1>2. \A c \in Cycles : running[c] \in Nat /\ finishing[c] \in Nat
  BY DEF TypeOK
<1> QED
  BY <1>1, <1>2 DEF HasJob

(* The generation stage starts a job only where there is none ...          *)
LEMMA GenerationKeeps ==
    ASSUME IInv, GenerationStage, generation.at = "idle"
    PROVE  ReachOK' /\ JobsOK' /\ GapOK'
<1>0. /\ TypeOK /\ ReachOK /\ JobsOK /\ Window \in Cycles
      /\ draft.at = "idle" /\ GenerationDue
      /\ UNCHANGED <<today, draft, request, finishing>>
      /\ ~ GeneratePlan /\ ~ GenerateGivenUp
  BY DEF IInv, GenerationStage, GenerateSkipped, GenerateRetry, GenerateAgain,
         GenerateDeferred, GenerateDormant, Generate, GenerateCleared,
         GeneratePlan, GenerateGivenUp, GenerationDue, Due, jobVars, StartJob
<1>1. /\ Window' = Window
      /\ NextGenerationAt(Window)' = NextGenerationAt(Window)
  BY <1>0, SameDay
<1>2. /\ InReach(NextGenerationAt(Window)) /\ InReach(DraftAt(Window))
      /\ InReach(DeferredUntil)
  BY <1>0, InReachOfWindow DEF TypeOK
<1>3. ReachOK'
  <2>1. setting'.nextRun \in {NextGenerationAt(Window), DraftAt(Window),
                              DeferredUntil}
    BY <1>0 DEF TypeOK, Setting, GenerationStage, GenerateSkipped,
                GenerateRetry, GenerateAgain, GenerateDeferred,
                GenerateDormant, Generate, GenerateCleared, Generated
  <2> QED
    BY <1>0, <1>1, <1>2, <2>1 DEF ReachOK, InReach
<1>4. JobsOK' /\ GapOK'
  <2> USE DEF JobsOK, HasJob, NoRetry, GapOK
  <2>1. CASE GenerateSkipped
    BY <1>0, <1>1, <2>1 DEF GenerateSkipped, TypeOK, Setting, jobVars
  <2>2. CASE GenerateRetry
    <3>1. \A c \in Cycles : running[c] = 0 /\ finishing[c] = 0
      BY <1>0, <2>2, NoJobToRepeat DEF GenerateRetry
    <3> QED
      BY <1>0, <1>1, <2>2, <3>1 DEF GenerateRetry, StartJob, TypeOK, Setting
  <2>3. CASE GenerateAgain
    BY <1>0, <1>1, <2>3
       DEF GenerateAgain, Retryable, TypeOK, Setting, jobVars
  <2>4. CASE GenerateDeferred
    <3>1. \A c \in Cycles : ~ HasJob(c)
      BY <1>0, <2>4, NoJobToRepeat DEF GenerateDeferred, Fresh
    <3> QED
      BY <1>0, <2>4, <3>1 DEF GenerateDeferred, jobVars
  <2>5. CASE GenerateDormant
    <3>1. \A c \in Cycles : ~ HasJob(c)
      BY <1>0, <2>5, NoJobToRepeat DEF GenerateDormant, Fresh
    <3> QED
      BY <1>0, <2>5, <3>1 DEF GenerateDormant, jobVars
  <2>6. CASE Generate
    <3>1. \A c \in Cycles : running[c] = 0 /\ finishing[c] = 0
      BY <1>0, <2>6, NoJobToRepeat DEF Generate, Fresh
    <3> QED
      BY <1>0, <1>1, <2>6, <3>1
         DEF Generate, Generated, StartJob, TypeOK, Setting
  <2>7. CASE GenerateCleared
    <3>1. \A c \in Cycles : running[c] = 0 /\ finishing[c] = 0
      BY <1>0, <2>7, NoJobToRepeat DEF GenerateCleared, Fresh
    <3> QED
      BY <1>0, <1>1, <2>7, <3>1
         DEF GenerateCleared, Generated, TypeOK, Setting, jobVars
  <2> QED
    BY <1>0, <2>1, <2>2, <2>3, <2>4, <2>5, <2>6, <2>7 DEF GenerationStage
<1> QED
  BY <1>3, <1>4

(* ... and so when it goes on after its first commit.                      *)
LEMMA GapKeeps ==
    ASSUME IInv, GenerationStage, generation.at # "idle"
    PROVE  ReachOK' /\ JobsOK' /\ GapOK'
<1>0. /\ TypeOK /\ ReachOK /\ JobsOK /\ GapOK
      /\ GeneratePlan \/ GenerateGivenUp
      /\ UNCHANGED <<today, setting, draft, request, finishing>>
      /\ generation' = NoGeneration
  BY DEF IInv, GenerationStage, GenerateSkipped, GenerateRetry, GenerateAgain,
         GenerateDeferred, GenerateDormant, Generate, GenerateCleared,
         GeneratePlan, GenerateGivenUp, GenerationDue, Due, jobVars, StartJob
<1>1. /\ Window' = Window
      /\ NextGenerationAt(Window)' = NextGenerationAt(Window)
  BY <1>0, SameDay
<1>2. ReachOK'
  BY <1>0, <1>1 DEF ReachOK, InReach
<1>3. GapOK'
  BY <1>0 DEF GapOK, NoGeneration
<1>4. \A c \in Cycles :
        /\ running'[c] \in {0, 1} /\ finishing'[c] = 0
        /\ running'[c] # 0 => c = Window
  BY <1>0 DEF GapOK, GeneratePlan, GenerateGivenUp, StartJob, jobVars, TypeOK
<1>5. JobsOK'
  BY <1>0, <1>1, <1>4 DEF JobsOK, HasJob, GapOK, NoRetry
<1> QED
  BY <1>2, <1>3, <1>5

(* A job that ends leaves none behind, and what it books is in reach.      *)
LEMMA JobKeeps ==
    ASSUME IInv, NEW c \in Cycles,
           \/ RunJob(c) \/ FinishJob(c) \/ Age(c) \/ ReadPlan(c)
           \/ CancelOrder(c)
    PROVE  ReachOK' /\ JobsOK' /\ GapOK'
<1>0. /\ TypeOK /\ ReachOK /\ JobsOK /\ GapOK
      /\ UNCHANGED <<today, draft, request, generation>>
  BY DEF IInv, RunJob, FinishJob, Age, ReadPlan, CancelOrder, jobVars
<1>1. /\ Window' = Window
      /\ NextGenerationAt(Window)' = NextGenerationAt(Window)
  BY <1>0, SameDay
<1>2. CASE RunJob(c)
  <2>1. ReachOK'
    BY <1>0, <1>1, <1>2 DEF RunJob, ReachOK, InReach
  <2>2. \A d \in Cycles : running'[d] + finishing'[d] = running[d] + finishing[d]
    BY <1>0, <1>2 DEF RunJob, TypeOK
  <2>3. JobsOK'
    BY <1>0, <1>1, <1>2, <2>2 DEF RunJob, JobsOK, HasJob, NoRetry
  <2>4. GapOK'
    BY <1>0, <1>2 DEF RunJob, GapOK
  <2> QED
    BY <2>1, <2>3, <2>4
<1>3. CASE FinishJob(c)
  <2>0. \A d \in Cycles : running[d] \in Nat /\ finishing[d] \in Nat
    BY <1>0 DEF TypeOK
  <2>1. /\ finishing[c] > 0 /\ running[c] = 0 /\ finishing[c] = 1
        /\ c = Window /\ setting.generated = c
        /\ \A d \in Cycles : d # c => running[d] = 0 /\ finishing[d] = 0
    BY <1>0, <1>3, <2>0 DEF FinishJob, JobsOK, HasJob
  <2>2. \A d \in Cycles : running'[d] = 0 /\ finishing'[d] = 0
    BY <1>0, <1>3, <2>1 DEF FinishJob, TypeOK
  <2>3. setting'.nextRun \in {NextGenerationAt(Window), DeferredUntil,
                              LaterOf(DraftAt(Window), today)}
    BY <1>0, <1>3, <2>1 DEF FinishJob, TypeOK, Setting
  <2>4. InReach(setting'.nextRun)
    BY <1>0, <2>3, InReachOfWindow DEF TypeOK
  <2>5. ReachOK'
    BY <1>0, <1>1, <2>4 DEF ReachOK, InReach
  <2>6. JobsOK'
    BY <2>2 DEF JobsOK, HasJob
  <2>7. GapOK'
    BY <1>0, <2>1 DEF GapOK
  <2> QED
    BY <2>5, <2>6, <2>7
<1>4. CASE Age(c) \/ ReadPlan(c) \/ CancelOrder(c)
  BY <1>0, <1>1, <1>4
     DEF Age, ReadPlan, CancelOrder, jobVars, ReachOK, InReach, JobsOK, HasJob,
         GapOK, NoRetry
<1> QED
  BY <1>2, <1>3, <1>4

(* The draft stage resets the count only when no job counts on it.         *)
LEMMA DraftKeeps ==
    ASSUME IInv, DraftStage
    PROVE  ReachOK' /\ JobsOK' /\ GapOK'
<1>0. /\ TypeOK /\ ReachOK /\ JobsOK
      /\ UNCHANGED <<today, request, running, finishing, generation>>
  BY DEF IInv, DraftStage, DraftBegin, DraftCommit, DraftFail, DraftRetry,
         jobVars
<1>1. /\ Window' = Window
      /\ NextGenerationAt(Window)' = NextGenerationAt(Window)
  BY <1>0, SameDay
<1>2. InReach(NextGenerationAt(Window)) /\ InReach(today)
  BY <1>0, InReachOfWindow DEF TypeOK
<1>3. GapOK'
  BY <1>0 DEF IInv, GapOK, DraftStage, DraftBegin, DraftDue, Due, DraftCommit,
              DraftFail, DraftRetry
<1>4. CASE DraftBegin
  BY <1>0, <1>1, <1>3, <1>4
     DEF DraftBegin, DraftDue, ReachOK, InReach, JobsOK, HasJob, NoRetry
<1>5. CASE DraftCommit
  <2>1. draft.cycle = Window
    BY <1>0, <1>5 DEF DraftCommit, ReachOK
  <2>2. /\ setting'.nextRun = NextGenerationAt(Window)
        /\ setting'.attempts = 0 /\ setting'.generated = setting.generated
        /\ draft'.at = "idle"
    BY <1>0, <1>5, <2>1 DEF DraftCommit, NoDraft, TypeOK, Setting
  <2>3. ReachOK'
    BY <1>0, <1>1, <1>2, <2>2 DEF ReachOK, InReach
  <2>4. JobsOK'
    BY <1>0, <1>1, <2>2 DEF JobsOK, HasJob
  <2> QED
    BY <1>3, <2>3, <2>4
<1>6. CASE DraftFail
  BY <1>0, <1>1, <1>3, <1>6
     DEF DraftFail, ReachOK, InReach, JobsOK, HasJob, NoRetry, TypeOK
<1>7. CASE DraftRetry
  <2>1. draft.cycle = Window /\ draft.at # "idle"
    BY <1>0, <1>7 DEF DraftRetry, ReachOK
  <2>2. /\ setting'.nextRun \in {today, NextGenerationAt(Window)}
        /\ setting'.generated = setting.generated
        /\ setting'.skipUntil = setting.skipUntil
        /\ draft'.at = "idle"
        /\ setting'.stage = setting.stage \/ setting'.attempts # 1
    <3> DEFINE attempts == IF setting.attempts < AttemptsTop
                           THEN setting.attempts + 1 ELSE AttemptsTop
    <3>1. attempts <= RetryLimit \/ attempts # 1
      BY <1>0, Attempts, SettingFields DEF TypeOK
    <3> QED
      BY <1>0, <1>7, <2>1, <3>1 DEF DraftRetry, NoDraft, TypeOK, Setting
  <2>3. ReachOK'
    BY <1>0, <1>1, <1>2, <2>2 DEF ReachOK, InReach
  <2>4. JobsOK'
    BY <1>0, <1>1, <2>1, <2>2 DEF JobsOK, HasJob, NoRetry
  <2> QED
    BY <1>3, <2>3, <2>4
<1> QED
  BY <1>3, <1>4, <1>5, <1>6, <1>7 DEF DraftStage

(* A request writes what it has computed, in reach of the window.          *)
LEMMA RequestKeeps ==
    ASSUME IInv, NEW r \in Requests, RequestStep(r)
    PROVE  ReachOK' /\ JobsOK' /\ GapOK'
<1>0. /\ TypeOK /\ ReachOK /\ JobsOK /\ GapOK
      /\ UNCHANGED <<today, draft, running, finishing, generation>>
  BY DEF IInv, RequestStep, SkipRead, SkipCommit, RescheduleRead,
         RescheduleCommit, jobVars
<1>1. /\ Window' = Window
      /\ NextGenerationAt(Window)' = NextGenerationAt(Window)
  BY <1>0, SameDay
<1>2. InReach(NextGenerationAt(Window)) /\ InReach(DraftAt(Window))
  BY <1>0, InReachOfWindow DEF TypeOK
<1>3. CASE SkipRead(r) \/ RescheduleRead(r)
  <2>1. /\ UNCHANGED setting
        /\ request'[r].cycle = Window /\ InReach(request'[r].nextRun)
        /\ \A s \in Requests : s # r => request'[s] = request[s]
    <3>1. CASE SkipRead(r)
      BY <1>0, <1>2, <3>1 DEF SkipRead, TypeOK
    <3>2. CASE RescheduleRead(r)
      BY <1>0, <1>2, <3>2, InitialInReach DEF RescheduleRead, TypeOK
    <3> QED
      BY <1>3, <3>1, <3>2
  <2>2. ReachOK'
    BY <1>0, <1>1, <2>1 DEF ReachOK, InReach
  <2>3. JobsOK'
    BY <1>0, <1>1, <2>1 DEF JobsOK, HasJob, NoRetry
  <2>4. GapOK'
    BY <1>0, <1>1, <2>1 DEF GapOK, NoRetry
  <2> QED
    BY <2>2, <2>3, <2>4
<1>4. CASE SkipCommit(r) \/ RescheduleCommit(r)
  <2>1. request[r].cycle = Window /\ InReach(request[r].nextRun)
    BY <1>0, <1>4 DEF SkipCommit, RescheduleCommit, ReachOK
  <2>2. /\ setting'.nextRun \in {setting.nextRun, request[r].nextRun}
        /\ setting'.generated = setting.generated
        /\ request' = [request EXCEPT ![r] = NoRequest]
    BY <1>0, <1>4 DEF SkipCommit, RescheduleCommit, TypeOK, Setting
  <2>3. ReachOK'
    BY <1>0, <1>1, <2>1, <2>2 DEF ReachOK, InReach, NoRequest, TypeOK
  <2>4. \/ setting'.skipUntil = Window
        \/ /\ setting'.skipUntil = setting.skipUntil
           /\ setting'.stage = setting.stage
           /\ setting'.attempts = setting.attempts
    BY <1>0, <1>4, <2>1 DEF SkipCommit, RescheduleCommit, TypeOK, Setting
  <2>5. JobsOK'
    BY <1>0, <1>1, <2>2, <2>4 DEF JobsOK, HasJob, NoRetry
  <2>6. GapOK'
    BY <1>0, <1>1, <2>2, <2>4 DEF GapOK, NoRetry
  <2> QED
    BY <2>3, <2>5, <2>6
<1> QED
  BY <1>3, <1>4 DEF RequestStep

(* A new day finds what is due done, a restart takes the jobs with it.     *)
LEMMA OtherKeeps ==
    ASSUME IInv, TypeOK', SetEnabled \/ ConfirmOrder \/ NextDay \/ Crash
    PROVE  ReachOK' /\ JobsOK' /\ GapOK'
<1>0. TypeOK /\ ReachOK /\ JobsOK /\ GapOK
  BY DEF IInv
<1>1. CASE SetEnabled \/ ConfirmOrder
  <2>1. /\ UNCHANGED <<today, draft, running, finishing, request, generation>>
        /\ setting'.nextRun = setting.nextRun
        /\ setting'.generated = setting.generated
        /\ setting'.skipUntil = setting.skipUntil
        /\ setting'.stage = setting.stage
        /\ setting'.attempts = setting.attempts
    BY <1>0, <1>1 DEF SetEnabled, ConfirmOrder, jobVars, TypeOK, Setting
  <2>2. /\ Window' = Window
        /\ NextGenerationAt(Window)' = NextGenerationAt(Window)
    BY <2>1, SameDay
  <2>3. ReachOK'
    BY <1>0, <2>1, <2>2 DEF ReachOK, InReach
  <2>4. JobsOK'
    BY <1>0, <2>1, <2>2 DEF JobsOK, HasJob, NoRetry
  <2>5. GapOK'
    BY <1>0, <2>1, <2>2 DEF GapOK, NoRetry
  <2> QED
    BY <2>3, <2>4, <2>5
<1>2. CASE NextDay
  <2>1. NextGenerationAt(Window) <= NextGenerationAt(Window)'
    BY <1>0, <1>2, WindowAdvances DEF NextDay, TypeOK
  <2>2. setting.nextRun \in Nat /\ setting.nextRun <= NextGenerationAt(Window)
    BY <1>0, SettingFields DEF ReachOK, InReach, TypeOK, Days
  <2>3. /\ NextGenerationAt(Window) \in Nat /\ NextGenerationAt(Window)' \in Nat
    <3>1. Window \in Cycles /\ Window' \in Cycles
      BY <1>0, WindowOfDay DEF Window, WindowOf, TypeOK
    <3>2. \A c \in Cycles : NextGenerationAt(c) \in Nat
      BY BookedDays DEF Days
    <3>3. NextGenerationAt(Window)' = NextGenerationAt(Window')
      BY DEF NextGenerationAt, GenerationAt
    <3> QED
      BY <3>1, <3>2, <3>3
  <2>4. ReachOK'
    BY <1>2, <2>1, <2>2, <2>3 DEF NextDay, ReachOK, InReach
  <2>5. JobsOK'
    BY <1>2 DEF NextDay, JobsOK, HasJob, jobVars
  <2>6. GapOK'
    BY <1>2 DEF NextDay, GapOK
  <2> QED
    BY <2>4, <2>5, <2>6
<1>3. CASE Crash
  <2>1. /\ Window' = Window
        /\ NextGenerationAt(Window)' = NextGenerationAt(Window)
    BY <1>3, SameDay DEF Crash
  <2>2. ReachOK'
    BY <1>0, <1>3, <2>1 DEF Crash, ReachOK, InReach, NoDraft, NoRequest
  <2>3. JobsOK'
    BY <1>3 DEF Crash, JobsOK, HasJob
  <2>4. GapOK'
    BY <1>3 DEF Crash, GapOK, NoGeneration
  <2> QED
    BY <2>2, <2>3, <2>4
<1> QED
  BY <1>1, <1>2, <1>3

(* Nothing changes nothing.                                                *)
LEMMA StutterKeeps ==
    ASSUME IInv, UNCHANGED vars
    PROVE  IInv'
<1>0. /\ UNCHANGED <<today, setting, plan, order, running, finishing,
                     generation, draft, request, starts, crashes>>
  BY DEF vars
<1>1. /\ Window' = Window
      /\ NextGenerationAt(Window)' = NextGenerationAt(Window)
  BY <1>0, SameDay
<1> QED
  BY <1>0, <1>1
     DEF IInv, TypeOK, ReachOK, InReach, JobsOK, HasJob, GapOK, NoRetry

(* The conjunction of the four parts is inductive.                         *)
THEOREM Inductive == Spec => []IInv
<1>1. Init => IInv
  BY InitOK
<1>2. IInv /\ [Next]_vars => IInv'
  <2> SUFFICES ASSUME IInv, [Next]_vars PROVE IInv'
    OBVIOUS
  <2>0. TypeOK
    BY DEF IInv
  <2>1. CASE GenerationStage
    <3>1. TypeOK'
      BY <2>0, <2>1, GenerationTypes
    <3>2. CASE generation.at = "idle"
      BY <2>1, <3>1, <3>2, GenerationKeeps DEF IInv
    <3>3. CASE generation.at # "idle"
      BY <2>1, <3>1, <3>3, GapKeeps DEF IInv
    <3> QED
      BY <3>2, <3>3
  <2>2. CASE DraftStage
    BY <2>0, <2>2, DraftTypes, DraftKeeps DEF IInv
  <2>3. ASSUME NEW c \in Cycles,
               \/ RunJob(c) \/ FinishJob(c) \/ Age(c) \/ ReadPlan(c)
               \/ CancelOrder(c)
        PROVE  IInv'
    BY <2>0, <2>3, JobTypes, JobKeeps DEF IInv
  <2>4. ASSUME NEW r \in Requests, RequestStep(r) PROVE IInv'
    BY <2>0, <2>4, RequestTypes, RequestKeeps DEF IInv
  <2>5. CASE SetEnabled \/ ConfirmOrder \/ NextDay \/ Crash
    <3>1. TypeOK'
      BY <2>0, <2>5, OtherTypes
    <3> QED
      BY <2>5, <3>1, OtherKeeps DEF IInv
  <2>6. CASE UNCHANGED vars
    BY <2>6, StutterKeeps
  <2> QED
    BY <2>1, <2>2, <2>3, <2>4, <2>5, <2>6 DEF Next
<1> QED
  BY <1>1, <1>2, PTL DEF Spec

-----------------------------------------------------------------------------
(* What follows from it.                                                   *)

(* Every variable has its type in every reachable state; with it, the days *)
(* that are booked are days of the calendar.                               *)
THEOREM Types == Spec => []TypeOK
<1>1. IInv => TypeOK
  BY DEF IInv
<1> QED
  BY <1>1, Inductive, PTL

(* A plan row is never generated by two background tasks at once: the      *)
(* retry of the scan waits for the task that finish_generation_job will    *)
(* end, whatever the draft stage, skips and restarts do in between.        *)
THEOREM OneTaskPerPlan == Spec => []OneJobPerPlan
<1>1. IInv => OneJobPerPlan
  BY DEF IInv, JobsOK, OneJobPerPlan
<1> QED
  BY <1>1, Inductive, PTL

(* next_run_at is never past the generation of the delivery after the next *)
(* one, whatever order the stages, job results, skips and changes of the   *)
(* schedule commit in.                                                     *)
THEOREM NoCycleSleptThrough == Spec => []NeverSleepsThroughCycle
<1>1. IInv => NeverSleepsThroughCycle
  BY DEF IInv, ReachOK, InReach, NeverSleepsThroughCycle
<1> QED
  BY <1>1, Inductive, PTL

(* Once a skip is committed, no stage decides to generate the skipped      *)
(* cycle, whatever the jobs and requests write after it; what starts is    *)
(* the plan of a stage that had published its decision before.             *)
THEOREM SkipHolds == Spec => SkipStopsGeneration
<1> DEFINE Decided(c) == generation = [at |-> "cleared", cycle |-> c]
           Step == \A c \in Cycles :
                       setting.skipUntil = c /\ running'[c] > running[c]
                          => Decided(c)
<1>1. TypeOK /\ [Next]_vars => [Step]_vars
  <2> SUFFICES ASSUME TypeOK, Next, NEW c \in Cycles, setting.skipUntil = c
               PROVE  running'[c] > running[c] => Decided(c)
    OBVIOUS
  <2>0. running[c] \in Nat
    BY DEF TypeOK
  <2>1. CASE GenerateRetry \/ Generate
    BY <2>0, <2>1 DEF GenerateRetry, Generate, Fresh, StartJob, TypeOK
  <2>2. CASE GenerateSkipped \/ GenerateAgain \/ GenerateDeferred
                \/ GenerateDormant \/ GenerateCleared \/ GenerateGivenUp
    BY <2>0, <2>2 DEF GenerateSkipped, GenerateAgain, GenerateDeferred,
                      GenerateDormant, GenerateCleared, GenerateGivenUp,
                      jobVars
  <2>3. CASE GeneratePlan
    <3>1. generation = [at |-> "cleared", cycle |-> generation.cycle]
      BY <2>3 DEF GeneratePlan, TypeOK
    <3>2. generation.cycle # c => running'[c] = running[c]
      BY <2>3 DEF GeneratePlan, StartJob, TypeOK
    <3> QED
      BY <2>0, <3>1, <3>2
  <2>4. CASE DraftStage
    BY <2>0, <2>4 DEF DraftStage, DraftBegin, DraftCommit, DraftFail,
                      DraftRetry, jobVars
  <2>5. ASSUME NEW d \in Cycles,
               \/ RunJob(d) \/ FinishJob(d) \/ Age(d) \/ ReadPlan(d)
               \/ CancelOrder(d)
        PROVE  ~ (running'[c] > running[c])
    BY <2>0, <2>5 DEF RunJob, FinishJob, Age, ReadPlan, CancelOrder, jobVars,
                      TypeOK
  <2>6. ASSUME NEW r \in Requests, RequestStep(r)
        PROVE  ~ (running'[c] > running[c])
    BY <2>0, <2>6 DEF RequestStep, SkipRead, SkipCommit, RescheduleRead,
                      RescheduleCommit, jobVars
  <2>7. CASE SetEnabled \/ ConfirmOrder \/ NextDay \/ Crash
    BY <2>0, <2>7 DEF SetEnabled, ConfirmOrder, NextDay, Crash, jobVars
  <2> QED
    BY <2>1, <2>2, <2>3, <2>4, <2>5, <2>6, <2>7
       DEF Next, GenerationStage
<1> QED
  BY <1>1, Types, PTL DEF Spec, SkipStopsGeneration

=============================================================================
