--------------------------- MODULE CycleCalendar ----------------------------
(***************************************************************************)
(* The calendar of the cycle: which day is delivered on, which cycle a     *)
(* moment belongs to and when its stages run, for both frequencies, every  *)
(* anchor weekday and users of several time zones, who may change all      *)
(* three (the date functions and update_settings of                        *)
(* backend/app/domains/cycle/service.py, the profiles of policy.py).       *)
(*                                                                         *)
(* Days are integers, day 0 a Sunday; moments are hours of UTC and a zone  *)
(* is its offset.  Every generation and draft succeeds here: what happens  *)
(* when one does not is the matter of CycleStages, whose uniform cycles    *)
(* this calendar justifies.                                                *)
(***************************************************************************)
EXTENDS Integers, CyclePolicy

CONSTANTS
    Step,         \* the scheduler looks every Step hours,
    MaxLate,      \* and is late by this much at most
    FirstDay,     \* bounds: the days that are explored,
    LastDay,
    MaxMoves      \* and how often the settings change

Anchors == 0 .. 6

VARIABLES
    now,          \* the hour
    schedule,     \* frequency, anchor_weekday and timezone of the settings
    nextRun,      \* next_run_at
    stage,        \* last_stage
    generated,    \* last_generated_cycle_start and the length of that plan
    ordered,      \* the cycles whose order was drafted
    moved,        \* history: the schedule changed since the last plan,
    moves         \* and how often it did

vars == <<now, schedule, nextRun, stage, generated, ordered, moved, moves>>

-----------------------------------------------------------------------------
(* Delivery days.                                                          *)

Weekday(d) == d % 7
DeliveryWeekdays(s) ==
    IF s.frequency = "biweekly" THEN {s.anchor, (s.anchor + 3) % 7}
    ELSE {s.anchor}
IsDelivery(s, d) == Weekday(d) \in DeliveryWeekdays(s)

NextCycleStart(s, d) ==
    CHOOSE e \in d + 1 .. d + 7 :
      IsDelivery(s, e) /\ \A x \in d + 1 .. e - 1 : ~IsDelivery(s, x)

LocalDay(s, t) == (t + s.zone) \div 24

(* cycle_window: the next delivery, today's included, ...                  *)
WindowStart(s, t) ==
    LET today == LocalDay(s, t)
        delta == CHOOSE k \in 0 .. 6 :
                   /\ \E w \in DeliveryWeekdays(s) :
                        k = (w - Weekday(today)) % 7
                   /\ \A w \in DeliveryWeekdays(s) :
                        k <= (w - Weekday(today)) % 7
    IN today + delta
(* ... and the days until the one after it.                                *)
(* Mutant: the day of the next delivery is counted too.                    *)
CycleDaysInclusive(s, c) == NextCycleStart(s, c) - c + 1
CycleDays(s, c) == NextCycleStart(s, c) - c

StageAt(s, c, lead) == (c - lead) * 24 + StageHour + Jitter - s.zone
GenerationAt(s, c) == StageAt(s, c, Profiles[s.frequency].generate)
DraftAt(s, c) == StageAt(s, c, Profiles[s.frequency].draft)

NextGenerationAt(s, c) == GenerationAt(s, NextCycleStart(s, c))

(* _initial_next_run: the first generation, from this window on, to come.  *)
InitialNextRun(s, t) ==
    LET w == WindowStart(s, t)
        c == CHOOSE d \in w .. w + 7 :
               /\ IsDelivery(s, d) /\ GenerationAt(s, d) > t
               /\ \A e \in w .. d - 1 :
                    IsDelivery(s, e) => GenerationAt(s, e) <= t
    IN GenerationAt(s, c)

-----------------------------------------------------------------------------
Schedule == [frequency : Frequencies, anchor : Anchors, zone : Zones]
NoPlan == [start |-> -1, days |-> 0]
Window == WindowStart(schedule, now)

(* get_or_create_settings *)
Init ==
    /\ now = FirstDay * 24
    /\ schedule \in Schedule
    /\ nextRun = InitialNextRun(schedule, now)
    /\ stage = "none"
    /\ generated = NoPlan
    /\ ordered = {}
    /\ moved = FALSE /\ moves = 0

Tick ==
    /\ now + Step <= nextRun + MaxLate
    /\ now + Step <= LastDay * 24
    /\ now' = now + Step
    /\ UNCHANGED <<schedule, nextRun, stage, generated, ordered, moved, moves>>

Due == nextRun <= now
DraftDue == Due /\ stage = "generated" /\ generated.start = Window

(* The generation stage; a cycle that has its plan is left as it is.       *)
Generate ==
    /\ Due /\ ~DraftDue
    /\ generated' = IF generated.start = Window THEN generated
                    ELSE [start |-> Window,
                          days |-> CycleDays(schedule, Window)]
    /\ stage' = "generated"
    /\ nextRun' = DraftAt(schedule, Window)
    /\ moved' = (moved /\ generated.start = Window)
    /\ UNCHANGED <<now, schedule, ordered, moves>>

(* The draft stage.                                                        *)
Draft ==
    /\ DraftDue
    /\ ordered' = ordered \cup {Window}
    /\ stage' = "drafted"
    /\ nextRun' = NextGenerationAt(schedule, Window)
    /\ UNCHANGED <<now, schedule, generated, moved, moves>>

(* Mutant: the next stage stays where the old schedule put it.             *)
UpdateKeepsNextRun(s) ==
    /\ moves < MaxMoves /\ s # schedule
    /\ schedule' = s
    /\ moves' = moves + 1 /\ moved' = TRUE
    /\ UNCHANGED <<now, nextRun, stage, generated, ordered>>

(* update_settings: the next stage is found anew for the new schedule.     *)
UpdateSettings(s) ==
    /\ moves < MaxMoves /\ s # schedule
    /\ schedule' = s
    /\ moves' = moves + 1 /\ moved' = TRUE
    /\ nextRun' =
         LET w == WindowStart(s, now)
         IN IF stage = "drafted" \/ w \in ordered THEN NextGenerationAt(s, w)
            ELSE IF generated.start = w THEN DraftAt(s, w)
            ELSE InitialNextRun(s, now)
    /\ UNCHANGED <<now, stage, generated, ordered>>

Next ==
    \/ Tick
    \/ Generate
    \/ Draft
    \/ \E s \in Schedule : UpdateSettings(s)

Spec == Init /\ [][Next]_vars

-----------------------------------------------------------------------------
(* Every variable keeps its type.                                          *)
TypeOK ==
    /\ now \in Int /\ schedule \in Schedule /\ nextRun \in Int
    /\ stage \in {"none", "generated", "drafted"}
    /\ generated.start \in Int /\ generated.days \in 0 .. 7
    /\ moved \in BOOLEAN /\ moves \in 0 .. MaxMoves

(* The time the scheduler waits for is a stage of the very cycle that the  *)
(* scheduler will find when it looks at the clock then: process_due_setting*)
(* recomputes the window instead of remembering for which one it was woken.*)
StageOfItsCycle ==
    LET w == WindowStart(schedule, nextRun)
    IN /\ IsDelivery(schedule, w)
       /\ nextRun \in {GenerationAt(schedule, w), DraftAt(schedule, w)}

(* A plan ends where the next one begins, unless the schedule was changed  *)
(* in between: no day of the calendar is planned twice or not at all.      *)
PlansTile ==
    [][ generated' # generated /\ generated # NoPlan /\ ~moved =>
          generated'.start = generated.start + generated.days ]_vars
=============================================================================
