------------------------ MODULE CycleCalendarProofs ------------------------
(***************************************************************************)
(* Proofs about CycleCalendar, for any days, policy, time zones and number *)
(* of changes of the settings: the run that is booked is a stage of the    *)
(* cycle the scheduler will find, and plans follow one another.            *)
(*                                                                         *)
(* Nothing records which cycle a run was booked for.  That it is found     *)
(* again rests on the lead times being shorter than the gap between two    *)
(* deliveries, and on the scheduler coming before the delivery is over.    *)
(***************************************************************************)
EXTENDS CycleCalendar, TLAPS

(* What the constants are: a stage is not so late that the day of its      *)
(* delivery has passed.                                                    *)
Punctual ==
    /\ Step \in Nat /\ MaxLate \in Nat /\ MaxMoves \in Nat
    /\ FirstDay \in Int /\ LastDay \in Int
    /\ \A f \in Frequencies :
         StageHour + Jitter + MaxLate < 24 * (Profiles[f].draft + 1)

-----------------------------------------------------------------------------
(* Delivery days.                                                          *)

(* The policy's numbers.                                                   *)
Gap(s) == IF s.frequency = "biweekly" THEN 3 ELSE 7

(* The leads are whole days, shorter than the gap between deliveries.      *)
LEMMA Leads ==
    ASSUME NEW s \in Schedule
    PROVE  LET p == Profiles[s.frequency]
           IN /\ p.generate \in 1 .. 6 /\ p.draft \in 1 .. 6
              /\ p.draft < p.generate /\ p.generate < Gap(s)
              /\ StageHour + Jitter \in 0 .. 23
              /\ s.zone \in Int /\ s.anchor \in 0 .. 6
<1>1. s.frequency \in Frequencies /\ s.zone \in Zones /\ s.anchor \in Anchors
  BY DEF Schedule
<1>2. Profiles[s.frequency] \in [generate : 1 .. 6, draft : 1 .. 6]
  BY <1>1, ProfileAssumption
<1>3. Profiles[s.frequency].draft < Profiles[s.frequency].generate
  BY <1>1, LeadAssumption
<1>4. Profiles[s.frequency].generate < Gap(s)
  BY <1>1, LeadAssumption DEF Gap, Frequencies
<1>5. StageHour + Jitter \in 0 .. 23
  BY HourAssumption
<1> QED
  BY <1>1, <1>2, <1>3, <1>4, <1>5, ZoneAssumption DEF Anchors

(* A delivery day is one of the weekday of the anchor or, every other      *)
(* time, of the third day after it.                                        *)
LEMMA DeliveryDays ==
    ASSUME NEW s \in Schedule, NEW d \in Int
    PROVE  IsDelivery(s, d) <=>
             \/ d % 7 = s.anchor
             \/ s.frequency = "biweekly" /\ d % 7 = (s.anchor + 3) % 7
  BY DEF IsDelivery, DeliveryWeekdays, Weekday

(* A number of any residue comes within seven.                             *)
LEMMA NextResidue ==
    ASSUME NEW a \in Int, NEW r \in 0 .. 6
    PROVE  \E j \in a .. a + 6 :
             j % 7 = r /\ \A x \in a .. j - 1 : x % 7 # r
<1>1. PICK k \in 0 .. 6 : k = (r - a) % 7
  OBVIOUS
<1>2. (a + k) % 7 = r
  BY <1>1
<1>3. ASSUME NEW x \in a .. (a + k) - 1 PROVE x % 7 # r
  <2>1. PICK i \in 0 .. 6 : x = a + i /\ i < k
    BY <1>1
  <2> QED
    BY <1>1, <1>2, <2>1
<1>4. a + k \in a .. a + 6
  BY <1>1
<1> QED
  BY <1>2, <1>3, <1>4

(* A delivery comes within a week, and there is a first one.               *)
First(s, a, e) == IsDelivery(s, e) /\ \A x \in a .. e - 1 : ~IsDelivery(s, x)

LEMMA Comes ==
    ASSUME NEW s \in Schedule, NEW a \in Int
    PROVE  \E e \in a .. a + 6 : First(s, a, e)
<1>1. s.anchor \in 0 .. 6 /\ (s.anchor + 3) % 7 \in 0 .. 6
  BY Leads
<1>2. PICK j \in a .. a + 6 :
         j % 7 = s.anchor /\ \A x \in a .. j - 1 : x % 7 # s.anchor
  BY <1>1, NextResidue
<1>3. PICK k \in a .. a + 6 :
         /\ k % 7 = (s.anchor + 3) % 7
         /\ \A x \in a .. k - 1 : x % 7 # (s.anchor + 3) % 7
  BY <1>1, NextResidue
<1>4. CASE s.frequency # "biweekly"
  <2>1. IsDelivery(s, j)
    BY <1>2, <1>4, DeliveryDays
  <2>2. ASSUME NEW x \in a .. j - 1, IsDelivery(s, x) PROVE FALSE
    BY <1>2, <1>4, <2>2, DeliveryDays
  <2> QED
    BY <1>2, <2>1, <2>2 DEF First
<1>5. CASE s.frequency = "biweekly" /\ k < j
  <2>1. IsDelivery(s, k)
    BY <1>3, <1>5, DeliveryDays
  <2>2. ASSUME NEW x \in a .. k - 1, IsDelivery(s, x) PROVE FALSE
    <3>1. x \in a .. j - 1
      BY <1>2, <1>3, <1>5
    <3> QED
      BY <1>2, <1>3, <2>2, <3>1, DeliveryDays
  <2> QED
    BY <1>3, <2>1, <2>2 DEF First
<1>6. CASE s.frequency = "biweekly" /\ j <= k
  <2>1. IsDelivery(s, j)
    BY <1>2, <1>6, DeliveryDays
  <2>2. ASSUME NEW x \in a .. j - 1, IsDelivery(s, x) PROVE FALSE
    <3>1. x \in a .. k - 1
      BY <1>2, <1>3, <1>6
    <3> QED
      BY <1>2, <1>3, <2>2, <3>1, DeliveryDays
  <2> QED
    BY <1>2, <2>1, <2>2 DEF First
<1>7. k < j \/ j <= k
  BY <1>2, <1>3
<1> QED
  BY <1>4, <1>5, <1>6, <1>7

(* ... and no two.                                                         *)
LEMMA OneFirst ==
    ASSUME NEW s, NEW a \in Int, NEW d \in Int, NEW e \in Int,
           a <= d, a <= e, First(s, a, d), First(s, a, e)
    PROVE  d = e
<1>1. ~(d < e) /\ ~(e < d)
  BY DEF First
<1> QED
  BY <1>1

(* The next cycle starts on the first delivery day after a day.            *)
LEMMA NextStart ==
    ASSUME NEW s \in Schedule, NEW d \in Int
    PROVE  /\ NextCycleStart(s, d) \in d + 1 .. d + 7
           /\ First(s, d + 1, NextCycleStart(s, d))
<1>1. \E e \in d + 1 .. d + 1 + 6 : First(s, d + 1, e)
  BY Comes
<1>2. \E e \in d + 1 .. d + 7 :
        IsDelivery(s, e) /\ \A x \in d + 1 .. e - 1 : ~IsDelivery(s, x)
  BY <1>1 DEF First
<1> QED
  BY <1>2 DEF NextCycleStart, First

(* Deliveries are at least Gap days apart.                                 *)
LEMMA Sparse ==
    ASSUME NEW s \in Schedule, NEW c \in Int, NEW d \in Int,
           IsDelivery(s, c), IsDelivery(s, d), d < c
    PROVE  d + Gap(s) <= c
<1>1. s.anchor \in 0 .. 6
  BY Leads
<1>2. CASE s.frequency = "biweekly"
  BY <1>1, <1>2, DeliveryDays DEF Gap
<1>3. CASE s.frequency # "biweekly"
  BY <1>1, <1>3, DeliveryDays DEF Gap
<1> QED
  BY <1>2, <1>3

(* cycle_window finds the first delivery from today on.                    *)
LEMMA WindowIsFirst ==
    ASSUME NEW s \in Schedule, NEW t \in Int
    PROVE  /\ LocalDay(s, t) \in Int /\ WindowStart(s, t) \in Int
           /\ LocalDay(s, t) <= WindowStart(s, t)
           /\ First(s, LocalDay(s, t), WindowStart(s, t))
<1> DEFINE today == LocalDay(s, t)
<1>1. today \in Int
  BY Leads DEF LocalDay
<1>2. s.anchor \in 0 .. 6 /\ DeliveryWeekdays(s) \subseteq 0 .. 6
  BY Leads DEF DeliveryWeekdays
<1>3. PICK e \in today .. today + 6 : First(s, today, e)
  BY <1>1, Comes
<1> HIDE DEF today
<1>4. \A w \in DeliveryWeekdays(s) :
        /\ (w - Weekday(today)) % 7 \in 0 .. 6
        /\ IsDelivery(s, today + ((w - Weekday(today)) % 7))
  <2> SUFFICES ASSUME NEW w \in DeliveryWeekdays(s)
               PROVE  /\ (w - Weekday(today)) % 7 \in 0 .. 6
                      /\ Weekday(today + ((w - Weekday(today)) % 7)) = w
    BY DEF IsDelivery
  <2>1. w \in 0 .. 6
    BY <1>2
  <2> QED
    BY <1>1, <2>1 DEF Weekday
<1>5. PICK k \in 0 .. 6 : k = e - today
  BY <1>1, <1>3
<1>6. /\ \E w \in DeliveryWeekdays(s) : k = (w - Weekday(today)) % 7
      /\ \A w \in DeliveryWeekdays(s) : k <= (w - Weekday(today)) % 7
  <2>1. Weekday(e) \in DeliveryWeekdays(s)
    BY <1>3 DEF First, IsDelivery
  <2>2. k = (Weekday(e) - Weekday(today)) % 7
    BY <1>1, <1>3, <1>5 DEF Weekday
  <2>3. ASSUME NEW w \in DeliveryWeekdays(s), (w - Weekday(today)) % 7 < k
        PROVE  FALSE
    BY <1>1, <1>3, <1>4, <1>5, <2>3 DEF First
  <2>4. \A w \in DeliveryWeekdays(s) : (w - Weekday(today)) % 7 \in Int
    BY <1>4
  <2> QED
    BY <1>5, <2>1, <2>2, <2>3, <2>4
<1>7. \A l \in 0 .. 6 :
        /\ \E w \in DeliveryWeekdays(s) : l = (w - Weekday(today)) % 7
        /\ \A w \in DeliveryWeekdays(s) : l <= (w - Weekday(today)) % 7
        => l = k
  BY <1>5, <1>6
<1>8. WindowStart(s, t) = today + k
  BY <1>5, <1>6, <1>7 DEF WindowStart, today
<1>9. WindowStart(s, t) = e
  BY <1>1, <1>3, <1>5, <1>8
<1> QED
  BY <1>1, <1>3, <1>9 DEF today

-----------------------------------------------------------------------------
(* Stages.                                                                 *)

(* The hours of a day.                                                     *)
LEMMA DayOfHour ==
    ASSUME NEW n \in Int, NEW h \in 0 .. 23
    PROVE  (n * 24 + h) \div 24 = n
  OBVIOUS

(* Days do not go back.                                                    *)
LEMMA LaterDay ==
    ASSUME NEW s \in Schedule, NEW t \in Int, NEW u \in Int, t <= u
    PROVE  /\ LocalDay(s, t) \in Int
           /\ LocalDay(s, t) <= LocalDay(s, u)
<1>1. s.zone \in Int
  BY Leads
<1>2. \A m, n \in Int : m <= n => m \div 24 \in Int /\ m \div 24 <= n \div 24
  OBVIOUS
<1>3. t + s.zone \in Int /\ u + s.zone \in Int /\ t + s.zone <= u + s.zone
  BY <1>1
<1> QED
  BY <1>2, <1>3 DEF LocalDay

(* The hour of a stage is on the day that is the lead before the delivery. *)
LEMMA StageDay ==
    ASSUME NEW s \in Schedule, NEW c \in Int, NEW lead \in Int, NEW t \in Int
    PROVE  /\ StageAt(s, c, lead) \in Int
           /\ LocalDay(s, StageAt(s, c, lead)) = c - lead
           /\ StageAt(s, c, lead) <= t => c - lead <= LocalDay(s, t)
<1>1. StageHour + Jitter \in 0 .. 23 /\ s.zone \in Int
      /\ StageHour \in Int /\ Jitter \in Int
  BY Leads, HourAssumption
<1>2. PICK h \in 0 .. 23 : h = StageHour + Jitter
  BY <1>1
<1>3. PICK n \in Int : n = c - lead
  OBVIOUS
<1>4. StageAt(s, c, lead) = n * 24 + StageHour + Jitter - s.zone
  BY <1>3 DEF StageAt
<1>5. /\ StageAt(s, c, lead) \in Int
      /\ StageAt(s, c, lead) + s.zone = n * 24 + h
  BY <1>1, <1>2, <1>4
<1>6. LocalDay(s, StageAt(s, c, lead)) = n
  BY <1>5, DayOfHour DEF LocalDay
<1> QED
  BY <1>3, <1>5, <1>6, LaterDay

StageOf(s, c, run) == run \in {GenerationAt(s, c), DraftAt(s, c)}

(* Whoever comes after a stage of a cycle and before its delivery is over  *)
(* finds that cycle.                                                       *)
LEMMA FindsCycle ==
    ASSUME NEW s \in Schedule, NEW c \in Int, NEW t \in Int, NEW run,
           IsDelivery(s, c), StageOf(s, c, run), run <= t, LocalDay(s, t) <= c
    PROVE  WindowStart(s, t) = c
<1>1. PICK lead \in 1 .. Gap(s) - 1 : run = StageAt(s, c, lead)
  BY Leads DEF StageOf, GenerationAt, DraftAt, Gap
<1>2. lead \in Int /\ Gap(s) \in Int
  BY <1>1 DEF Gap
<1>3. c - lead <= LocalDay(s, t)
  BY <1>1, <1>2, StageDay
<1>4. LocalDay(s, t) \in Int
  BY WindowIsFirst
<1>5. First(s, LocalDay(s, t), c)
  <2> SUFFICES ASSUME NEW x \in LocalDay(s, t) .. c - 1, IsDelivery(s, x)
               PROVE  FALSE
    BY DEF First
  <2>1. x + Gap(s) <= c
    BY <1>4, Sparse
  <2> QED
    BY <1>1, <1>2, <1>3, <1>4, <2>1
<1> QED
  BY <1>4, <1>5, WindowIsFirst, OneFirst

(* A stage that is on time comes before the delivery is over.              *)
LEMMA InTime ==
    ASSUME Punctual, NEW s \in Schedule, NEW c \in Int, NEW t \in Int,
           NEW run, StageOf(s, c, run), t <= run + MaxLate
    PROVE  LocalDay(s, t) <= c
<1> DEFINE p == Profiles[s.frequency]
<1>1. /\ p.generate \in 1 .. 6 /\ p.draft \in 1 .. 6 /\ p.draft < p.generate
      /\ s.zone \in Int /\ StageHour \in Int /\ Jitter \in Int /\ MaxLate \in Int
  BY Leads, HourAssumption DEF Punctual
<1>2. StageHour + Jitter + MaxLate < 24 * (p.draft + 1)
  BY DEF Punctual, Schedule
<1>3. PICK lead \in {p.generate, p.draft} :
         run = (c - lead) * 24 + StageHour + Jitter - s.zone
  BY DEF StageOf, GenerationAt, DraftAt, StageAt
<1> HIDE DEF p
<1>4. lead \in Int /\ p.draft <= lead
  BY <1>1, <1>3
<1>5. t + s.zone < (c + 1) * 24
  BY <1>1, <1>2, <1>3, <1>4
<1> QED
  BY <1>1, <1>5 DEF LocalDay

(* The day of a delivery is before that of the next one.                   *)
LEMMA CycleLength ==
    ASSUME NEW s \in Schedule, NEW c \in Int
    PROVE  /\ NextCycleStart(s, c) \in Int /\ c < NextCycleStart(s, c)
           /\ IsDelivery(s, NextCycleStart(s, c))
           /\ CycleDays(s, c) \in 1 .. 7
           /\ NextCycleStart(s, c) = c + CycleDays(s, c)
<1>1. NextCycleStart(s, c) \in c + 1 .. c + 7
  BY NextStart
<1>2. IsDelivery(s, NextCycleStart(s, c))
  BY NextStart DEF First
<1> QED
  BY <1>1, <1>2 DEF CycleDays

(* _initial_next_run books the generation of a cycle that is not over.     *)
LEMMA InitialRun ==
    ASSUME NEW s \in Schedule, NEW t \in Int
    PROVE  \E c \in Int : /\ IsDelivery(s, c) /\ LocalDay(s, t) <= c
                          /\ InitialNextRun(s, t) = GenerationAt(s, c)
<1> DEFINE w == WindowStart(s, t)
           n == NextCycleStart(s, w)
           Good(d) == /\ IsDelivery(s, d) /\ GenerationAt(s, d) > t
                      /\ \A e \in w .. d - 1 :
                           IsDelivery(s, e) => GenerationAt(s, e) <= t
<1>1. /\ w \in Int /\ LocalDay(s, t) \in Int /\ LocalDay(s, t) <= w
      /\ IsDelivery(s, w)
  BY WindowIsFirst DEF First
<1>2. n \in w + 1 .. w + 7 /\ First(s, w + 1, n)
  BY <1>1, NextStart
<1>3. \A d \in Int : GenerationAt(s, d) \in Int
  BY StageDay, Leads DEF GenerationAt
<1>4. GenerationAt(s, n) > t
  <2>1. w + Gap(s) <= n /\ Gap(s) \in Int
    BY <1>1, <1>2, Sparse DEF First, Gap
  <2>2. PICK lead \in 1 .. 6 : /\ lead < Gap(s)
                               /\ GenerationAt(s, n) = StageAt(s, n, lead)
    BY Leads DEF GenerationAt
  <2>3. w < n - lead
    BY <1>1, <1>2, <2>1, <2>2
  <2>4. n \in Int /\ lead \in Int
    BY <1>1, <1>2, <2>2
  <2>5. LocalDay(s, StageAt(s, n, lead)) = n - lead
    BY <2>4, StageDay
  <2>6. StageAt(s, n, lead) \in Int
    BY <2>4, StageDay
  <2>7. s.zone \in Int
    BY Leads
  <2>8. LocalDay(s, t) < LocalDay(s, StageAt(s, n, lead))
    BY <1>1, <2>3, <2>4, <2>5
  <2> HIDE DEF w, n
  <2>9. StageAt(s, n, lead) > t
    BY <2>6, <2>7, <2>8 DEF LocalDay
  <2> QED
    BY <2>2, <2>9
<1>5. \E d \in w .. w + 7 : Good(d)
  <2>1. CASE GenerationAt(s, w) > t
    BY <1>1, <2>1
  <2>2. CASE GenerationAt(s, w) <= t
    <3>1. \A e \in w .. n - 1 : IsDelivery(s, e) => e = w
      BY <1>1, <1>2 DEF First
    <3>2. Good(n)
      BY <1>2, <1>4, <2>2, <3>1 DEF First
    <3> QED
      BY <1>1, <1>2, <3>2
  <2> QED
    BY <1>1, <1>3, <2>1, <2>2
<1>6. PICK c \in w .. w + 7 : Good(c) /\ InitialNextRun(s, t) = GenerationAt(s, c)
  BY <1>5 DEF InitialNextRun
<1> QED
  BY <1>1, <1>6

-----------------------------------------------------------------------------
(* The inductive invariant.                                                *)

Types ==
    /\ now \in Int /\ schedule \in Schedule /\ nextRun \in Int
    /\ stage \in {"none", "generated", "drafted"}
    /\ generated \in [start : Int, days : 0 .. 7]
    /\ moved \in BOOLEAN /\ moves \in 0 .. MaxMoves

(* The run that is booked is a stage of a cycle that is not over.          *)
AwaitsStage ==
    \E c \in Int : /\ IsDelivery(schedule, c)
                   /\ StageOf(schedule, c, nextRun)
                   /\ LocalDay(schedule, now) <= c

(* While the schedule stands, the last plan covers its cycle, and the run  *)
(* that is booked is the draft of that cycle or the generation of the next.*)
Follows ==
    LET c == generated.start
    IN /\ IsDelivery(schedule, c)
       /\ generated.days = CycleDays(schedule, c)
       /\ \/ /\ stage = "generated" /\ nextRun = DraftAt(schedule, c)
             /\ LocalDay(schedule, now) <= c
          \/ /\ stage = "drafted" /\ nextRun = NextGenerationAt(schedule, c)
             /\ LocalDay(schedule, now) <= NextCycleStart(schedule, c)
NextPlan == ~moved /\ generated # NoPlan => Follows

IInv == Types /\ AwaitsStage /\ NextPlan

(* The times of stages are times.                                          *)
LEMMA StageTimes ==
    ASSUME NEW s \in Schedule, NEW c \in Int
    PROVE  /\ GenerationAt(s, c) \in Int /\ DraftAt(s, c) \in Int
           /\ NextGenerationAt(s, c) \in Int
           /\ StageOf(s, c, GenerationAt(s, c)) /\ StageOf(s, c, DraftAt(s, c))
           /\ StageOf(s, NextCycleStart(s, c), NextGenerationAt(s, c))
<1>1. ASSUME NEW d \in Int PROVE GenerationAt(s, d) \in Int /\ DraftAt(s, d) \in Int
  <2>1. \A lead \in Int : StageAt(s, d, lead) \in Int
    BY StageDay
  <2> QED
    BY <2>1, Leads DEF GenerationAt, DraftAt
<1> QED
  BY <1>1, CycleLength DEF StageOf, NextGenerationAt

(* The cycle that is found when the run that is booked is due.             *)
LEMMA DueCycle ==
    ASSUME Types, AwaitsStage, Due
    PROVE  /\ Window \in Int /\ IsDelivery(schedule, Window)
           /\ LocalDay(schedule, now) \in Int
           /\ LocalDay(schedule, now) <= Window
<1> QED
  BY WindowIsFirst DEF Types, Window, First

(* After a plan comes that of the next cycle.                              *)
LEMMA NextIsFound ==
    ASSUME Types, Follows, Due
    PROVE  IF stage = "generated" THEN Window = generated.start
           ELSE Window = generated.start + generated.days
<1> DEFINE c == generated.start
<1>1. c \in Int /\ now \in Int /\ schedule \in Schedule
  BY DEF Types
<1>2. CASE stage = "generated"
  BY <1>1, <1>2, StageTimes, FindsCycle DEF Follows, Due, Window
<1>3. CASE stage # "generated"
  <2>1. /\ nextRun = NextGenerationAt(schedule, c)
        /\ LocalDay(schedule, now) <= NextCycleStart(schedule, c)
        /\ generated.days = CycleDays(schedule, c)
    BY <1>3 DEF Follows
  <2>2. Window = NextCycleStart(schedule, c)
    BY <1>1, <2>1, StageTimes, CycleLength, FindsCycle DEF Due, Window
  <2> QED
    BY <1>1, <1>3, <2>1, <2>2, CycleLength
<1> QED
  BY <1>2, <1>3

(* At the start the first generation is booked.                            *)
LEMMA Start == ASSUME Punctual, Init PROVE IInv
<1>1. now \in Int /\ schedule \in Schedule
  BY DEF Init, Punctual
<1>2. PICK c \in Int : /\ IsDelivery(schedule, c) /\ LocalDay(schedule, now) <= c
                       /\ nextRun = GenerationAt(schedule, c)
  BY <1>1, InitialRun DEF Init
<1>3. Types
  <2>1. nextRun \in Int
    BY <1>1, <1>2, StageTimes
  <2>2. generated \in [start : Int, days : 0 .. 7]
    BY DEF Init, NoPlan
  <2>3. moves \in 0 .. MaxMoves
    BY DEF Init, Punctual
  <2>4. moved \in BOOLEAN /\ stage \in {"none", "generated", "drafted"}
    BY DEF Init
  <2> QED
    BY <1>1, <2>1, <2>2, <2>3, <2>4 DEF Types
<1>4. AwaitsStage
  BY <1>1, <1>2, StageTimes DEF AwaitsStage
<1>5. NextPlan
  BY DEF Init, NextPlan
<1> QED
  BY <1>3, <1>4, <1>5 DEF IInv

(* Time goes on, but not past the day of the delivery.                     *)
LEMMA TickStep == ASSUME Punctual, IInv, Tick PROVE IInv'
<1>1. /\ now \in Int /\ schedule \in Schedule /\ nextRun \in Int
      /\ now' \in Int /\ now' <= nextRun + MaxLate
  BY DEF IInv, Types, Tick, Punctual
<1>2. Types'
  BY <1>1 DEF IInv, Types, Tick
<1>3. AwaitsStage'
  <2>1. PICK c \in Int : /\ IsDelivery(schedule, c)
                         /\ StageOf(schedule, c, nextRun)
    BY DEF IInv, AwaitsStage
  <2>2. LocalDay(schedule, now') <= c
    BY <1>1, <2>1, InTime
  <2> QED
    BY <2>1, <2>2 DEF AwaitsStage, Tick
<1>4. NextPlan'
  <2> SUFFICES ASSUME ~moved, generated # NoPlan PROVE Follows'
    BY DEF NextPlan, Tick
  <2>1. Follows
    BY DEF IInv, NextPlan
  <2> DEFINE c == generated.start
  <2>2. c \in Int /\ NextCycleStart(schedule, c) \in Int
    BY <1>1, CycleLength DEF IInv, Types
  <2>3. CASE stage = "generated" /\ nextRun = DraftAt(schedule, c)
    <3>1. LocalDay(schedule, now') <= c
      BY <1>1, <2>2, <2>3, StageTimes, InTime
    <3> QED
      BY <2>1, <2>3, <3>1 DEF Follows, Tick
  <2>4. CASE stage = "drafted" /\ nextRun = NextGenerationAt(schedule, c)
    <3>1. LocalDay(schedule, now') <= NextCycleStart(schedule, c)
      BY <1>1, <2>2, <2>4, StageTimes, InTime
    <3> QED
      BY <2>1, <2>4, <3>1 DEF Follows, Tick
  <2> QED
    BY <2>1, <2>3, <2>4 DEF Follows
<1> QED
  BY <1>2, <1>3, <1>4 DEF IInv

(* A generation books the draft of its cycle, ...                          *)
LEMMA GenerateStep == ASSUME IInv, Generate PROVE IInv'
<1>1. /\ schedule \in Schedule /\ Window \in Int /\ IsDelivery(schedule, Window)
      /\ LocalDay(schedule, now) <= Window
      /\ CycleDays(schedule, Window) \in 1 .. 7
  BY DueCycle, CycleLength DEF IInv, Types, Generate
<1>2. Types'
  BY <1>1, StageTimes DEF IInv, Types, Generate
<1>3. AwaitsStage'
  BY <1>1, StageTimes DEF AwaitsStage, Generate
<1>4. NextPlan'
  <2>1. CASE generated.start # Window
    <3>1. /\ generated'.start = Window
          /\ generated'.days = CycleDays(schedule, Window)
          /\ stage' = "generated" /\ nextRun' = DraftAt(schedule, Window)
          /\ UNCHANGED <<now, schedule>>
      BY <2>1 DEF Generate
    <3> QED
      BY <1>1, <3>1 DEF NextPlan, Follows
  <2>2. CASE generated.start = Window
    <3> SUFFICES ASSUME ~moved, generated # NoPlan PROVE FALSE
      BY <2>2 DEF NextPlan, Generate
    <3>1. Follows /\ Types /\ Due /\ ~DraftDue
      BY DEF IInv, NextPlan, Generate
    <3>2. stage # "generated"
      BY <2>2, <3>1 DEF DraftDue
    <3>3. generated.days \in 1 .. 7
      BY <1>1, <2>2, <3>1 DEF Follows
    <3> QED
      BY <1>1, <2>2, <3>1, <3>2, <3>3, NextIsFound
  <2> QED
    BY <2>1, <2>2
<1> QED
  BY <1>2, <1>3, <1>4 DEF IInv

(* ... a draft the generation of the next one, ...                         *)
LEMMA DraftStep == ASSUME IInv, Draft PROVE IInv'
<1> DEFINE n == NextCycleStart(schedule, Window)
<1>1. /\ schedule \in Schedule /\ Window \in Int
      /\ LocalDay(schedule, now) \in Int /\ LocalDay(schedule, now) <= Window
      /\ n \in Int /\ Window < n /\ IsDelivery(schedule, n)
  BY DueCycle, CycleLength DEF IInv, Types, Draft, DraftDue
<1>2. LocalDay(schedule, now) <= n
  BY <1>1
<1>3. Types'
  BY <1>1, StageTimes DEF IInv, Types, Draft
<1>4. AwaitsStage'
  BY <1>1, <1>2, StageTimes DEF AwaitsStage, Draft
<1>5. NextPlan'
  <2> SUFFICES ASSUME ~moved, generated # NoPlan PROVE Follows'
    BY DEF NextPlan, Draft
  <2>1. Follows
    BY DEF IInv, NextPlan
  <2> QED
    BY <1>2, <2>1 DEF Follows, Draft, DraftDue
<1> QED
  BY <1>3, <1>4, <1>5 DEF IInv

(* ... and a change of the schedule the first that can still be kept.      *)
LEMMA UpdateStep ==
    ASSUME Punctual, IInv, NEW s \in Schedule, UpdateSettings(s) PROVE IInv'
<1> DEFINE w == WindowStart(s, now)
           n == NextCycleStart(s, w)
<1>1. /\ now \in Int /\ w \in Int /\ IsDelivery(s, w)
      /\ LocalDay(s, now) \in Int /\ LocalDay(s, now) <= w
      /\ n \in Int /\ w < n /\ IsDelivery(s, n)
  BY WindowIsFirst, CycleLength DEF IInv, Types, First
<1>2. LocalDay(s, now) <= n
  BY <1>1
<1>3. \E c \in Int : /\ IsDelivery(s, c) /\ LocalDay(s, now) <= c
                     /\ StageOf(s, c, nextRun')
  <2>1. CASE nextRun' = NextGenerationAt(s, w)
    BY <1>1, <1>2, <2>1, StageTimes
  <2>2. CASE nextRun' = DraftAt(s, w)
    BY <1>1, <2>2, StageTimes
  <2>3. CASE nextRun' = InitialNextRun(s, now)
    BY <1>1, <2>3, InitialRun, StageTimes
  <2> QED
    BY <2>1, <2>2, <2>3 DEF UpdateSettings
<1>4. nextRun' \in Int
  BY <1>3, StageTimes DEF StageOf
<1>5. Types'
  BY <1>4 DEF IInv, Types, UpdateSettings, Punctual
<1>6. AwaitsStage'
  BY <1>3 DEF AwaitsStage, UpdateSettings
<1>7. NextPlan'
  BY DEF NextPlan, UpdateSettings
<1> QED
  BY <1>5, <1>6, <1>7 DEF IInv

(* So every step keeps the invariant.                                      *)
LEMMA Steps == ASSUME Punctual, IInv, [Next]_vars PROVE IInv'
<1>1. CASE Next
  BY <1>1, TickStep, GenerateStep, DraftStep, UpdateStep DEF Next
<1>2. CASE UNCHANGED vars
  BY <1>2 DEF vars, IInv, Types, AwaitsStage, NextPlan, Follows
<1> QED
  BY <1>1, <1>2

(* In every reachable state the run that is booked is that of the cycle the *)
(* scheduler will find (process_due_setting).                              *)
THEOREM Inductive == ASSUME Punctual PROVE Spec => []IInv
<1>1. Init => IInv
  BY Start
<1>2. IInv /\ [Next]_vars => IInv'
  BY Steps
<1> QED
  BY <1>1, <1>2, PTL DEF Spec

-----------------------------------------------------------------------------
(* Every variable keeps its type.                                          *)
THEOREM Typed == ASSUME Punctual PROVE Spec => []TypeOK
<1>1. IInv => TypeOK
  BY DEF IInv, Types, TypeOK
<1> QED
  BY <1>1, Inductive, PTL

(* The run that is booked is a stage of the very cycle the scheduler will  *)
(* find (process_due_setting): whatever the settings become meanwhile, no  *)
(* stage is run for another cycle than the one it was booked for.          *)
THEOREM BookedForItsCycle == ASSUME Punctual PROVE Spec => []StageOfItsCycle
<1>1. ASSUME IInv PROVE StageOfItsCycle
  <2>1. PICK c \in Int : /\ IsDelivery(schedule, c)
                         /\ StageOf(schedule, c, nextRun)
    BY <1>1 DEF IInv, AwaitsStage
  <2>2. schedule \in Schedule /\ nextRun \in Int
    BY <1>1 DEF IInv, Types
  <2>3. PICK lead \in 1 .. 6 : nextRun = StageAt(schedule, c, lead)
    BY <2>1, <2>2, Leads DEF StageOf, GenerationAt, DraftAt
  <2>4. LocalDay(schedule, nextRun) = c - lead
    BY <2>2, <2>3, StageDay
  <2>5. LocalDay(schedule, nextRun) <= c
    BY <2>4
  <2>6. WindowStart(schedule, nextRun) = c
    BY <2>1, <2>2, <2>5, FindsCycle
  <2> QED
    BY <2>1, <2>6 DEF StageOfItsCycle, StageOf
<1> QED
  BY <1>1, Inductive, PTL

(* A plan ends where the next one begins, unless the schedule was changed  *)
(* in between (_run_generation, cycle_window).                             *)
THEOREM NoDayLost == ASSUME Punctual PROVE Spec => PlansTile
<1> DEFINE Tiles == generated' # generated /\ generated # NoPlan /\ ~moved =>
                      generated'.start = generated.start + generated.days
<1>1. ASSUME IInv, [Next]_vars PROVE Tiles
  <2> SUFFICES ASSUME generated' # generated, generated # NoPlan, ~moved
               PROVE  generated'.start = generated.start + generated.days
    OBVIOUS
  <2>1. Generate
    BY <1>1 DEF Next, vars, Tick, Draft, UpdateSettings
  <2>2. generated.start # Window /\ generated'.start = Window
    BY <2>1 DEF Generate
  <2>3. Types /\ Follows /\ Due
    BY <1>1, <2>1 DEF IInv, NextPlan, Generate
  <2> QED
    BY <2>2, <2>3, NextIsFound
<1>2. IInv /\ [Next]_vars => [Tiles]_vars
  BY <1>1
<1> QED
  BY <1>2, Inductive, PTL DEF Spec, PlansTile
=============================================================================
