-------------------------- MODULE RemindersProofs --------------------------
(***************************************************************************)
(* Proofs about Reminders, for any number of devices and requests and any  *)
(* bounds: a reminder is repeated no more often than scans have died or    *)
(* requests have committed late, and one that is switched on has a time.   *)
(*                                                                         *)
(* Neither is a matter of the rows alone.  A push that will be repeated is *)
(* owed from the moment its cause happens until the push is made: Owed     *)
(* says in which states one is.  And what a request has loaded decides     *)
(* about the row it will leave: WholeOK speaks of the rows to come.        *)
(***************************************************************************)
EXTENDS Reminders, TLAPS, FiniteSetTheorems

(* What the constants are.                                                 *)
Bounded ==
    /\ DayLength \in Nat \ {0} /\ MaxTime \in Nat /\ IsFiniteSet(Requests)
    /\ MaxFailures \in Nat /\ MaxLate \in Nat /\ MaxOvertaken \in Nat

Changes == UNION {[cs -> BOOLEAN \cup Slots \cup {Never}] : cs \in SUBSET Columns}
ChangeOK(c) ==
    /\ DOMAIN c \subseteq Columns
    /\ "enabled" \in DOMAIN c => c["enabled"] \in BOOLEAN
    /\ "local" \in DOMAIN c => c["local"] \in SlotsOfDay
    /\ "next" \in DOMAIN c => c["next"] \in Slots \cup {Never}

RowsOK ==
    /\ time \in 0 .. MaxTime
    /\ setting \in SettingRow
    /\ device \in [Devices -> {"none", "mine", "theirs"}]
    /\ scan \in ScanState
    /\ req \in [Requests -> [open : BOOLEAN, change : Changes]]
    /\ \A r \in Requests : ChangeOK(req[r].change)
    /\ failures \in 0 .. MaxFailures /\ late \in 0 .. MaxLate
    /\ overtaken \in 0 .. MaxOvertaken
    /\ pushed \in Slots \cup {Never} /\ again \in Nat

OpenOK == \A r \in Requests : req[r].open => setting.exists

(* A scan pushes for a slot that has come, and so did all before it.       *)
ScanOK ==
    /\ scan.lost \/ scan.to # {} => scan.at = "pushing"
    /\ scan.at # "off" =>
         scan.slot <= scan.now /\ scan.now <= time /\ pushed <= scan.now
    /\ pushed <= time

(* A push will be repeated: its slot is the next one again, or a scan has  *)
(* loaded it, or the scan that made it is bound to die.                    *)
Owed ==
    \/ scan.at = "off" /\ setting.next \in 0 .. pushed
    \/ scan.at = "todo" /\ scan.slot <= pushed
    \/ scan.lost

Paid ==
    /\ again <= failures + late
    /\ Owed => again < failures + late

(* Unless requests overlapped, every request leaves a row that has a time  *)
(* when it is switched on, whatever the scan does meanwhile.               *)
Whole(row) == row.enabled => row.next # Never
WholeOK ==
    overtaken = 0 =>
      /\ Whole(setting)
      /\ \A r \in Requests :
           req[r].open => Whole(Updated(setting, req[r].change))

IInv == RowsOK /\ OpenOK /\ ScanOK /\ Paid /\ WholeOK

-----------------------------------------------------------------------------
(* The operators of the model.                                             *)

(* A slot of the day comes round within a day.                             *)
LEMMA Remainder ==
    ASSUME NEW d \in Nat \ {0}, NEW q \in Int, NEW l \in 0 .. d - 1,
           NEW b \in Int, b = d * q + l
    PROVE  b % d = l
  OBVIOUS

(* So each slot of the day is among the next ones.                         *)
LEMMA ComesRound ==
    ASSUME NEW d \in Nat \ {0}, NEW l \in 0 .. d - 1, NEW n \in Int
    PROVE  \E s \in n + 1 .. n + d : s % d = l
<1>1. PICK b \in Int : b = l - n - 1
  OBVIOUS
<1>2. /\ b % d \in 0 .. d - 1 /\ b \div d \in Int
      /\ b = d * (b \div d) + (b % d)
  OBVIOUS
<1>3. PICK s \in Int : s = n + 1 + (b % d)
  BY <1>2
<1>4. PICK q \in Int : q = -(b \div d)
  BY <1>2
<1>5. s = d * q + l
  BY <1>1, <1>2, <1>3, <1>4
<1>6. s % d = l
  BY <1>5, Remainder
<1> QED
  BY <1>2, <1>3, <1>6

(* compute_next_send_at is after now, and within a day.                    *)
LEMMA NextComes ==
    ASSUME Bounded, NEW l \in SlotsOfDay, NEW n \in 0 .. MaxTime
    PROVE  /\ ComputeNext(l, n) \in Slots
           /\ ComputeNext(l, n) > n /\ ComputeNext(l, n) # Never
<1>1. \E s \in n + 1 .. n + DayLength : s % DayLength = l
  <2>1. DayLength \in Nat \ {0} /\ l \in 0 .. DayLength - 1 /\ n \in Int
    BY DEF Bounded, SlotsOfDay
  <2> QED
    BY <2>1, ComesRound
<1>2. ComputeNext(l, n) \in n + 1 .. n + DayLength
  BY <1>1 DEF ComputeNext
<1> QED
  BY <1>2 DEF Bounded, Slots, Never

(* _recompute_setting_schedule makes a row whose time is to come.          *)
LEMMA ScheduledRow ==
    ASSUME Bounded, NEW e \in BOOLEAN, NEW l \in SlotsOfDay,
           NEW n \in 0 .. MaxTime
    PROVE  /\ Scheduled(e, l, n) \in SettingRow
           /\ Scheduled(e, l, n).exists
           /\ Whole(Scheduled(e, l, n))
           /\ Scheduled(e, l, n).next \notin 0 .. n
<1>1. Scheduled(e, l, n).next \in Slots \cup {Never}
  BY NextComes DEF Scheduled
<1>2. Scheduled(e, l, n).next \notin 0 .. n
  BY NextComes DEF Scheduled, Slots, Never, Bounded
<1>3. Whole(Scheduled(e, l, n))
  BY NextComes DEF Whole, Scheduled
<1> QED
  BY <1>1, <1>2, <1>3 DEF Scheduled, SettingRow

(* An UPDATE writes the changed columns and no others.                     *)
LEMMA UpdatedRow ==
    ASSUME NEW s \in SettingRow, NEW c, ChangeOK(c)
    PROVE  /\ Updated(s, c) \in SettingRow
           /\ Updated(s, c).exists = s.exists
           /\ Updated(s, c).enabled =
                IF "enabled" \in DOMAIN c THEN c["enabled"] ELSE s.enabled
           /\ Updated(s, c).next =
                IF "next" \in DOMAIN c THEN c["next"] ELSE s.next
<1>1. /\ Updated(s, c).exists = s.exists
      /\ Updated(s, c).enabled =
           IF "enabled" \in DOMAIN c THEN c["enabled"] ELSE s.enabled
      /\ Updated(s, c).local =
           IF "local" \in DOMAIN c THEN c["local"] ELSE s.local
      /\ Updated(s, c).next =
           IF "next" \in DOMAIN c THEN c["next"] ELSE s.next
  BY DEF Updated, SettingRow, ChangeOK, Columns
<1>2. Updated(s, c) = [exists |-> Updated(s, c).exists,
                       enabled |-> Updated(s, c).enabled,
                       local |-> Updated(s, c).local,
                       next |-> Updated(s, c).next]
  BY DEF Updated, SettingRow
<1>3. /\ Updated(s, c).exists \in BOOLEAN /\ Updated(s, c).enabled \in BOOLEAN
      /\ Updated(s, c).local \in SlotsOfDay
      /\ Updated(s, c).next \in Slots \cup {Never}
  BY <1>1 DEF SettingRow, ChangeOK
<1> QED
  BY <1>1, <1>2, <1>3 DEF SettingRow

(* A request that has changed nothing writes nothing.                      *)
LEMMA NoChange ==
    ChangeOK(NoRequest.change) /\ NoRequest \in [open : BOOLEAN, change : Changes]
<1>1. NoRequest.change \in [{} -> BOOLEAN \cup Slots \cup {Never}]
  BY DEF NoRequest
<1>2. NoRequest.change \in Changes
  BY <1>1 DEF Changes
<1> QED
  BY <1>1, <1>2 DEF ChangeOK, NoRequest

(* What a request changes makes the row the one it asks for.               *)
Difference(new, row) == [c \in {d \in Columns : new[d] # row[d]} |-> new[c]]

LEMMA DifferenceMakes ==
    ASSUME Bounded, NEW s \in SettingRow, NEW new \in SettingRow
    PROVE  /\ ChangeOK(Difference(new, s)) /\ Difference(new, s) \in Changes
           /\ Updated(s, Difference(new, s)).enabled = new.enabled
           /\ Updated(s, Difference(new, s)).next = new.next
<1> DEFINE c == Difference(new, s)
<1>1. /\ new.enabled \in BOOLEAN /\ new.local \in SlotsOfDay
      /\ new.next \in Slots \cup {Never} /\ SlotsOfDay \subseteq Slots
  BY DEF SettingRow, SlotsOfDay, Slots, Bounded
<1>2. \A d \in Columns : new[d] \in BOOLEAN \cup Slots \cup {Never}
  BY <1>1 DEF Columns
<1>3. /\ "enabled" \in DOMAIN c <=> new.enabled # s.enabled
      /\ "local" \in DOMAIN c <=> new.local # s.local
      /\ "next" \in DOMAIN c <=> new.next # s.next
      /\ \A d \in DOMAIN c : d \in Columns /\ c[d] = new[d]
  BY DEF Difference, Columns
<1>4. ChangeOK(c)
  BY <1>1, <1>3 DEF ChangeOK
<1>5. c \in Changes
  <2>1. {d \in Columns : new[d] # s[d]} \in SUBSET Columns
    OBVIOUS
  <2>2. c \in [{d \in Columns : new[d] # s[d]}
                 -> BOOLEAN \cup Slots \cup {Never}]
    BY <1>2 DEF Difference
  <2> QED
    BY <2>1, <2>2 DEF Changes
<1> HIDE DEF c
<1>6. Updated(s, c).enabled = new.enabled /\ Updated(s, c).next = new.next
  BY <1>3, <1>4, UpdatedRow
<1> QED
  BY <1>4, <1>5, <1>6 DEF c

-----------------------------------------------------------------------------
(* At the start there is no setting.                                       *)
LEMMA Start == ASSUME Bounded, Init PROVE IInv
<1>1. NoSetting \in SettingRow /\ IdleScan \in ScanState
  BY DEF Bounded, NoSetting, SettingRow, IdleScan, ScanState, SlotsOfDay, Slots
<1>2. RowsOK
  BY <1>1, NoChange DEF Init, RowsOK, Bounded
<1>3. OpenOK /\ ScanOK
  BY DEF Init, OpenOK, ScanOK, NoRequest, IdleScan, Never
<1>4. Paid
  BY DEF Init, Paid, Owed, NoSetting, IdleScan, Never
<1>5. WholeOK
  BY DEF Init, WholeOK, Whole, NoSetting, NoRequest
<1> QED
  BY <1>2, <1>3, <1>4, <1>5 DEF IInv

-----------------------------------------------------------------------------
(* What an action does to the rows, for the lemmas that follow.            *)

(* Whoever writes the row of the setting writes a row.                     *)
LEMMA SettingWritten ==
    ASSUME Bounded, RowsOK, Next
    PROVE  setting' \in SettingRow
<1>1. ASSUME NEW r \in Requests, CommitSetting(r) PROVE setting' \in SettingRow
  BY <1>1, UpdatedRow DEF CommitSetting, RowsOK
<1>2. ASSUME NEW e \in BOOLEAN, NEW l \in SlotsOfDay,
             CreateSetting(l) \/ Overtake(e, l)
      PROVE  setting' \in SettingRow
  <2>1. setting' \in {Scheduled(TRUE, l, time), Scheduled(e, l, time)}
    BY <1>2 DEF CreateSetting, Overtake
  <2>2. /\ Scheduled(TRUE, l, time) \in SettingRow
        /\ Scheduled(e, l, time) \in SettingRow
    BY ScheduledRow DEF RowsOK
  <2> QED
    BY <2>1, <2>2
<1>3. ASSUME CommitScan PROVE setting' \in SettingRow
  <2>1. scan.local \in SlotsOfDay /\ scan.now \in 0 .. MaxTime
    BY DEF RowsOK, ScanState
  <2>2. ComputeNext(scan.local, scan.now) \in Slots
    BY <2>1, NextComes
  <2> QED
    BY <1>3, <2>2 DEF CommitScan, RowsOK, SettingRow
<1> QED
  BY <1>1, <1>2, <1>3
     DEF Next, Tick, LoadSetting, RegisterDevice, DropDevice, StartScan, Skip,
         Push, RecordPush, RecordFails, FlushPending, ScanFails, Crash, RowsOK

(* A scan holds what it has loaded.                                        *)
LEMMA ScanWritten ==
    ASSUME Bounded, RowsOK, Next
    PROVE  scan' \in ScanState
<1>1. IdleScan \in ScanState
  BY DEF Bounded, IdleScan, ScanState, SlotsOfDay, Slots
<1>2. ASSUME StartScan PROVE scan' \in ScanState
  <2>1. scan' = [at |-> "todo", now |-> time, local |-> setting.local,
                 slot |-> setting.next, to |-> {}, lost |-> FALSE]
    BY <1>2 DEF StartScan, IdleScan
  <2>2. setting.next \in Slots
    BY <1>2 DEF StartScan, Due, RowsOK, Slots, Bounded, SettingRow
  <2> QED
    BY <2>1, <2>2 DEF RowsOK, SettingRow, ScanState
<1>3. ASSUME Skip \/ FlushPending \/ Push \/ (\E d \in SUBSET Devices : RecordPush(d))
      PROVE  scan' \in ScanState
  <2>1. Mine \in SUBSET Devices
    BY DEF Mine
  <2> QED
    BY <1>3, <2>1 DEF Skip, FlushPending, Push, RecordPush, RowsOK, ScanState
<1>4. ASSUME NEW d \in Devices, DropDevice(d) PROVE scan' \in ScanState
  BY <1>4 DEF DropDevice, RowsOK, ScanState
<1> QED
  BY <1>1, <1>2, <1>3, <1>4
     DEF Next, Tick, CreateSetting, LoadSetting, CommitSetting, Overtake,
         RegisterDevice, RecordFails, CommitScan, ScanFails, Crash, RowsOK

(* A request holds the changes it will write.                              *)
LEMMA RequestWritten ==
    ASSUME Bounded, RowsOK, Next
    PROVE  /\ req' \in [Requests -> [open : BOOLEAN, change : Changes]]
           /\ \A r \in Requests : ChangeOK(req'[r].change)
<1>1. ASSUME NEW r \in Requests, NEW e \in BOOLEAN, NEW l \in SlotsOfDay,
             LoadSetting(r, e, l)
      PROVE  /\ req' \in [Requests -> [open : BOOLEAN, change : Changes]]
             /\ \A s \in Requests : ChangeOK(req'[s].change)
  <2> DEFINE c == Difference(Scheduled(e, l, time), setting)
  <2>1. req' = [req EXCEPT ![r] = [open |-> TRUE, change |-> c]]
    BY <1>1 DEF LoadSetting, Difference
  <2>2. ChangeOK(c) /\ c \in Changes
    BY ScheduledRow, DifferenceMakes DEF RowsOK
  <2> HIDE DEF c
  <2> QED
    BY <2>1, <2>2 DEF RowsOK
<1>2. ASSUME NEW r \in Requests, CommitSetting(r)
      PROVE  /\ req' \in [Requests -> [open : BOOLEAN, change : Changes]]
             /\ \A s \in Requests : ChangeOK(req'[s].change)
  BY <1>2, NoChange DEF CommitSetting, RowsOK
<1>3. ASSUME Crash
      PROVE  /\ req' \in [Requests -> [open : BOOLEAN, change : Changes]]
             /\ \A s \in Requests : ChangeOK(req'[s].change)
  BY <1>3, NoChange DEF Crash
<1> QED
  BY <1>1, <1>2, <1>3
     DEF Next, Tick, CreateSetting, Overtake, RegisterDevice, DropDevice,
         StartScan, Skip, Push, RecordPush, RecordFails, FlushPending,
         CommitScan, ScanFails, RowsOK

(* The counters stay within their bounds.                                  *)
LEMMA CountersWritten ==
    ASSUME Bounded, RowsOK, Next
    PROVE  /\ time' \in 0 .. MaxTime /\ failures' \in 0 .. MaxFailures
           /\ late' \in 0 .. MaxLate /\ overtaken' \in 0 .. MaxOvertaken
           /\ pushed' \in Slots \cup {Never} /\ again' \in Nat
           /\ device' \in [Devices -> {"none", "mine", "theirs"}]
<1> USE DEF RowsOK, Bounded
<1>1. ASSUME NEW r \in Requests, CommitSetting(r)
      PROVE  late' \in 0 .. MaxLate /\ overtaken' \in 0 .. MaxOvertaken
  <2> DEFINE open == {s \in Requests \ {r} : req[s].open}
  <2>1. open \in SUBSET Requests
    OBVIOUS
  <2>2. Cardinality(open) \in Nat
    BY <2>1, FS_Subset, FS_CardinalityType
  <2>3. /\ overtaken' = overtaken + Cardinality(open)
        /\ overtaken' <= MaxOvertaken /\ late' <= MaxLate
        /\ late' = late + 1 \/ late' = late
    BY <1>1 DEF CommitSetting
  <2> HIDE DEF open
  <2> QED
    BY <2>2, <2>3
<1>2. ASSUME Push PROVE pushed' \in Slots \cup {Never} /\ again' \in Nat
  BY <1>2 DEF Push, ScanState
<1>3. ASSUME NEW d \in Devices, DropDevice(d)
      PROVE  /\ failures' \in 0 .. MaxFailures
             /\ device' \in [Devices -> {"none", "mine", "theirs"}]
  BY <1>3 DEF DropDevice
<1>4. ASSUME NEW d \in Devices, NEW o \in {"mine", "theirs"},
             RegisterDevice(d, o)
      PROVE  device' \in [Devices -> {"none", "mine", "theirs"}]
  BY <1>4 DEF RegisterDevice
<1>5. ASSUME NEW d \in SUBSET Devices, RecordPush(d)
      PROVE  device' \in [Devices -> {"none", "mine", "theirs"}]
  BY <1>5 DEF RecordPush
<1>6. ASSUME Tick PROVE time' \in 0 .. MaxTime
  BY <1>6 DEF Tick
<1>7. ASSUME ScanFails \/ Crash PROVE failures' \in 0 .. MaxFailures
  BY <1>7 DEF ScanFails, Crash
<1>8. ASSUME NEW e \in BOOLEAN, NEW l \in SlotsOfDay, Overtake(e, l)
      PROVE  overtaken' \in 0 .. MaxOvertaken
  BY <1>8 DEF Overtake
<1> QED
  BY <1>1, <1>2, <1>3, <1>4, <1>5, <1>6, <1>7, <1>8
     DEF Next, Tick, CreateSetting, LoadSetting, CommitSetting, Overtake,
         RegisterDevice, DropDevice, StartScan, Skip, Push, RecordPush,
         RecordFails, FlushPending, CommitScan, ScanFails, Crash, history

(* Every step keeps the types.                                             *)
LEMMA RowsKept ==
    ASSUME Bounded, RowsOK, Next
    PROVE  RowsOK'
  BY SettingWritten, ScanWritten, RequestWritten, CountersWritten DEF RowsOK

(* A setting that a request has loaded is never deleted.                   *)
LEMMA OpenKept ==
    ASSUME Bounded, RowsOK, OpenOK, Next
    PROVE  OpenOK'
<1>1. setting.exists => setting'.exists
  <2>1. ASSUME NEW r \in Requests, CommitSetting(r)
        PROVE  setting'.exists = setting.exists
    BY <2>1, UpdatedRow DEF CommitSetting, RowsOK
  <2>2. ASSUME NEW e \in BOOLEAN, NEW l \in SlotsOfDay,
               CreateSetting(l) \/ Overtake(e, l)
        PROVE  setting'.exists
    <3>1. setting' \in {Scheduled(TRUE, l, time), Scheduled(e, l, time)}
      BY <2>2 DEF CreateSetting, Overtake
    <3> QED
      BY <3>1, ScheduledRow DEF RowsOK
  <2>3. ASSUME CommitScan PROVE setting'.exists = setting.exists
    BY <2>3 DEF CommitScan, RowsOK, SettingRow
  <2> QED
    BY <2>1, <2>2, <2>3
       DEF Next, Tick, LoadSetting, RegisterDevice, DropDevice, StartScan,
           Skip, Push, RecordPush, RecordFails, FlushPending, ScanFails, Crash
<1>2. \A r \in Requests : req'[r].open => setting.exists \/ req[r].open
  <2>1. ASSUME NEW s \in Requests, CommitSetting(s)
        PROVE  \A r \in Requests : req'[r].open => req[r].open
    BY <2>1 DEF CommitSetting, RowsOK, NoRequest
  <2>2. ASSUME NEW s \in Requests, NEW e \in BOOLEAN, NEW l \in SlotsOfDay,
               LoadSetting(s, e, l)
        PROVE  setting.exists
    BY <2>2 DEF LoadSetting
  <2>3. ASSUME Crash PROVE \A r \in Requests : ~req'[r].open
    BY <2>3 DEF Crash, NoRequest
  <2> QED
    BY <2>1, <2>2, <2>3
       DEF Next, Tick, CreateSetting, Overtake, RegisterDevice, DropDevice,
           StartScan, Skip, Push, RecordPush, RecordFails, FlushPending,
           CommitScan, ScanFails
<1> QED
  BY <1>1, <1>2 DEF OpenOK

-----------------------------------------------------------------------------
(* Scans and the pushes that are owed.                                     *)

(* Every step keeps the order of what a scan has loaded and pushed.        *)
LEMMA ScanKept ==
    ASSUME Bounded, RowsOK, ScanOK, Next
    PROVE  ScanOK'
<1> USE DEF ScanOK
<1>0. /\ time \in Int /\ pushed \in Int /\ scan.slot \in Int
      /\ scan.now \in Int
  BY DEF RowsOK, Bounded, Slots, Never, ScanState
<1>1. ASSUME StartScan PROVE ScanOK'
  <2>1. scan' = [at |-> "todo", now |-> time, local |-> setting.local,
                 slot |-> setting.next, to |-> {}, lost |-> FALSE]
    BY <1>1 DEF StartScan, IdleScan
  <2> QED
    <3>1. /\ time' = time /\ pushed' = pushed /\ setting.next <= time
          /\ pushed <= time
      BY <1>1 DEF StartScan, Due, history, RowsOK, Bounded
    <3> QED
      BY <1>0, <2>1, <3>1
<1>2. ASSUME Skip \/ FlushPending PROVE ScanOK'
  BY <1>0, <1>2 DEF Skip, FlushPending, history, RowsOK, ScanState
<1>3. ASSUME Push PROVE ScanOK'
  BY <1>0, <1>3 DEF Push, RowsOK, ScanState
<1>4. ASSUME NEW d \in SUBSET Devices, RecordPush(d) PROVE ScanOK'
  BY <1>0, <1>4 DEF RecordPush, history, RowsOK, ScanState
<1>5. ASSUME scan' = IdleScan, UNCHANGED <<time, pushed>> PROVE ScanOK'
  BY <1>5 DEF IdleScan
<1>6. ASSUME NEW d \in Devices, DropDevice(d) PROVE ScanOK'
  BY <1>0, <1>6 DEF DropDevice, RowsOK, ScanState
<1>7. ASSUME scan' = scan, pushed' = pushed, time' = time \/ time' = time + 1
      PROVE  ScanOK'
  BY <1>0, <1>7
<1> QED
  BY <1>1, <1>2, <1>3, <1>4, <1>5, <1>6, <1>7
     DEF Next, Tick, CreateSetting, LoadSetting, CommitSetting, Overtake,
         RegisterDevice, RecordFails, CommitScan, ScanFails, Crash, history

(* What is counted never grows less.                                       *)
LEMMA Counted ==
    ASSUME NEW a \in Nat, NEW f \in Nat, NEW l \in Nat,
           NEW g \in Nat, NEW m \in Nat, g >= f, m >= l
    PROVE  /\ a <= f + l => a <= g + m
           /\ a < f + l => a < g + m
  OBVIOUS

(* Every push that is owed is paid for by a scan that died or a commit     *)
(* that came late.                                                         *)
LEMMA PaidKept ==
    ASSUME Bounded, RowsOK, ScanOK, Paid, Next
    PROVE  Paid'
<1>0. /\ time \in Nat /\ pushed \in Int /\ scan.slot \in Nat
      /\ scan.now \in Nat /\ failures \in Nat /\ late \in Nat /\ again \in Nat
      /\ pushed <= time
  BY DEF RowsOK, Bounded, Slots, Never, ScanState, ScanOK
<1>1. ASSUME Owed' => Owed, again' = again, failures' >= failures,
             late' >= late, failures' \in Nat, late' \in Nat
      PROVE  Paid'
  <2>0. /\ failures' \in Nat /\ late' \in Nat /\ again' = again
        /\ failures' >= failures /\ late' >= late
        /\ failures \in Nat /\ late \in Nat /\ again \in Nat
    BY <1>0, <1>1
  <2>1. again' <= failures' + late'
    <3>1. again <= failures + late
      BY DEF Paid
    <3> QED
      BY <2>0, <3>1, Counted
  <2>2. ASSUME Owed' PROVE again' < failures' + late'
    <3>1. again < failures + late
      BY <1>1, <2>2 DEF Paid
    <3> QED
      BY <2>0, <3>1, Counted
  <2> QED
    BY <2>1, <2>2 DEF Paid
<1>2. ASSUME again' = again,
             \/ failures' = failures + 1 /\ late' = late
             \/ failures' = failures /\ late' = late + 1
      PROVE  Paid'
  BY <1>0, <1>2 DEF Paid
<1>3. ASSUME NEW e \in BOOLEAN, NEW l \in SlotsOfDay,
             CreateSetting(l) \/ Overtake(e, l)
      PROVE  Paid'
  <2>1. setting'.next \notin 0 .. time /\ scan' = scan /\ pushed' = pushed
    BY <1>3, ScheduledRow DEF CreateSetting, Overtake, history, RowsOK
  <2>2. Owed' => Owed
    BY <1>0, <2>1 DEF Owed
  <2> QED
    <3>1. again' = again /\ failures' = failures /\ late' = late
      BY <1>3 DEF CreateSetting, Overtake, history
    <3> QED
      BY <1>0, <1>1, <2>2, <3>1
<1>4. ASSUME NEW r \in Requests, CommitSetting(r) PROVE Paid'
  <2>1. scan' = scan /\ pushed' = pushed /\ again' = again
        /\ failures' = failures
    BY <1>4 DEF CommitSetting
  <2>2. CASE late' = late + 1
    BY <1>2, <2>1, <2>2
  <2>3. CASE late' = late
    <3>1. ~("next" \in DOMAIN req[r].change /\ setting'.next \in 0 .. time)
      BY <1>0, <1>4, <2>3 DEF CommitSetting
    <3>2. setting'.next = setting.next \/ setting'.next \notin 0 .. time
      BY <1>4, <3>1, UpdatedRow DEF CommitSetting, RowsOK
    <3>3. Owed' => Owed
      BY <1>0, <2>1, <3>2 DEF Owed
    <3> QED
      BY <1>0, <1>1, <2>1, <2>3, <3>3
  <2>4. late' = late + 1 \/ late' = late + 0
    BY <1>4 DEF CommitSetting
  <2> QED
    BY <1>0, <2>2, <2>3, <2>4
<1>5. ASSUME NEW d \in Devices, DropDevice(d) PROVE Paid'
  <2>1. CASE failures' = failures + 1
    BY <1>2, <1>5, <2>1 DEF DropDevice
  <2>2. CASE UNCHANGED <<failures, scan>>
    <3>1. Owed' => Owed
      BY <1>5, <2>2 DEF DropDevice, Owed
    <3> QED
      BY <1>0, <1>1, <1>5, <2>2, <3>1 DEF DropDevice
  <2> QED
    BY <1>5, <2>1, <2>2 DEF DropDevice
<1>6. ASSUME StartScan PROVE Paid'
  <2>1. scan' = [at |-> "todo", now |-> time, local |-> setting.local,
                 slot |-> setting.next, to |-> {}, lost |-> FALSE]
    BY <1>6 DEF StartScan, IdleScan
  <2>2. scan.at = "off" /\ setting.next \in 0 .. time /\ pushed' = pushed
    BY <1>6 DEF StartScan, Due, history
  <2>3. Owed' => setting.next <= pushed
    BY <2>1, <2>2 DEF Owed
  <2>4. Owed' => Owed
    BY <1>0, <2>2, <2>3 DEF Owed
  <2> QED
    BY <1>0, <1>1, <1>6, <2>4 DEF StartScan, history
<1>7. ASSUME Skip \/ FlushPending \/ (\E d \in SUBSET Devices : RecordPush(d))
      PROVE  Paid'
  <2>1. /\ scan'.lost = scan.lost /\ scan'.at \in {"pending", "flushed"}
        /\ UNCHANGED history
    BY <1>7 DEF Skip, FlushPending, RecordPush, RowsOK, ScanState
  <2>2. Owed' => Owed
    BY <2>1 DEF Owed
  <2> QED
    BY <1>0, <1>1, <2>1, <2>2 DEF history
<1>8. ASSUME Push PROVE Paid'
  <2>1. /\ scan'.at = "pushing" /\ scan'.lost = scan.lost
        /\ scan.at = "todo" /\ scan.lost = FALSE
        /\ failures' = failures /\ late' = late
        /\ again' = IF pushed < scan.slot THEN again ELSE again + 1
    BY <1>8 DEF Push, RowsOK, ScanState, ScanOK
  <2>2. ~Owed'
    BY <2>1 DEF Owed
  <2>3. Owed <=> scan.slot <= pushed
    BY <2>1 DEF Owed
  <2> QED
    BY <1>0, <2>1, <2>2, <2>3 DEF Paid
<1>9. ASSUME CommitScan PROVE Paid'
  <2>1. scan.local \in SlotsOfDay /\ scan.now \in 0 .. MaxTime
    BY DEF RowsOK, ScanState
  <2>2. setting'.next = ComputeNext(scan.local, scan.now)
    BY <1>9 DEF CommitScan, RowsOK, SettingRow
  <2>3. setting'.next > scan.now /\ setting'.next \in Int
    BY <2>1, <2>2, NextComes DEF Slots, Bounded
  <2>4. pushed' = pushed /\ pushed <= scan.now
    BY <1>9 DEF CommitScan, history, ScanOK
  <2>5. ~Owed'
    BY <1>0, <1>9, <2>3, <2>4 DEF CommitScan, Owed, IdleScan
  <2> QED
    BY <1>0, <1>1, <1>9, <2>5 DEF CommitScan, history
<1>10. ASSUME RecordFails PROVE Paid'
  <2>1. Owed
    BY <1>10 DEF RecordFails, Owed
  <2> QED
    BY <1>0, <1>1, <1>10, <2>1 DEF RecordFails, history
<1>11. ASSUME ScanFails \/ Crash PROVE Paid'
  BY <1>2, <1>11 DEF ScanFails, Crash
<1>12. ASSUME UNCHANGED <<setting, scan, history>> PROVE Paid'
  BY <1>12 DEF history, Paid, Owed
<1> QED
  BY <1>3, <1>4, <1>5, <1>6, <1>7, <1>8, <1>9, <1>10, <1>11, <1>12
     DEF Next, Tick, LoadSetting, RegisterDevice

-----------------------------------------------------------------------------
(* Rows that are switched on.                                              *)

(* While no requests have overlapped, none leaves a row without its time.  *)
LEMMA WholeKept ==
    ASSUME Bounded, RowsOK, OpenOK, WholeOK, Next
    PROVE  WholeOK'
<1>0. overtaken \in Nat
  BY DEF RowsOK, Bounded
<1>1. ASSUME NEW l \in SlotsOfDay, CreateSetting(l) PROVE WholeOK'
  <2>1. /\ setting' = Scheduled(TRUE, l, time) /\ req' = req
        /\ \A r \in Requests : ~req[r].open
    BY <1>1 DEF CreateSetting, OpenOK
  <2> QED
    BY <2>1, ScheduledRow DEF WholeOK, RowsOK
<1>2. ASSUME NEW r \in Requests, NEW e \in BOOLEAN, NEW l \in SlotsOfDay,
             LoadSetting(r, e, l)
      PROVE  WholeOK'
  <2> DEFINE new == Scheduled(e, l, time)
             c == Difference(new, setting)
  <2>1. req' = [req EXCEPT ![r] = [open |-> TRUE, change |-> c]]
    BY <1>2 DEF LoadSetting, Difference
  <2>2. Whole(Updated(setting, c))
    <3>1. new \in SettingRow /\ Whole(new)
      BY ScheduledRow DEF RowsOK
    <3>2. /\ Updated(setting, c).enabled = new.enabled
          /\ Updated(setting, c).next = new.next
      BY <3>1, DifferenceMakes DEF RowsOK
    <3> QED
      BY <3>1, <3>2 DEF Whole
  <2>3. setting' = setting /\ overtaken' = overtaken
    BY <1>2 DEF LoadSetting, history
  <2> HIDE DEF c
  <2>4. \A s \in Requests \ {r} : req'[s] = req[s]
    BY <2>1 DEF RowsOK
  <2>5. req'[r].change = c
    BY <2>1 DEF RowsOK
  <2> QED
    BY <2>2, <2>3, <2>4, <2>5 DEF WholeOK
<1>3. ASSUME NEW r \in Requests, CommitSetting(r) PROVE WholeOK'
  <2> SUFFICES ASSUME overtaken' = 0
               PROVE  /\ Whole(setting')
                      /\ \A s \in Requests : ~req'[s].open
    BY DEF WholeOK
  <2> DEFINE open == {s \in Requests \ {r} : req[s].open}
  <2>1. open \in SUBSET Requests
    OBVIOUS
  <2>2. IsFiniteSet(open) /\ Cardinality(open) \in Nat
    BY <2>1, FS_Subset, FS_CardinalityType DEF Bounded
  <2>3. overtaken' = overtaken + Cardinality(open)
    BY <1>3 DEF CommitSetting
  <2> HIDE DEF open
  <2>4. overtaken = 0 /\ Cardinality(open) = 0
    BY <1>0, <2>2, <2>3
  <2>5. open = {}
    BY <2>2, <2>4, FS_EmptySet
  <2>6. \A s \in Requests : ~req'[s].open
    BY <1>3, <2>5 DEF open, CommitSetting, RowsOK, NoRequest
  <2>7. Whole(setting')
    BY <1>3, <2>4 DEF CommitSetting, WholeOK
  <2> QED
    BY <2>6, <2>7
<1>4. ASSUME NEW e \in BOOLEAN, NEW l \in SlotsOfDay, Overtake(e, l)
      PROVE  WholeOK'
  BY <1>0, <1>4 DEF Overtake, WholeOK
<1>5. ASSUME CommitScan PROVE WholeOK'
  <2>1. scan.local \in SlotsOfDay /\ scan.now \in 0 .. MaxTime
    BY DEF RowsOK, ScanState
  <2>2. setting'.next # Never /\ setting'.enabled = setting.enabled
    BY <1>5, <2>1, NextComes DEF CommitScan, RowsOK, SettingRow
  <2>3. setting' \in SettingRow
    BY <1>5, SettingWritten
  <2>4. ASSUME NEW r \in Requests, Whole(Updated(setting, req[r].change))
        PROVE  Whole(Updated(setting', req[r].change))
    BY <2>2, <2>3, <2>4, UpdatedRow DEF Whole, RowsOK
  <2>5. req' = req /\ overtaken' = overtaken
    BY <1>5 DEF CommitScan, history
  <2> QED
    BY <2>2, <2>4, <2>5 DEF WholeOK, Whole
<1>6. ASSUME Crash PROVE WholeOK'
  BY <1>6 DEF Crash, WholeOK, NoRequest
<1>7. ASSUME UNCHANGED <<setting, req, overtaken>> PROVE WholeOK'
  BY <1>7 DEF WholeOK
<1> QED
  BY <1>1, <1>2, <1>3, <1>4, <1>5, <1>6, <1>7
     DEF Next, Tick, RegisterDevice, DropDevice, StartScan, Skip, Push,
         RecordPush, RecordFails, FlushPending, ScanFails, history

-----------------------------------------------------------------------------
(* Every step keeps the inductive invariant.                               *)
LEMMA StepKeeps ==
    ASSUME Bounded, IInv, [Next]_vars
    PROVE  IInv'
<1>1. CASE Next
  BY <1>1, RowsKept, OpenKept, ScanKept, PaidKept, WholeKept DEF IInv
<1>2. CASE UNCHANGED vars
  BY <1>2 DEF vars, history, IInv, RowsOK, OpenOK, ScanOK, Paid, Owed, WholeOK
<1> QED
  BY <1>1, <1>2

(* The inductive invariant holds in every reachable state.                 *)
THEOREM Inductive == ASSUME Bounded PROVE Spec => []IInv
<1>1. Init => IInv
  BY Start
<1>2. IInv /\ [Next]_vars => IInv'
  BY StepKeeps
<1> QED
  BY <1>1, <1>2, PTL DEF Spec

(* Every variable keeps its type, and so does every row a request is going *)
(* to leave.                                                               *)
THEOREM Types == ASSUME Bounded PROVE Spec => []TypeOK
<1>1. IInv => TypeOK
  BY UpdatedRow DEF IInv, RowsOK, TypeOK
<1> QED
  BY <1>1, Inductive, PTL

(* A reminder is pushed again for a slot only after a scan has died or a   *)
(* request has committed late, once for each (process_due_reminders).      *)
THEOREM Explained == ASSUME Bounded PROVE Spec => []RepeatsExplained
<1>1. IInv => RepeatsExplained
  BY DEF IInv, RowsOK, Bounded, Paid, RepeatsExplained
<1> QED
  BY <1>1, Inductive, PTL

(* A reminder that is switched on has a time to be sent at, unless two     *)
(* requests have overlapped (_recompute_setting_schedule).                 *)
THEOREM HasTime == ASSUME Bounded PROVE Spec => []EnabledIsScheduled
<1>1. IInv => EnabledIsScheduled
  BY DEF IInv, RowsOK, Bounded, WholeOK, Whole, EnabledIsScheduled
<1> QED
  BY <1>1, Inductive, PTL
=============================================================================
