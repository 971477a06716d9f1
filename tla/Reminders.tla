----------------------------- MODULE Reminders -----------------------------
(***************************************************************************)
(* A meal reminder: the loop that scans for due settings and pushes, and   *)
(* the requests that change the setting and the devices while it runs      *)
(* (backend/app/domains/notification/).                                    *)
(*                                                                         *)
(* A scan works in one session.  It loads all due settings, and for each   *)
(* looks for the meal, pushes to the user's devices (seconds of network)   *)
(* and computes the next time from the row as loaded.  That next time is a *)
(* pending change: the next query of the session flushes it, which locks   *)
(* the row, and the commit after the next push, or the one at the end of   *)
(* the scan, makes it durable.  Settings share nothing but that session,   *)
(* so one of them is modelled, with what the scan does for the others      *)
(* before and after it.                                                    *)
(*                                                                         *)
(* Time is counted in slots, DayLength of them to a day; local_time and    *)
(* timezone are the slot of the day they name.                             *)
(***************************************************************************)
EXTENDS Integers, FiniteSets

CONSTANTS
    Devices,      \* push tokens
    Requests,     \* requests that change the setting
    DayLength,    \* slots of a day
    MaxTime,      \* bound: slots a run lasts
    MaxFailures,  \* bound: scans that die, with or without the process
    MaxLate,      \* bound: requests that commit a next time already past
    MaxOvertaken  \* bound: requests that others overtake

VARIABLES
    time,
    setting,    \* the committed row of notification_settings
    device,     \* the owner in device_tokens, or "none" without a row
    scan,       \* the session of the reminder loop
    req,        \* the pending changes of each PUT /notifications/settings
    failures,   \* history: scans that died or are bound to
    late,       \* history: late commits of requests
    overtaken,  \* history: commits of requests while another was open
    pushed,     \* history: the slot last pushed for
    again       \* history: pushes for that slot or one before it

history == <<failures, late, overtaken, pushed, again>>
vars == <<time, setting, device, scan, req, history>>

Slots == 0 .. MaxTime + DayLength
Never == -1                     \* next_send_at IS NULL
SlotsOfDay == 0 .. DayLength - 1

(* Mutant: tomorrow, even when today's slot is still to come.              *)
ComputeNextTomorrow(local, now) ==
    CHOOSE s \in now + DayLength + 1 .. now + 2 * DayLength :
        s % DayLength = local

(* Mutant: the slot that has just come counts as the next.                 *)
ComputeNextOrNow(local, now) ==
    CHOOSE s \in now .. now + DayLength - 1 : s % DayLength = local

(* compute_next_send_at: the next such slot, strictly after now.           *)
ComputeNext(local, now) ==
    CHOOSE s \in now + 1 .. now + DayLength : s % DayLength = local

SettingRow ==
    [exists : BOOLEAN, enabled : BOOLEAN, local : SlotsOfDay,
     next : Slots \cup {Never}]

NoSetting == [exists |-> FALSE, enabled |-> FALSE, local |-> 0,
              next |-> Never]

(* Mutant: the next time is only computed for a changed local time.        *)
ScheduledIfMoved(enabled, local, now) ==
    [exists |-> TRUE, enabled |-> enabled, local |-> local,
     next |-> IF ~enabled THEN Never
              ELSE IF local = setting.local THEN setting.next
              ELSE ComputeNext(local, now)]

(* _recompute_setting_schedule *)
Scheduled(enabled, local, now) ==
    [exists |-> TRUE, enabled |-> enabled, local |-> local,
     next |-> IF enabled THEN ComputeNext(local, now) ELSE Never]

ScanState ==
    [at : {"off", "todo", "pushing", "pending", "flushed"},
     now : 0 .. MaxTime,
     local : SlotsOfDay, slot : Slots,  \* the row as loaded
     to : SUBSET Devices,               \* the devices of the push, and
     lost : BOOLEAN]                    \* if one was deleted meanwhile

IdleScan == [at |-> "off", now |-> 0, local |-> 0, slot |-> 0, to |-> {},
             lost |-> FALSE]

Columns == {"enabled", "local", "next"}
Updated(row, change) ==
    [c \in DOMAIN row |-> IF c \in DOMAIN change THEN change[c] ELSE row[c]]
NoRequest == [open |-> FALSE, change |-> <<>>]

Due == setting.enabled /\ setting.next \in 0 .. time
Mine == {d \in Devices : device[d] = "mine"}

Init ==
    /\ time = 0
    /\ setting = NoSetting
    /\ device = [d \in Devices |-> "none"]
    /\ scan = IdleScan
    /\ req = [r \in Requests |-> NoRequest]
    /\ failures = 0 /\ late = 0 /\ overtaken = 0
    /\ pushed = Never /\ again = 0

Tick ==
    /\ time < MaxTime
    /\ time' = time + 1
    /\ UNCHANGED <<setting, device, scan, req, history>>

-----------------------------------------------------------------------------
(* Requests.                                                               *)

(* get_or_create_settings, with the default of one type or another; the    *)
(* unique constraint makes a request that comes second fail.               *)
CreateSetting(local) ==
    /\ ~setting.exists
    /\ setting' = Scheduled(TRUE, local, time)
    /\ UNCHANGED <<time, device, scan, req, history>>

LoadSetting(r, enabled, local) ==
    /\ ~req[r].open /\ setting.exists
    /\ LET new == Scheduled(enabled, local, time)
           changed == {c \in Columns : new[c] # setting[c]}
       IN req' = [req EXCEPT ![r] =
                    [open |-> TRUE, change |-> [c \in changed |-> new[c]]]]
    /\ UNCHANGED <<time, setting, device, scan, history>>

(* The UPDATE names only the changed columns, and waits for the row if the *)
(* scan has flushed it.                                                    *)
CommitSetting(r) ==
    /\ req[r].open
    /\ req[r].change = <<>> \/ scan.at # "flushed"
    /\ setting' = Updated(setting, req[r].change)
    /\ late' = late + (IF /\ "next" \in DOMAIN req[r].change
                          /\ setting'.next \in 0 .. time THEN 1 ELSE 0)
    /\ late' <= MaxLate
    /\ req' = [req EXCEPT ![r] = NoRequest]
    /\ overtaken' = overtaken
         + Cardinality({s \in Requests \ {r} : req[s].open})
    /\ overtaken' <= MaxOvertaken
    /\ UNCHANGED <<time, device, scan, failures, pushed, again>>

(* A request from another device of the user, that reads and commits while *)
(* one in Requests is open.                                                *)
Overtake(enabled, local) ==
    /\ setting.exists /\ scan.at # "flushed"
    /\ overtaken < MaxOvertaken /\ \E r \in Requests : req[r].open
    /\ setting' = Scheduled(enabled, local, time)
    /\ overtaken' = overtaken + 1
    /\ UNCHANGED <<time, device, scan, req, failures, late, pushed, again>>

(* upsert_device: the app of this user, or of another on the same phone.   *)
RegisterDevice(d, owner) ==
    /\ device' = [device EXCEPT ![d] = owner]
    /\ UNCHANGED <<time, setting, scan, req, history>>

(* delete_device, and the push of another event that finds the token dead. *)
DropDevice(d) ==
    /\ device[d] = "mine"
    /\ device' = [device EXCEPT ![d] = "none"]
    /\ IF d \in scan.to /\ ~scan.lost
       THEN /\ failures < MaxFailures
            /\ failures' = failures + 1
            /\ scan' = [scan EXCEPT !.lost = TRUE]
       ELSE UNCHANGED <<failures, scan>>
    /\ UNCHANGED <<time, setting, req, late, overtaken, pushed, again>>

-----------------------------------------------------------------------------
(* process_due_reminders.                                                  *)

StartScan ==
    /\ scan.at = "off" /\ Due
    /\ scan' = [IdleScan EXCEPT !.at = "todo", !.now = time,
                                !.local = setting.local,
                                !.slot = setting.next]
    /\ UNCHANGED <<time, setting, device, req, history>>

(* No meal to remind of, or no device: nothing is sent.                    *)
Skip ==
    /\ scan.at = "todo"
    /\ scan' = [scan EXCEPT !.at = "pending"]
    /\ UNCHANGED <<time, setting, device, req, history>>

Push ==
    /\ scan.at = "todo" /\ Mine # {}
    /\ scan' = [scan EXCEPT !.at = "pushing", !.to = Mine]
    /\ pushed' = scan.slot
    /\ again' = IF pushed < scan.slot THEN again ELSE again + 1
    /\ UNCHANGED <<time, setting, device, req, failures, late, overtaken>>

(* send_to_user commits the logs of the push and the deletion of the       *)
(* tokens found dead; the next time is computed only then.                 *)
RecordPush(dead) ==
    /\ scan.at = "pushing" /\ ~scan.lost
    /\ dead \subseteq scan.to
    /\ device' = [d \in Devices |-> IF d \in dead THEN "none" ELSE device[d]]
    /\ scan' = [scan EXCEPT !.at = "pending", !.to = {}]
    /\ UNCHANGED <<time, setting, req, history>>

(* A log names a token that was deleted since: its foreign key fails, and  *)
(* the exception ends the scan.                                            *)
RecordFails ==
    /\ scan.at = "pushing" /\ scan.lost
    /\ scan' = IdleScan
    /\ UNCHANGED <<time, setting, device, req, history>>

(* The scan goes on to another setting: its query flushes this one.        *)
FlushPending ==
    /\ scan.at = "pending"
    /\ scan' = [scan EXCEPT !.at = "flushed"]
    /\ UNCHANGED <<time, setting, device, req, history>>

(* Mutant: only a push moves the next time on, a skip does not.            *)
CommitScanPushed ==
    /\ scan.at \in {"pending", "flushed"}
    /\ setting' = IF pushed = scan.slot
                  THEN [setting EXCEPT !.next =
                          ComputeNext(scan.local, scan.now)]
                  ELSE setting
    /\ scan' = IdleScan
    /\ UNCHANGED <<time, device, req, history>>

(* The commit after another setting's push, or the last one.               *)
CommitScan ==
    /\ scan.at \in {"pending", "flushed"}
    /\ setting' = [setting EXCEPT !.next = ComputeNext(scan.local, scan.now)]
    /\ scan' = IdleScan
    /\ UNCHANGED <<time, device, req, history>>

(* Another setting's push cannot be recorded, or the process dies and the  *)
(* requests with it.                                                       *)
ScanFails ==
    /\ scan.at # "off" /\ failures < MaxFailures
    /\ scan' = IdleScan
    /\ failures' = failures + 1
    /\ UNCHANGED <<time, setting, device, req, late, overtaken, pushed, again>>

Crash ==
    /\ failures < MaxFailures
    /\ scan' = IdleScan
    /\ req' = [r \in Requests |-> NoRequest]
    /\ failures' = failures + 1
    /\ UNCHANGED <<time, setting, device, late, overtaken, pushed, again>>

Next ==
    \/ Tick
    \/ \E l \in SlotsOfDay : CreateSetting(l)
    \/ \E r \in Requests, e \in BOOLEAN, l \in SlotsOfDay : LoadSetting(r, e, l)
    \/ \E r \in Requests : CommitSetting(r)
    \/ \E e \in BOOLEAN, l \in SlotsOfDay : Overtake(e, l)
    \/ \E d \in Devices, owner \in {"mine", "theirs"} : RegisterDevice(d, owner)
    \/ \E d \in Devices : DropDevice(d)
    \/ StartScan
    \/ Skip
    \/ Push
    \/ \E dead \in SUBSET Devices : RecordPush(dead)
    \/ RecordFails
    \/ FlushPending
    \/ CommitScan
    \/ ScanFails
    \/ Crash

Spec == Init /\ [][Next]_vars

(* Time passes, and the loop scans every 30 seconds and goes on after an   *)
(* exception.                                                              *)
Fairness ==
    /\ WF_vars(Tick)
    /\ WF_vars(StartScan)
    /\ WF_vars(Skip \/ Push)
    /\ WF_vars(\E dead \in SUBSET Devices : RecordPush(dead))
    /\ WF_vars(RecordFails)
    /\ WF_vars(CommitScan)

FairSpec == Spec /\ Fairness

-----------------------------------------------------------------------------
(* Every variable keeps its type.                                          *)
TypeOK ==
    /\ time \in 0 .. MaxTime
    /\ setting \in SettingRow
    /\ device \in [Devices -> {"none", "mine", "theirs"}]
    /\ scan \in ScanState
    /\ \A r \in Requests : /\ req[r].open \in BOOLEAN
                           /\ Updated(setting, req[r].change) \in SettingRow
    /\ failures \in 0 .. MaxFailures /\ late \in 0 .. MaxLate
    /\ overtaken \in 0 .. MaxOvertaken
    /\ pushed \in Slots \cup {Never} /\ again \in Nat

(* No slot comes round twice: a reminder is pushed again for a slot it was *)
(* pushed for only because a scan died after the push and before its       *)
(* commit, or a request that had computed the slot as the next one kept    *)
(* its transaction open until it was past.                                 *)
RepeatsExplained == again <= failures + late

(* An enabled reminder has a next time: no overlap of a request with a     *)
(* scan leaves it enabled and never due (service.py:55).  Two requests     *)
(* that overlap can: each writes only what it changed, so that one may     *)
(* switch it on while the other, that found it off, clears its time.       *)
EnabledIsScheduled ==
    setting.enabled /\ setting.next = Never => overtaken > 0

(* A due reminder is handled: its next time moves on, or the user turned   *)
(* it off.                                                                 *)
DueIsHandled == Due ~> ~Due

(* Off is off: nothing is pushed for a reminder that is disabled when the  *)
(* push is made ("checked again right before sending", scheduler.py:5).    *)
(* It does not hold: nothing is read again after the scan loaded the row.  *)
NoPushWhenOff == [][Push => setting.enabled]_vars
=============================================================================
