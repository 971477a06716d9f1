--------------------------- MODULE OrderLifecycle ---------------------------
(***************************************************************************)
(* The orders of one user, one weekly or biweekly delivery cycle at a      *)
(* time, as backend/app/domains/order/service.py and the scans of          *)
(* backend/app/domains/cycle/scheduler.py drive them.                      *)
(*                                                                         *)
(* Every HTTP request and the scheduler own a database session.  The       *)
(* database is PostgreSQL at READ COMMITTED: a plain SELECT sees the last  *)
(* committed row and takes no lock, SELECT .. FOR UPDATE and UPDATE wait   *)
(* for the row lock, and an UPDATE by primary key overwrites whatever row  *)
(* it finds once it has the lock.  A handler that awaits the price lookup  *)
(* between its reads and its commit is two or three actions; one that      *)
(* holds the row lock from its read to its commit and looks at no other    *)
(* row that its outcome depends on is a single action.                     *)
(*                                                                         *)
(* Time: "clock" is the cycle whose delivery day comes next                *)
(* (cycle_window).  When a draft becomes due and when a delivery arrives   *)
(* is left open: a due time may have passed at any moment.                 *)
(***************************************************************************)
EXTENDS Integers, FiniteSets

CONSTANTS
    Orders,           \* the order rows that can ever be created
    Requests,         \* HTTP requests in flight at the same time
    Scheduler,        \* the session of the scheduler loop
    NoSession,        \* the owner of a lock nobody holds
    MaxCycle,         \* cycles are numbered 1 .. MaxCycle
    CancelCycles,     \* cancel_window_days in cycles: 1 weekly, 2 biweekly
    UnknownAttempts   \* "not arrived" answers before the delivery is unknown

Sessions == Requests \cup {Scheduler}
Cycles == 1 .. MaxCycle

ASSUME SessionsDistinct ==
    /\ Scheduler \notin Requests
    /\ NoSession \notin Sessions
ASSUME BoundsAreNat ==
    /\ MaxCycle \in Nat \ {0}
    /\ CancelCycles \in Nat
    /\ UnknownAttempts \in Nat \ {0}

VARIABLES
    order,         \* the committed rows of table orders
    stock,         \* how many times an order's lines are in the fridge
    rowLock,       \* who holds the row lock of an order
    settingsLock,  \* who holds the row lock of user_cycle_settings
    tx,            \* the transaction each session is in
    autoConfirm,   \* user_cycle_settings: auto_confirm and enabled
    skipUntil,     \* user_cycle_settings.skip_until, 0 for null
    clock,         \* cycle_window(now).cycle_start
    overwritten    \* history: orders closed by a write based on a stale read

vars == <<order, stock, rowLock, settingsLock, tx, autoConfirm, skipUntil,
          clock, overwritten>>

-----------------------------------------------------------------------------
(* Rows.                                                                   *)

Open == {"draft", "awaiting_user"}
Closed == {"cancelled", "expired"}
Statuses == Open \cup Closed \cup {"confirmed"}
Absent == "absent"
DeliveryStates == {"pending", "delivered", "unknown"}

OrderRow ==
    [cycle : Cycles,
     status : Statuses \cup {Absent},
     armed : BOOLEAN,                  \* auto_confirm_at is not null
     auto : BOOLEAN,                   \* auto_confirmed
     needed : BOOLEAN,                 \* some line has line_type "needed"
     inbound : BOOLEAN,                \* inbound_at is not null
     delivery : DeliveryStates,
     attempts : 0 .. UnknownAttempts,  \* saturates: only compared with >=
     reminded : BOOLEAN]

NewRow(c, status, armed) ==
    [cycle |-> c, status |-> status, armed |-> armed, auto |-> FALSE,
     needed |-> TRUE, inbound |-> FALSE, delivery |-> "pending",
     attempts |-> 0, reminded |-> FALSE]

(* What a session remembers between its steps: the rows it read or locked, *)
(* those it loaded with auto_confirm_at set, and its cycle_start.          *)
Points == {"idle", "confirm_flush", "confirm_preview", "approve_preview",
           "draft_preview", "auto_expire", "auto_off", "auto_gates",
           "auto_conflict", "auto_duplicate", "auto_remind",
           "skip_settings", "skip_flush", "expire_flush", "restore_flush"}

Transaction ==
    [at : Points, rows : SUBSET Orders, armed : SUBSET Orders,
     cycle : Cycles]

Idle == [at |-> "idle", rows |-> {}, armed |-> {}, cycle |-> 1]

Begin(at, rows, c) ==
    [at |-> at, rows |-> rows, armed |-> {o \in rows : order[o].armed},
     cycle |-> c]

In(c, statuses) ==
    {o \in Orders : order[o].status \in statuses /\ order[o].cycle = c}

Unlocked(rows) == \A o \in rows : rowLock[o] = NoSession

LocksDroppedBy(s) ==
    [o \in Orders |-> IF rowLock[o] = s THEN NoSession ELSE rowLock[o]]

SettingsLockDroppedBy(s) ==
    IF settingsLock = s THEN NoSession ELSE settingsLock

End(s) ==
    /\ tx' = [tx EXCEPT ![s] = Idle]
    /\ rowLock' = LocksDroppedBy(s)
    /\ settingsLock' = SettingsLockDroppedBy(s)

(* The ORM's UPDATE of rows read without a lock: the new status goes to    *)
(* the row whatever its status is by now; auto_confirm_at is written only  *)
(* where the loaded object had it set.                                     *)
Closing(rows, armedRows, status) ==
    [o \in Orders |->
        IF o \in rows
        THEN [order[o] EXCEPT !.status = status,
                              !.armed = @ /\ o \notin armedRows]
        ELSE order[o]]

NoLongerOpen(rows) == {o \in rows : order[o].status \notin Open}

(* Bound: only as many rows are created as Orders has.                     *)
HasRoom == \E n \in Orders : order[n].status = Absent

Init ==
    /\ order = [o \in Orders |-> NewRow(1, Absent, FALSE)]
    /\ stock = [o \in Orders |-> 0]
    /\ rowLock = [o \in Orders |-> NoSession]
    /\ settingsLock = NoSession
    /\ tx = [s \in Sessions |-> Idle]
    /\ autoConfirm = TRUE
    /\ skipUntil = 0
    /\ clock = 1
    /\ overwritten = {}

-----------------------------------------------------------------------------
(* POST /orders: confirm_order.  The open order of the cycle is read       *)
(* without a lock and cancelled; the UPDATE goes out with the first query  *)
(* of the preview (autoflush) and waits for the row lock there.            *)

ConfirmRead(s) ==
    /\ tx[s].at = "idle"
    /\ HasRoom
    /\ In(clock, {"confirmed"}) = {}
    /\ LET open == In(clock, Open)
       IN tx' = [tx EXCEPT ![s] =
            Begin(IF open = {} THEN "confirm_preview" ELSE "confirm_flush",
                  open, clock)]
    /\ UNCHANGED <<order, stock, rowLock, settingsLock, autoConfirm,
                   skipUntil, clock, overwritten>>

ConfirmFlush(s) ==
    /\ tx[s].at = "confirm_flush"
    /\ Unlocked(tx[s].rows)
    /\ rowLock' = [o \in Orders |->
                      IF o \in tx[s].rows THEN s ELSE rowLock[o]]
    /\ tx' = [tx EXCEPT ![s].at = "confirm_preview"]
    /\ UNCHANGED <<order, stock, settingsLock, autoConfirm, skipUntil,
                   clock, overwritten>>

ConfirmCommit(s) ==
    /\ tx[s].at = "confirm_preview"
    /\ In(tx[s].cycle, {"confirmed"}) \subseteq tx[s].rows
    /\ \E n \in Orders :
          /\ order[n].status = Absent
          /\ order' = [Closing(tx[s].rows, tx[s].armed, "cancelled")
                          EXCEPT ![n] = NewRow(tx[s].cycle, "confirmed", FALSE)]
    /\ overwritten' = overwritten \cup NoLongerOpen(tx[s].rows)
    /\ End(s)
    /\ UNCHANGED <<stock, autoConfirm, skipUntil, clock>>

-----------------------------------------------------------------------------
(* POST /orders/{id}/approve: the row is locked first, then checked, and   *)
(* the lock is held over the preview until the commit.                     *)

ApproveLock(s, o) ==
    /\ tx[s].at = "idle"
    /\ Unlocked({o})
    /\ order[o].status \in Open
    /\ ~ order[o].inbound
    /\ In(order[o].cycle, {"confirmed"}) = {}
    /\ rowLock' = [rowLock EXCEPT ![o] = s]
    /\ tx' = [tx EXCEPT ![s] = Begin("approve_preview", {o}, order[o].cycle)]
    /\ UNCHANGED <<order, stock, settingsLock, autoConfirm, skipUntil,
                   clock, overwritten>>

Confirming(o, auto) ==
    [order EXCEPT ![o] =
        [@ EXCEPT !.status = "confirmed", !.armed = FALSE, !.auto = auto,
                  !.needed = TRUE, !.delivery = "pending"]]

(* Mutant: no unique index.                                                *)
ApproveUnchecked(s) ==
    /\ tx[s].at = "approve_preview"
    /\ \E o \in tx[s].rows : order' = Confirming(o, FALSE)
    /\ End(s)
    /\ UNCHANGED <<stock, autoConfirm, skipUntil, clock, overwritten>>

(* uq_orders_confirmed_cycle decides the race at commit.                   *)
ApproveCommit(s) ==
    /\ tx[s].at = "approve_preview"
    /\ \E o \in tx[s].rows :
          /\ In(order[o].cycle, {"confirmed"}) = {}
          /\ order' = Confirming(o, FALSE)
    /\ End(s)
    /\ UNCHANGED <<stock, autoConfirm, skipUntil, clock, overwritten>>

(* Mutant: confirmed orders are recalculated too.                          *)
RecalculateAny(o) ==
    /\ Unlocked({o})
    /\ order[o].status \in Open \cup {"confirmed"}
    /\ \E needed \in BOOLEAN : order' = [order EXCEPT ![o].needed = needed]
    /\ UNCHANGED <<stock, rowLock, settingsLock, tx, autoConfirm, skipUntil,
                   clock, overwritten>>

(* POST /orders/{id}/recalculate: a new snapshot of an open order.  The    *)
(* lines may all be covered by the fridge by now.                          *)
Recalculate(o) ==
    /\ Unlocked({o})
    /\ order[o].status \in Open
    /\ \E needed \in BOOLEAN : order' = [order EXCEPT ![o].needed = needed]
    /\ UNCHANGED <<stock, rowLock, settingsLock, tx, autoConfirm, skipUntil,
                   clock, overwritten>>

(* Mutants: the lines stay in the fridge; the order goes back to the user; *)
(* any order is cancelled.                                                 *)
CancelKeepsStock(o) ==
    /\ Unlocked({o})
    /\ order[o].status = "confirmed"
    /\ clock <= order[o].cycle + CancelCycles
    /\ order' = [order EXCEPT ![o].status = "cancelled"]
    /\ UNCHANGED <<stock, rowLock, settingsLock, tx, autoConfirm, skipUntil,
                   clock, overwritten>>

CancelReopens(o) ==
    /\ Unlocked({o})
    /\ order[o].status = "confirmed"
    /\ clock <= order[o].cycle + CancelCycles
    /\ order' = [order EXCEPT ![o].status = "awaiting_user"]
    /\ stock' = IF order[o].inbound THEN [stock EXCEPT ![o] = 0] ELSE stock
    /\ UNCHANGED <<rowLock, settingsLock, tx, autoConfirm, skipUntil, clock,
                   overwritten>>

CancelAny(o) ==
    /\ Unlocked({o})
    /\ order[o].status # Absent
    /\ order' = [order EXCEPT ![o].status = "cancelled"]
    /\ stock' = IF order[o].inbound THEN [stock EXCEPT ![o] = 0] ELSE stock
    /\ UNCHANGED <<rowLock, settingsLock, tx, autoConfirm, skipUntil, clock,
                   overwritten>>

(* POST /orders/{id}/cancel: takes back the lines it put in the fridge.    *)
Cancel(o) ==
    /\ Unlocked({o})
    /\ order[o].status = "confirmed"
    /\ clock <= order[o].cycle + CancelCycles
    /\ order' = [order EXCEPT ![o] =
          [@ EXCEPT !.status = "cancelled", !.armed = FALSE]]
    /\ stock' = IF order[o].inbound THEN [stock EXCEPT ![o] = 0] ELSE stock
    /\ UNCHANGED <<rowLock, settingsLock, tx, autoConfirm, skipUntil, clock,
                   overwritten>>

-----------------------------------------------------------------------------
(* Delivery: the compare-and-set of mark_inbound, called by the scheduler  *)
(* when delivery_eta has passed and by the user who says it has arrived.   *)

(* Mutants: no "inbound_at IS NULL"; the delivery_state is forgotten.      *)
MarkInboundAgain(o) ==
    /\ order[o].status = "confirmed"
    /\ order' = [order EXCEPT ![o] =
          [@ EXCEPT !.inbound = TRUE, !.delivery = "delivered"]]
    /\ stock' = IF order[o].needed THEN [stock EXCEPT ![o] = @ + 1] ELSE stock

MarkInboundPending(o) ==
    /\ order[o].status = "confirmed" /\ ~ order[o].inbound
    /\ order' = [order EXCEPT ![o].inbound = TRUE]
    /\ stock' = IF order[o].needed THEN [stock EXCEPT ![o] = @ + 1] ELSE stock

MarkInbound(o) ==
    /\ order[o].status = "confirmed"
    /\ ~ order[o].inbound
    /\ order' = [order EXCEPT ![o] =
          [@ EXCEPT !.inbound = TRUE, !.delivery = "delivered"]]
    /\ stock' = IF order[o].needed THEN [stock EXCEPT ![o] = @ + 1] ELSE stock

ScheduledInbound(o) ==
    /\ tx[Scheduler].at = "idle"
    /\ Unlocked({o})
    /\ order[o].delivery # "unknown"
    /\ MarkInbound(o)
    /\ UNCHANGED <<rowLock, settingsLock, tx, autoConfirm, skipUntil, clock,
                   overwritten>>

(* POST /orders/{id}/delivery, received: an order already registered only  *)
(* has its delivery_state set again.                                       *)
Received(o) ==
    /\ Unlocked({o})
    /\ order[o].status = "confirmed"
    /\ \/ MarkInbound(o)
       \/ /\ order[o].inbound
          /\ order' = [order EXCEPT ![o].delivery = "delivered"]
          /\ UNCHANGED stock
    /\ UNCHANGED <<rowLock, settingsLock, tx, autoConfirm, skipUntil, clock,
                   overwritten>>

(* POST /orders/{id}/delivery, not received: registration is taken back,   *)
(* the delivery is asked for again, and given up after UnknownAttempts.    *)
NotReceived(o) ==
    /\ Unlocked({o})
    /\ order[o].status = "confirmed"
    /\ LET attempts == IF order[o].attempts < UnknownAttempts
                       THEN order[o].attempts + 1 ELSE UnknownAttempts
       IN order' = [order EXCEPT ![o] =
             [@ EXCEPT
                !.inbound = FALSE,
                !.attempts = attempts,
                !.delivery = IF attempts >= UnknownAttempts
                             THEN "unknown" ELSE "pending"]]
    /\ stock' = IF order[o].inbound THEN [stock EXCEPT ![o] = 0] ELSE stock
    /\ UNCHANGED <<rowLock, settingsLock, tx, autoConfirm, skipUntil, clock,
                   overwritten>>

-----------------------------------------------------------------------------
(* The scheduler's draft stage: create_draft, under the lock of the        *)
(* settings row that process_due_settings took.                            *)

DraftRead ==
    /\ tx[Scheduler].at = "idle"
    /\ HasRoom
    /\ settingsLock = NoSession
    /\ In(clock, Open \cup {"confirmed"}) = {}
    /\ settingsLock' = Scheduler
    /\ tx' = [tx EXCEPT ![Scheduler] = Begin("draft_preview", {}, clock)]
    /\ UNCHANGED <<order, stock, rowLock, autoConfirm, skipUntil, clock,
                   overwritten>>

(* uq_orders_open_cycle refuses a second open order.                       *)
DraftCommit ==
    /\ tx[Scheduler].at = "draft_preview"
    /\ In(tx[Scheduler].cycle, Open) = {}
    /\ \E n \in Orders :
          /\ order[n].status = Absent
          /\ order' = [order EXCEPT
                ![n] = NewRow(tx[Scheduler].cycle, "draft", autoConfirm)]
    /\ End(Scheduler)
    /\ UNCHANGED <<stock, autoConfirm, skipUntil, clock, overwritten>>

(* The generation stage first expires the open orders of earlier cycles.   *)
ExpireRead ==
    /\ tx[Scheduler].at = "idle"
    /\ settingsLock = NoSession
    /\ LET old == {o \in Orders : /\ order[o].status \in Open
                                  /\ order[o].cycle < clock}
       IN /\ old # {}
          /\ tx' = [tx EXCEPT ![Scheduler] = Begin("expire_flush", old, clock)]
    /\ settingsLock' = Scheduler
    /\ UNCHANGED <<order, stock, rowLock, autoConfirm, skipUntil, clock,
                   overwritten>>

ExpireCommit ==
    /\ tx[Scheduler].at = "expire_flush"
    /\ Unlocked(tx[Scheduler].rows)
    /\ order' = Closing(tx[Scheduler].rows, tx[Scheduler].armed, "expired")
    /\ overwritten' = overwritten \cup NoLongerOpen(tx[Scheduler].rows)
    /\ End(Scheduler)
    /\ UNCHANGED <<stock, autoConfirm, skipUntil, clock>>

-----------------------------------------------------------------------------
(* The scheduler's auto-confirm scan: FOR UPDATE SKIP LOCKED on a due      *)
(* draft, then the gates of auto_confirm_order.                            *)

(* Mutants: every open order is scanned, its auto_confirm_at not looked    *)
(* at; drafts of a cycle with a confirmed order are passed over.           *)
AutoLockAnyOpen(o) ==
    /\ tx[Scheduler].at = "idle"
    /\ Unlocked({o})
    /\ order[o].status \in Open
    /\ rowLock' = [rowLock EXCEPT ![o] = Scheduler]
    /\ tx' = [tx EXCEPT ![Scheduler] =
          Begin("auto_gates", {o}, order[o].cycle)]
    /\ UNCHANGED <<order, stock, settingsLock, autoConfirm, skipUntil, clock,
                   overwritten>>

AutoLockUndecided(o) ==
    /\ tx[Scheduler].at = "idle"
    /\ Unlocked({o})
    /\ order[o].status = "draft" /\ order[o].armed
    /\ In(order[o].cycle, {"confirmed"}) = {}
    /\ rowLock' = [rowLock EXCEPT ![o] = Scheduler]
    /\ tx' = [tx EXCEPT ![Scheduler] =
          Begin(IF ~ autoConfirm THEN "auto_off" ELSE "auto_gates",
                {o}, order[o].cycle)]
    /\ UNCHANGED <<order, stock, settingsLock, autoConfirm, skipUntil, clock,
                   overwritten>>

AutoLock(o) ==
    /\ tx[Scheduler].at = "idle"
    /\ Unlocked({o})
    /\ order[o].status = "draft"
    /\ order[o].armed
    /\ rowLock' = [rowLock EXCEPT ![o] = Scheduler]
    /\ tx' = [tx EXCEPT ![Scheduler] =
          Begin(IF In(order[o].cycle, {"confirmed"}) # {} THEN "auto_expire"
                ELSE IF ~ autoConfirm THEN "auto_off" ELSE "auto_gates",
                {o}, order[o].cycle)]
    /\ UNCHANGED <<order, stock, settingsLock, autoConfirm, skipUntil, clock,
                   overwritten>>

AutoExpire ==
    /\ tx[Scheduler].at = "auto_expire"
    /\ order' = Closing(tx[Scheduler].rows, tx[Scheduler].rows, "expired")
    /\ End(Scheduler)
    /\ UNCHANGED <<stock, autoConfirm, skipUntil, clock, overwritten>>

(* A gate blocks: AUTO_CONFIRM_OFF, before any lookup, or one of the       *)
(* country, store, price and budget gates, which may store the             *)
(* recalculated lines.                                                     *)
AutoBlock ==
    /\ tx[Scheduler].at \in {"auto_off", "auto_gates"}
    /\ \E o \in tx[Scheduler].rows, needed \in BOOLEAN :
          /\ tx[Scheduler].at = "auto_off" => needed = order[o].needed
          /\ order' = [order EXCEPT ![o] =
                [@ EXCEPT !.status = "awaiting_user", !.armed = FALSE,
                          !.needed = needed]]
    /\ rowLock' = LocksDroppedBy(Scheduler)
    /\ tx' = [tx EXCEPT ![Scheduler].at = "auto_remind"]
    /\ UNCHANGED <<stock, settingsLock, autoConfirm, skipUntil, clock,
                   overwritten>>

(* The reminder is recorded in a second transaction, then pushed.          *)
AutoRemind ==
    /\ tx[Scheduler].at = "auto_remind"
    /\ Unlocked(tx[Scheduler].rows)
    /\ order' = [o \in Orders |->
          IF o \in tx[Scheduler].rows
          THEN [order[o] EXCEPT !.reminded = TRUE] ELSE order[o]]
    /\ End(Scheduler)
    /\ UNCHANGED <<stock, autoConfirm, skipUntil, clock, overwritten>>

AutoCommit ==
    /\ tx[Scheduler].at = "auto_gates"
    /\ \E o \in tx[Scheduler].rows :
          /\ In(order[o].cycle, {"confirmed"}) = {}
          /\ order' = Confirming(o, TRUE)
    /\ End(Scheduler)
    /\ UNCHANGED <<stock, autoConfirm, skipUntil, clock, overwritten>>

(* Another order of the cycle won: ORDER_ALREADY_CONFIRMED.  The rollback  *)
(* gives the row lock up before the draft is read again and expired.       *)
AutoConflict ==
    /\ tx[Scheduler].at = "auto_gates"
    /\ In(tx[Scheduler].cycle, {"confirmed"}) # {}
    /\ rowLock' = LocksDroppedBy(Scheduler)
    /\ tx' = [tx EXCEPT ![Scheduler].at = "auto_conflict"]
    /\ UNCHANGED <<order, stock, settingsLock, autoConfirm, skipUntil, clock,
                   overwritten>>

AutoDuplicateRead ==
    /\ tx[Scheduler].at = "auto_conflict"
    /\ tx' = [tx EXCEPT ![Scheduler] =
          IF \A o \in tx[Scheduler].rows : order[o].status = "draft"
          THEN Begin("auto_duplicate", tx[Scheduler].rows, tx[Scheduler].cycle)
          ELSE Idle]
    /\ UNCHANGED <<order, stock, rowLock, settingsLock, autoConfirm,
                   skipUntil, clock, overwritten>>

AutoDuplicateExpire ==
    /\ tx[Scheduler].at = "auto_duplicate"
    /\ Unlocked(tx[Scheduler].rows)
    /\ order' = Closing(tx[Scheduler].rows, tx[Scheduler].armed, "expired")
    /\ overwritten' = overwritten \cup NoLongerOpen(tx[Scheduler].rows)
    /\ End(Scheduler)
    /\ UNCHANGED <<stock, autoConfirm, skipUntil, clock>>

-----------------------------------------------------------------------------
(* POST /cycle/skip.  "Not confirmed" is read first; the settings row is   *)
(* locked by the UPDATE that goes out before the open order is read, and   *)
(* the order is cancelled by the UPDATE of the commit.                     *)

SkipRead(s) ==
    /\ tx[s].at = "idle"
    /\ In(clock, {"confirmed"}) = {}
    /\ skipUntil # clock
    /\ tx' = [tx EXCEPT ![s] = Begin("skip_settings", {}, clock)]
    /\ UNCHANGED <<order, stock, rowLock, settingsLock, autoConfirm,
                   skipUntil, clock, overwritten>>

SkipLockSettings(s) ==
    /\ tx[s].at = "skip_settings"
    /\ settingsLock = NoSession
    /\ settingsLock' = s
    /\ tx' = [tx EXCEPT ![s] =
          Begin("skip_flush", In(tx[s].cycle, Open), tx[s].cycle)]
    /\ UNCHANGED <<order, stock, rowLock, autoConfirm, skipUntil, clock,
                   overwritten>>

(* Mutant: the delivery after the one meant is skipped.                    *)
SkipNextCommit(s) ==
    /\ tx[s].at = "skip_flush"
    /\ Unlocked(tx[s].rows)
    /\ order' = Closing(tx[s].rows, tx[s].armed, "cancelled")
    /\ overwritten' = overwritten \cup NoLongerOpen(tx[s].rows)
    /\ skipUntil' = tx[s].cycle + 1
    /\ End(s)
    /\ UNCHANGED <<stock, autoConfirm, clock>>

SkipCommit(s) ==
    /\ tx[s].at = "skip_flush"
    /\ Unlocked(tx[s].rows)
    /\ order' = Closing(tx[s].rows, tx[s].armed, "cancelled")
    /\ overwritten' = overwritten \cup NoLongerOpen(tx[s].rows)
    /\ skipUntil' = tx[s].cycle
    /\ End(s)
    /\ UNCHANGED <<stock, autoConfirm, clock>>

-----------------------------------------------------------------------------
(* PUT /cycle/settings.  Turning auto-confirm (or the cycle) off disarms   *)
(* the open orders with one UPDATE, under the lock of the settings row;    *)
(* turning it on reads the disarmed drafts and arms them at the commit.    *)
(* A request that finds the value it sets in the row it has read, which    *)
(* may be old by then, leaves the row alone and takes no lock on it; one   *)
(* of the two flags turned on may leave the other off.                     *)

(* Mutant: the disarming UPDATE does not wait for row locks.               *)
AutoConfirmOffAtOnce ==
    /\ settingsLock = NoSession
    /\ order' = [o \in Orders |->
          IF order[o].status \in Open THEN [order[o] EXCEPT !.armed = FALSE]
          ELSE order[o]]
    /\ autoConfirm' = FALSE
    /\ UNCHANGED <<stock, rowLock, settingsLock, tx, skipUntil, clock,
                   overwritten>>

AutoConfirmOff ==
    LET open == {o \in Orders : order[o].status \in Open}
    IN /\ Unlocked(open)
       /\ order' = [o \in Orders |->
             IF o \in open THEN [order[o] EXCEPT !.armed = FALSE]
             ELSE order[o]]
       /\ \/ settingsLock = NoSession /\ autoConfirm' = FALSE
          \/ UNCHANGED autoConfirm
       /\ UNCHANGED <<stock, rowLock, settingsLock, tx, skipUntil, clock,
                      overwritten>>

RestoreRead(s) ==
    /\ tx[s].at = "idle"
    /\ \/ settingsLock = NoSession /\ settingsLock' = s
       \/ UNCHANGED settingsLock
    /\ tx' = [tx EXCEPT ![s] =
          Begin("restore_flush",
                {o \in Orders : /\ order[o].status = "draft"
                                /\ ~ order[o].armed}, clock)]
    /\ UNCHANGED <<order, stock, rowLock, autoConfirm, skipUntil, clock,
                   overwritten>>

RestoreCommit(s) ==
    /\ tx[s].at = "restore_flush"
    /\ Unlocked(tx[s].rows)
    /\ order' = [o \in Orders |->
          IF o \in tx[s].rows THEN [order[o] EXCEPT !.armed = TRUE]
          ELSE order[o]]
    /\ autoConfirm' \in IF settingsLock = s THEN {TRUE, autoConfirm}
                       ELSE {autoConfirm}
    /\ End(s)
    /\ UNCHANGED <<stock, skipUntil, clock, overwritten>>

-----------------------------------------------------------------------------
(* A handler fails: an ApiError (NOTHING_TO_ORDER, a unique-index          *)
(* conflict), an exception of the lookup, or the end of the process.  The  *)
(* database rolls the transaction back and drops its locks.                *)
Abort(s) ==
    /\ tx[s].at # "idle"
    /\ End(s)
    /\ UNCHANGED <<order, stock, autoConfirm, skipUntil, clock, overwritten>>

(* A delivery day passes.                                                  *)
NextCycle ==
    /\ clock < MaxCycle
    /\ clock' = clock + 1
    /\ UNCHANGED <<order, stock, rowLock, settingsLock, tx, autoConfirm,
                   skipUntil, overwritten>>

-----------------------------------------------------------------------------

RequestStep(s) ==
    \/ ConfirmRead(s) \/ ConfirmFlush(s) \/ ConfirmCommit(s)
    \/ \E o \in Orders : ApproveLock(s, o)
    \/ ApproveCommit(s)
    \/ SkipRead(s) \/ SkipLockSettings(s) \/ SkipCommit(s)
    \/ RestoreRead(s) \/ RestoreCommit(s)

OrderRequest(o) ==
    Recalculate(o) \/ Cancel(o) \/ Received(o) \/ NotReceived(o)

SchedulerStep ==
    \/ DraftRead \/ DraftCommit
    \/ ExpireRead \/ ExpireCommit
    \/ \E o \in Orders : AutoLock(o) \/ ScheduledInbound(o)
    \/ AutoExpire \/ AutoBlock \/ AutoRemind \/ AutoCommit
    \/ AutoConflict \/ AutoDuplicateRead \/ AutoDuplicateExpire

Next ==
    \/ \E s \in Requests : RequestStep(s)
    \/ \E o \in Orders : OrderRequest(o)
    \/ SchedulerStep
    \/ AutoConfirmOff
    \/ \E s \in Sessions : Abort(s)
    \/ NextCycle

Spec == Init /\ [][Next]_vars

(* What the event loop and the scan order of process_cycle_tick justify: a *)
(* handler in flight ends, well or badly; every tick visits every due      *)
(* draft and delivery and skips one only while its row is locked; and the  *)
(* lookups a handler awaits do not fail for ever.                          *)
RequestCommit(s) ==
    ConfirmCommit(s) \/ ApproveCommit(s) \/ SkipCommit(s) \/ RestoreCommit(s)

RequestGoesOn(s) ==
    \/ ConfirmFlush(s) \/ SkipLockSettings(s)
    \/ RequestCommit(s)
    \/ Abort(s)

SchedulerGoesOn ==
    \/ DraftCommit \/ ExpireCommit
    \/ AutoExpire \/ AutoBlock \/ AutoRemind \/ AutoCommit
    \/ AutoConflict \/ AutoDuplicateRead \/ AutoDuplicateExpire
    \/ Abort(Scheduler)

Fairness ==
    /\ \A s \in Requests : /\ WF_vars(RequestGoesOn(s))
                           /\ SF_vars(RequestCommit(s))
    /\ WF_vars(SchedulerGoesOn)
    /\ SF_vars(DraftCommit)
    /\ SF_vars(AutoExpire \/ AutoBlock \/ AutoCommit \/ AutoDuplicateExpire)
    /\ SF_vars(ExpireCommit)
    /\ \A o \in Orders : SF_vars(AutoLock(o)) /\ SF_vars(ScheduledInbound(o))

FairSpec == Spec /\ Fairness

-----------------------------------------------------------------------------
(* Properties.                                                             *)

(* Every variable has its type.                                            *)
TypeOK ==
    /\ order \in [Orders -> OrderRow]
    /\ stock \in [Orders -> Nat]
    /\ rowLock \in [Orders -> Sessions \cup {NoSession}]
    /\ settingsLock \in Sessions \cup {NoSession}
    /\ tx \in [Sessions -> Transaction]
    /\ autoConfirm \in BOOLEAN
    /\ skipUntil \in 0 .. MaxCycle
    /\ clock \in Cycles
    /\ overwritten \subseteq Orders

(* FR-816: however the user's confirmation, an approval and the scheduler's *)
(* auto-confirmation of one cycle interleave, one order at most is         *)
(* confirmed.                                                              *)
OneConfirmedPerCycle ==
    \A o, p \in Orders :
        /\ order[o].status = "confirmed" /\ order[p].status = "confirmed"
        /\ order[o].cycle = order[p].cycle
        => o = p

(* A cycle has one draft at most: create_draft, skip and confirm_order     *)
(* never leave two open orders for the same delivery.                      *)
OneOpenPerCycle ==
    \A o, p \in Orders :
        /\ order[o].status \in Open /\ order[p].status \in Open
        /\ order[o].cycle = order[p].cycle
        => o = p

(* FR-815 and FR-823: the fridge holds the lines of an order once, and     *)
(* exactly while the order is confirmed and registered as delivered; never *)
(* twice, and nothing is left behind by a cancellation or a "not arrived"  *)
(* answer.  The orders that a stale write closed are accounted for         *)
(* separately: they too were stocked once at most.                         *)
StockMatchesOrder ==
    \A o \in Orders :
        /\ stock[o] <= 1
        /\ o \notin overwritten =>
              (stock[o] = 1 <=> order[o].status = "confirmed"
                                /\ order[o].inbound)

(* What the delivery scan and the confirm dialog rely on: an order is      *)
(* registered exactly when its delivery_state says so, an "unknown"        *)
(* delivery has used up its attempts, and no order is ever confirmed with  *)
(* nothing to buy, whatever was recalculated before.                       *)
DeliveryConsistent ==
    \A o \in Orders :
        /\ order[o].inbound <=> order[o].delivery = "delivered"
        /\ order[o].delivery = "unknown" => order[o].attempts = UnknownAttempts
        /\ order[o].status = "confirmed" => order[o].needed

Transitions ==
    {<<Absent, "draft">>, <<Absent, "confirmed">>,
     <<"draft", "awaiting_user">>, <<"confirmed", "cancelled">>}
        \cup (Open \X (Closed \cup {"confirmed"}))

(* _ALLOWED_TRANSITIONS as the database sees it, over transactions and not *)
(* over one session's objects: a committed status changes only along the   *)
(* table, except where an UPDATE of a stale row closed the order.          *)
LegalTransitions ==
    [][\A o \in Orders :
          \/ order'[o].status = order[o].status
          \/ <<order[o].status, order'[o].status>> \in Transitions
          \/ o \in overwritten']_vars

(* FR-811: once turning auto-confirm off has been committed, the scheduler *)
(* confirms nothing, not even the draft whose gates it was checking.       *)
AutoConfirmOnlyWhileOn ==
    [][\A o \in Orders : order'[o].auto => order[o].auto \/ autoConfirm]_vars

(* FR-810: an order a gate stopped is confirmed by the user or not at all, *)
(* even when auto-confirm is turned off and on again around it.            *)
BlockedNeedsUser ==
    [][\A o \in Orders :
          order[o].status = "awaiting_user" /\ order'[o].status = "confirmed"
              => ~ order'[o].auto]_vars

(* docs/기획/루프완결-주간사이클.md, CWE-841: the state machine is enforced, *)
(* a confirmed order can only be cancelled.  expire_open_orders_before     *)
(* reads without a lock, waits for an approval to commit, and overwrites.  *)
ConfirmedNeverExpires ==
    [][\A o \in Orders : order[o].status = "confirmed"
                            => order'[o].status # "expired"]_vars

(* skip_cycle: "confirmed cycle cannot be skipped".  The check and the     *)
(* commit are not one step: an approval in flight slips between them.      *)
SkipSparesConfirmed ==
    [][skipUntil' # skipUntil => In(skipUntil', {"confirmed"}) = {}]_vars

(* FR-810: a draft with an auto-confirm time does not wait for ever: it is *)
(* confirmed, handed to the user, closed, or disarmed by the user.         *)
DraftsResolve ==
    \A o \in Orders :
        (order[o].status = "draft" /\ order[o].armed)
            ~> ~ (order[o].status = "draft" /\ order[o].armed)

(* FR-820: a confirmed order whose delivery is pending is registered in    *)
(* the fridge, given up as unknown, or no longer confirmed.                *)
DeliveriesConclude ==
    \A o \in Orders :
        (order[o].status = "confirmed" /\ order[o].delivery = "pending")
            ~> ~ (order[o].status = "confirmed"
                  /\ order[o].delivery = "pending")
=============================================================================
