------------------------ MODULE OrderLifecycleProofs ------------------------
(***************************************************************************)
(* Proofs about OrderLifecycle, for every number of orders, requests and   *)
(* cycles: what its types are, that the orders of a cycle keep one another *)
(* out, and (from "Refinement" on) that OrderLifecycle implements          *)
(* CyclePurchases under the mapping of OrderLifecycleMC.                   *)
(***************************************************************************)
EXTENDS OrderLifecycleMC, FiniteSetTheorems, TLAPS

USE SessionsDistinct, BoundsAreNat

LEMMA TypeInit == Init => TypeOK
  BY DEF Init, TypeOK, OrderRow, NewRow, Statuses, Open, Closed, Absent,
         DeliveryStates, Transaction, Idle, Points, Sessions, Cycles

LEMMA RowTypes ==
    ASSUME NEW c \in Cycles, NEW st \in Statuses, NEW b \in BOOLEAN
    PROVE  NewRow(c, st, b) \in OrderRow
  BY DEF NewRow, OrderRow, DeliveryStates

LEMMA ClosingType ==
    ASSUME order \in [Orders -> OrderRow], NEW rows, NEW armedRows,
           NEW st \in Closed
    PROVE  Closing(rows, armedRows, st) \in [Orders -> OrderRow]
  BY DEF Closing, OrderRow, Statuses

LEMMA BeginType ==
    ASSUME NEW p \in Points, NEW rows \in SUBSET Orders, NEW c \in Cycles
    PROVE  Begin(p, rows, c) \in Transaction
  BY DEF Begin, Transaction

ControlOK ==
    /\ tx \in [Sessions -> Transaction]
    /\ rowLock \in [Orders -> Sessions \cup {NoSession}]
    /\ settingsLock \in Sessions \cup {NoSession}

DataOK ==
    /\ order \in [Orders -> OrderRow]
    /\ stock \in [Orders -> Nat]
    /\ autoConfirm \in BOOLEAN
    /\ skipUntil \in 0 .. MaxCycle
    /\ clock \in Cycles
    /\ overwritten \subseteq Orders

LEMMA TypeSplit == TypeOK <=> ControlOK /\ DataOK
  BY DEF TypeOK, ControlOK, DataOK

LEMMA TypeJoin == ControlOK' /\ DataOK' => TypeOK'
  BY DEF TypeOK, ControlOK, DataOK

LEMMA EndType ==
    ASSUME ControlOK, NEW s \in Sessions, End(s)
    PROVE  ControlOK'
<1>1. Idle \in Transaction
  BY DEF Idle, Transaction, Points, Cycles
<1> QED
  BY <1>1 DEF End, ControlOK, LocksDroppedBy, SettingsLockDroppedBy

LEMMA ConfirmingType ==
    ASSUME order \in [Orders -> OrderRow], NEW o \in Orders,
           NEW b \in BOOLEAN
    PROVE  Confirming(o, b) \in [Orders -> OrderRow]
<1>1. order[o] \in OrderRow
  OBVIOUS
<1>2. [order[o] EXCEPT !.status = "confirmed", !.armed = FALSE, !.auto = b,
                       !.needed = TRUE, !.delivery = "pending"] \in OrderRow
  BY <1>1 DEF OrderRow, Statuses, DeliveryStates
<1> QED
  BY <1>2 DEF Confirming

LEMMA AtType ==
    ASSUME tx \in [Sessions -> Transaction], NEW s \in Sessions,
           NEW p \in Points
    PROVE  [tx EXCEPT ![s].at = p] \in [Sessions -> Transaction]
  BY DEF Transaction

(* The steps that only read: they change locks and transactions.           *)
LEMMA QuietTypes ==
    ASSUME TypeOK, NEW s \in Requests,
           \/ ConfirmRead(s) \/ ConfirmFlush(s)
           \/ \E o \in Orders : ApproveLock(s, o)
           \/ SkipRead(s) \/ SkipLockSettings(s) \/ RestoreRead(s)
    PROVE  TypeOK'
<1> USE DEF TypeOK
<1>0. s \in Sessions /\ tx[s] \in Transaction
  BY DEF Sessions
<1>1. CASE ConfirmRead(s)
  <2>1. In(clock, Open) \in SUBSET Orders
    BY DEF In
  <2> QED
    BY <1>0, <1>1, <2>1, BeginType DEF ConfirmRead, Points
<1>2. CASE ConfirmFlush(s)
  BY <1>0, <1>2, AtType DEF ConfirmFlush, Points
<1>3. ASSUME NEW o \in Orders, ApproveLock(s, o) PROVE TypeOK'
  <2>1. order[o].cycle \in Cycles
    BY DEF OrderRow
  <2> QED
    BY <1>0, <1>3, <2>1, BeginType DEF ApproveLock, Points
<1>4. CASE SkipRead(s)
  BY <1>0, <1>4, BeginType DEF SkipRead, Points
<1>5. CASE SkipLockSettings(s)
  <2>1. In(tx[s].cycle, Open) \in SUBSET Orders /\ tx[s].cycle \in Cycles
    BY <1>0 DEF In, Transaction
  <2> QED
    BY <1>0, <1>5, <2>1, BeginType DEF SkipLockSettings, Points
<1>6. CASE RestoreRead(s)
  BY <1>0, <1>6, BeginType DEF RestoreRead, Points
<1> QED
  BY <1>1, <1>2, <1>3, <1>4, <1>5, <1>6

LEMMA CommitTypes ==
    ASSUME TypeOK, NEW s \in Requests,
           \/ ConfirmCommit(s) \/ ApproveCommit(s) \/ SkipCommit(s)
           \/ RestoreCommit(s)
    PROVE  TypeOK'
<1>0. /\ s \in Sessions /\ ControlOK /\ DataOK
      /\ tx[s] \in Transaction /\ tx[s].cycle \in Cycles
      /\ NoLongerOpen(tx[s].rows) \subseteq Orders
  BY TypeSplit DEF ControlOK, Sessions, Transaction, NoLongerOpen
<1>c. ControlOK'
  BY <1>0, EndType DEF ConfirmCommit, ApproveCommit, SkipCommit, RestoreCommit
<1>1. CASE ConfirmCommit(s)
  <2>1. PICK n \in Orders :
          order' = [Closing(tx[s].rows, tx[s].armed, "cancelled")
                       EXCEPT ![n] = NewRow(tx[s].cycle, "confirmed", FALSE)]
    BY <1>1 DEF ConfirmCommit
  <2>2. order' \in [Orders -> OrderRow]
    <3>1. NewRow(tx[s].cycle, "confirmed", FALSE) \in OrderRow
      BY <1>0, RowTypes DEF Statuses
    <3>2. Closing(tx[s].rows, tx[s].armed, "cancelled") \in [Orders -> OrderRow]
      BY ClosingType DEF TypeOK, Closed
    <3> QED
      BY <2>1, <3>1, <3>2
  <2> QED
    BY <1>0, <1>1, <1>c, <2>2, TypeJoin DEF ConfirmCommit, DataOK
<1>2. CASE ApproveCommit(s)
  <2>1. order' \in [Orders -> OrderRow]
    <3>1. PICK o \in tx[s].rows : order' = Confirming(o, FALSE)
      BY <1>2 DEF ApproveCommit
    <3> QED
      BY <1>0, <3>1, ConfirmingType DEF TypeOK, Transaction
  <2> QED
    BY <1>0, <1>2, <1>c, <2>1, TypeJoin DEF ApproveCommit, DataOK
<1>3. CASE SkipCommit(s)
  <2>1. order' \in [Orders -> OrderRow]
    BY <1>3, ClosingType DEF SkipCommit, TypeOK, Closed
  <2> QED
    BY <1>0, <1>3, <1>c, <2>1, TypeJoin DEF SkipCommit, DataOK, Cycles
<1>4. CASE RestoreCommit(s)
  <2>1. \A o \in Orders : [order[o] EXCEPT !.armed = TRUE] \in OrderRow
    <3> SUFFICES ASSUME NEW o \in Orders
                 PROVE  [order[o] EXCEPT !.armed = TRUE] \in OrderRow
      OBVIOUS
    <3>1. order[o] \in OrderRow
      BY DEF TypeOK
    <3> QED
      BY <3>1 DEF OrderRow
  <2> QED
    BY <1>0, <1>4, <1>c, <2>1, TypeJoin DEF RestoreCommit, DataOK
<1> QED
  BY <1>1, <1>2, <1>3, <1>4

LEMMA OrderTypes ==
    ASSUME TypeOK, NEW o \in Orders,
           \/ Recalculate(o) \/ Cancel(o) \/ Received(o) \/ NotReceived(o)
           \/ ScheduledInbound(o)
    PROVE  TypeOK'
<1>0. order[o] \in OrderRow /\ stock[o] \in Nat
  BY DEF TypeOK
<1>1. CASE Recalculate(o)
  <2>1. PICK needed \in BOOLEAN :
          order' = [order EXCEPT ![o] = [order[o] EXCEPT !.needed = needed]]
    BY <1>1 DEF Recalculate
  <2>2. [order[o] EXCEPT !.needed = needed] \in OrderRow
    BY <1>0 DEF OrderRow
  <2> QED
    BY <1>1, <2>1, <2>2 DEF Recalculate, TypeOK
<1>2. CASE Cancel(o)
  <2>1. [order[o] EXCEPT !.status = "cancelled", !.armed = FALSE] \in OrderRow
    BY <1>0 DEF OrderRow, Statuses, Closed
  <2> QED
    BY <1>2, <2>1 DEF Cancel, TypeOK
<1>3. ASSUME MarkInbound(o)
      PROVE  /\ order' \in [Orders -> OrderRow]
             /\ stock' \in [Orders -> Nat]
  <2>1. [order[o] EXCEPT !.inbound = TRUE, !.delivery = "delivered"]
            \in OrderRow
    BY <1>0 DEF OrderRow, DeliveryStates
  <2> QED
    BY <1>0, <1>3, <2>1 DEF MarkInbound, TypeOK
<1>4. CASE ScheduledInbound(o)
  BY <1>3, <1>4 DEF ScheduledInbound, TypeOK
<1>5. CASE Received(o)
  <2>1. [order[o] EXCEPT !.delivery = "delivered"] \in OrderRow
    BY <1>0 DEF OrderRow, DeliveryStates
  <2> QED
    BY <1>3, <1>5, <2>1 DEF Received, TypeOK
<1>6. CASE NotReceived(o)
  <2> DEFINE k == IF order[o].attempts < UnknownAttempts
                  THEN order[o].attempts + 1 ELSE UnknownAttempts
             d == IF k >= UnknownAttempts THEN "unknown" ELSE "pending"
  <2>1. k \in 0 .. UnknownAttempts /\ d \in DeliveryStates
    BY <1>0 DEF OrderRow, DeliveryStates
  <2>3. order' = [order EXCEPT ![o] =
          [order[o] EXCEPT !.inbound = FALSE, !.attempts = k, !.delivery = d]]
    BY <1>6 DEF NotReceived
  <2> HIDE DEF k, d
  <2>2. [order[o] EXCEPT !.inbound = FALSE, !.attempts = k, !.delivery = d]
            \in OrderRow
    BY <1>0, <2>1 DEF OrderRow
  <2> QED
    BY <1>6, <2>2, <2>3 DEF NotReceived, TypeOK
<1> QED
  BY <1>1, <1>2, <1>4, <1>5, <1>6

LEMMA SchedulerReadTypes ==
    ASSUME TypeOK,
           \/ DraftRead \/ ExpireRead \/ AutoConflict \/ AutoDuplicateRead
           \/ \E o \in Orders : AutoLock(o)
    PROVE  TypeOK'
<1>0. /\ Scheduler \in Sessions /\ tx[Scheduler] \in Transaction
      /\ tx[Scheduler].cycle \in Cycles /\ tx[Scheduler].rows \in SUBSET Orders
      /\ clock \in Cycles
  BY DEF TypeOK, Sessions, Transaction
<1>1. CASE DraftRead
  BY <1>0, <1>1, BeginType DEF DraftRead, TypeOK, Points
<1>2. CASE ExpireRead
  <2>1. {p \in Orders : order[p].status \in Open /\ order[p].cycle < clock}
            \in SUBSET Orders
    OBVIOUS
  <2> QED
    BY <1>0, <1>2, <2>1, BeginType DEF ExpireRead, TypeOK, Points
<1>3. ASSUME NEW o \in Orders, AutoLock(o) PROVE TypeOK'
  <2> DEFINE at == IF In(order[o].cycle, {"confirmed"}) # {} THEN "auto_expire"
                   ELSE IF ~ autoConfirm THEN "auto_off" ELSE "auto_gates"
  <2>1. at \in Points
    BY DEF Points
  <2> HIDE DEF at
  <2>2. Begin(at, {o}, order[o].cycle) \in Transaction
    <3>1. order[o].cycle \in Cycles
      BY DEF TypeOK, OrderRow
    <3> QED
      BY <2>1, <3>1, BeginType
  <2>3. /\ tx' = [tx EXCEPT ![Scheduler] = Begin(at, {o}, order[o].cycle)]
        /\ rowLock' = [rowLock EXCEPT ![o] = Scheduler]
        /\ UNCHANGED <<order, stock, settingsLock, autoConfirm, skipUntil,
                       clock, overwritten>>
    BY <1>3 DEF AutoLock, at
  <2> QED
    BY <1>0, <2>2, <2>3 DEF TypeOK
<1>4. CASE AutoConflict
  <2>1. ControlOK /\ DataOK
    BY TypeSplit
  <2>2. ControlOK'
    BY <1>0, <1>4, <2>1, AtType
    DEF AutoConflict, ControlOK, LocksDroppedBy, Points
  <2> QED
    BY <1>4, <2>1, <2>2, TypeJoin DEF AutoConflict, DataOK
<1>5. CASE AutoDuplicateRead
  <2>1. Idle \in Transaction
    BY DEF Idle, Transaction, Points, Cycles
  <2>2. Begin("auto_duplicate", tx[Scheduler].rows, tx[Scheduler].cycle)
            \in Transaction
    BY <1>0, BeginType DEF Points
  <2> QED
    BY <1>0, <1>5, <2>1, <2>2 DEF AutoDuplicateRead, TypeOK
<1> QED
  BY <1>1, <1>2, <1>3, <1>4, <1>5

LEMMA SchedulerWriteTypes ==
    ASSUME TypeOK,
           \/ DraftCommit \/ ExpireCommit \/ AutoExpire \/ AutoBlock
           \/ AutoRemind \/ AutoCommit \/ AutoDuplicateExpire
    PROVE  TypeOK'
<1>0. /\ Scheduler \in Sessions /\ ControlOK /\ DataOK
      /\ tx[Scheduler] \in Transaction
      /\ tx[Scheduler].cycle \in Cycles /\ tx[Scheduler].rows \in SUBSET Orders
      /\ NoLongerOpen(tx[Scheduler].rows) \subseteq Orders
  BY TypeSplit DEF ControlOK, Sessions, Transaction, NoLongerOpen
<1>c. ControlOK'
  <2>1. CASE AutoBlock
    BY <1>0, <2>1, AtType DEF AutoBlock, ControlOK, LocksDroppedBy, Points
  <2> QED
    BY <1>0, <2>1, EndType DEF DraftCommit, ExpireCommit, AutoExpire,
       AutoRemind, AutoCommit, AutoDuplicateExpire
<1>1. order' \in [Orders -> OrderRow]
  <2>1. CASE DraftCommit
    <3>1. NewRow(tx[Scheduler].cycle, "draft", autoConfirm) \in OrderRow
      BY <1>0, RowTypes DEF DataOK, Statuses, Open
    <3> QED
      BY <1>0, <2>1, <3>1 DEF DraftCommit, DataOK
  <2>2. CASE ExpireCommit \/ AutoExpire \/ AutoDuplicateExpire
    BY <1>0, <2>2, ClosingType
    DEF ExpireCommit, AutoExpire, AutoDuplicateExpire, DataOK, Closed
  <2>3. CASE AutoBlock
    <3>1. PICK o \in tx[Scheduler].rows, needed \in BOOLEAN :
            order' = [order EXCEPT ![o] =
                        [order[o] EXCEPT !.status = "awaiting_user",
                                         !.armed = FALSE, !.needed = needed]]
      BY <2>3 DEF AutoBlock
    <3>2. order[o] \in OrderRow
      BY <1>0 DEF DataOK
    <3>3. [order[o] EXCEPT !.status = "awaiting_user", !.armed = FALSE,
                           !.needed = needed] \in OrderRow
      BY <3>2 DEF OrderRow, Statuses, Open
    <3> QED
      BY <1>0, <3>1, <3>3 DEF DataOK
  <2>4. CASE AutoRemind
    <3>1. ASSUME NEW o \in Orders
          PROVE  [order[o] EXCEPT !.reminded = TRUE] \in OrderRow
      <4>1. order[o] \in OrderRow
        BY <1>0 DEF DataOK
      <4> QED
        BY <4>1 DEF OrderRow
    <3> QED
      BY <1>0, <2>4, <3>1 DEF AutoRemind, DataOK
  <2>5. CASE AutoCommit
    <3>1. PICK o \in tx[Scheduler].rows : order' = Confirming(o, TRUE)
      BY <2>5 DEF AutoCommit
    <3> QED
      BY <1>0, <3>1, ConfirmingType DEF DataOK
  <2> QED
    BY <2>1, <2>2, <2>3, <2>4, <2>5
<1>2. DataOK'
  BY <1>0, <1>1 DEF DataOK, DraftCommit, ExpireCommit, AutoExpire, AutoBlock,
     AutoRemind, AutoCommit, AutoDuplicateExpire
<1> QED
  BY <1>c, <1>2, TypeJoin

LEMMA TypeStep == TypeOK /\ [Next]_vars => TypeOK'
<1> SUFFICES ASSUME TypeOK, [Next]_vars PROVE TypeOK'
  OBVIOUS
<1>1. ASSUME NEW s \in Requests, RequestStep(s) PROVE TypeOK'
  <2>1. CASE \/ ConfirmCommit(s) \/ ApproveCommit(s) \/ SkipCommit(s)
             \/ RestoreCommit(s)
    BY <2>1, CommitTypes
  <2>2. ASSUME NEW o \in Orders, ApproveLock(s, o) PROVE TypeOK'
    BY <2>2, QuietTypes
  <2>3. CASE \/ ConfirmRead(s) \/ ConfirmFlush(s) \/ SkipRead(s)
             \/ SkipLockSettings(s) \/ RestoreRead(s)
    BY <2>3, QuietTypes
  <2> QED
    BY <1>1, <2>1, <2>2, <2>3 DEF RequestStep
<1>2. ASSUME NEW o \in Orders, OrderRequest(o) PROVE TypeOK'
  BY <1>2, OrderTypes DEF OrderRequest
<1>3. CASE SchedulerStep
  <2>1. ASSUME NEW o \in Orders, AutoLock(o) \/ ScheduledInbound(o)
        PROVE  TypeOK'
    BY <2>1, SchedulerReadTypes, OrderTypes
  <2>2. CASE DraftRead \/ ExpireRead \/ AutoConflict \/ AutoDuplicateRead
    BY <2>2, SchedulerReadTypes
  <2> QED
    BY <1>3, <2>1, <2>2, SchedulerWriteTypes DEF SchedulerStep
<1>4. CASE AutoConfirmOff
  <2>1. ASSUME NEW o \in Orders
        PROVE  [order[o] EXCEPT !.armed = FALSE] \in OrderRow
    <3>1. order[o] \in OrderRow
      BY DEF TypeOK
    <3> QED
      BY <3>1 DEF OrderRow
  <2> QED
    BY <1>4, <2>1 DEF AutoConfirmOff, TypeOK
<1>5. ASSUME NEW s \in Sessions, Abort(s) PROVE TypeOK'
  <2>1. ControlOK /\ DataOK /\ ControlOK'
    BY <1>5, TypeSplit, EndType DEF Abort
  <2> QED
    BY <1>5, <2>1, TypeJoin DEF Abort, DataOK
<1>6. CASE NextCycle
  BY <1>6 DEF NextCycle, TypeOK, Cycles
<1>7. CASE UNCHANGED vars
  BY <1>7 DEF vars, TypeOK
<1> QED
  BY <1>1, <1>2, <1>3, <1>4, <1>5, <1>6, <1>7 DEF Next

(* Every variable keeps its type, for any number of orders, requests and   *)
(* cycles: in particular the attempts counter and skip_until stay in range *)
(* and no handler leaves a row or a transaction half-built.                *)
THEOREM TypeCorrect == Spec => []TypeOK
<1>1. Init => TypeOK
  BY TypeInit
<1>2. TypeOK /\ [Next]_vars => TypeOK'
  BY TypeStep
<1> QED
  BY <1>1, <1>2, PTL DEF Spec

-----------------------------------------------------------------------------
(* The inductive invariant.  The safety properties are not inductive: a    *)
(* commit is harmless only because of what the session has known since its *)
(* read.  TransactionOK says what that is: the rows a session acts on      *)
(* exist, at the points between a lock and its commit the lock is still    *)
(* held, and what was checked under the lock is still true.                *)

Locked == {"confirm_preview", "approve_preview", "auto_expire", "auto_off",
           "auto_gates"}

TransactionOK(s) ==
    /\ \A o \in tx[s].rows : order[o].status # Absent
    /\ tx[s].at \in Locked => \A o \in tx[s].rows : rowLock[o] = s
    /\ tx[s].at = "approve_preview"
          => \A o \in tx[s].rows : order[o].status \in Open
    /\ tx[s].at \in {"auto_expire", "auto_off", "auto_gates"}
          => \A o \in tx[s].rows : order[o].status = "draft"
    /\ tx[s].at = "auto_gates" => autoConfirm /\ tx[s].rows # {}

RowOK(o) ==
    /\ order[o].status \in Open \cup {Absent}
          => ~ order[o].inbound /\ stock[o] = 0
    /\ o \in overwritten => order[o].status \in Closed
    /\ stock[o] <= 1
    /\ o \notin overwritten =>
          (stock[o] = 1 <=> order[o].status = "confirmed" /\ order[o].inbound)
    /\ order[o].inbound <=> order[o].delivery = "delivered"
    /\ order[o].delivery = "unknown" => order[o].attempts = UnknownAttempts
    /\ order[o].status = "confirmed" => order[o].needed

RowsOK == \A o \in Orders : RowOK(o)
Unique == OneConfirmedPerCycle /\ OneOpenPerCycle
TransactionsOK == \A s \in Sessions : TransactionOK(s)

IInv == TypeOK /\ RowsOK /\ Unique /\ TransactionsOK

LEMMA IInvInit == Init => IInv
<1> SUFFICES ASSUME Init PROVE IInv
  OBVIOUS
<1>1. TypeOK
  BY TypeInit
<1>2. RowsOK
  BY DEF Init, RowsOK, RowOK, NewRow, Absent, Open, Closed
<1>3. Unique
  BY DEF Init, Unique, OneConfirmedPerCycle, OneOpenPerCycle, NewRow, Absent,
         Open
<1>4. TransactionsOK
  BY DEF Init, TransactionsOK, TransactionOK, Idle, Locked
<1> QED
  BY <1>1, <1>2, <1>3, <1>4 DEF IInv

(* A step that writes no row disturbs only what sessions know.             *)
LEMMA QuietRows ==
    ASSUME RowsOK, Unique, UNCHANGED <<order, stock, overwritten>>
    PROVE  RowsOK' /\ Unique'
  BY DEF RowsOK, RowOK, Unique, OneConfirmedPerCycle, OneOpenPerCycle

(* Closing rows a session read, stale or not, keeps the rows consistent:   *)
(* the ones it overwrote are remembered as such.                           *)
LEMMA ClosingRows ==
    ASSUME TypeOK, RowsOK, NEW rows \in SUBSET Orders, NEW armed,
           NEW st \in Closed,
           \A o \in rows : order[o].status # Absent,
           order' = Closing(rows, armed, st),
           overwritten' = overwritten \cup NoLongerOpen(rows),
           UNCHANGED stock
    PROVE  RowsOK'
<1> SUFFICES ASSUME NEW o \in Orders PROVE RowOK(o)'
  BY DEF RowsOK
<1>1. order[o] \in OrderRow /\ stock[o] \in Nat /\ RowOK(o)
  BY DEF TypeOK, RowsOK
<1>2. CASE o \in rows
  <2>1. /\ order'[o].status = st
        /\ order'[o].inbound = order[o].inbound
        /\ order'[o].delivery = order[o].delivery
        /\ order'[o].attempts = order[o].attempts
    BY <1>1, <1>2 DEF Closing, OrderRow
  <2>2. o \in overwritten' <=> o \in overwritten \/ order[o].status \notin Open
    BY <1>2 DEF NoLongerOpen
  <2> QED
    BY <1>1, <1>2, <2>1, <2>2 DEF RowOK, Closed, Open, Absent, Statuses, OrderRow
<1>3. CASE o \notin rows
  BY <1>1, <1>3 DEF RowOK, Closing, NoLongerOpen
<1> QED
  BY <1>2, <1>3

(* Two orders of a cycle cannot become confirmed, or open, when every row  *)
(* that is so after the step was so before, in the same cycle.             *)
LEMMA UniqueShrinks ==
    ASSUME Unique,
           \A o \in Orders :
              /\ order'[o].cycle = order[o].cycle
              /\ order'[o].status = "confirmed" => order[o].status = "confirmed"
              /\ order'[o].status \in Open => order[o].status \in Open
    PROVE  Unique'
  BY DEF Unique, OneConfirmedPerCycle, OneOpenPerCycle

LEMMA ClosingUnique ==
    ASSUME TypeOK, Unique, NEW rows, NEW armed, NEW st \in Closed,
           order' = Closing(rows, armed, st)
    PROVE  Unique'
<1>1. ASSUME NEW o \in Orders
      PROVE  /\ order'[o].cycle = order[o].cycle
             /\ order'[o].status \in {st, order[o].status}
  <2>1. order[o] \in OrderRow
    BY DEF TypeOK
  <2> QED
    BY <2>1 DEF Closing, OrderRow
<1> QED
  BY <1>1, UniqueShrinks DEF Closed, Open

LEMMA ConfirmCommitKeeps ==
    ASSUME IInv, NEW s \in Requests, ConfirmCommit(s)
    PROVE  RowsOK' /\ Unique'
<1> DEFINE closed == Closing(tx[s].rows, tx[s].armed, "cancelled")
           c == tx[s].cycle
<1>1. PICK n \in Orders :
        /\ order[n].status = Absent
        /\ order' = [closed EXCEPT ![n] = NewRow(c, "confirmed", FALSE)]
  BY DEF ConfirmCommit
<1>2. /\ TypeOK /\ RowsOK /\ Unique
      /\ tx[s].rows \in SUBSET Orders
      /\ \A o \in tx[s].rows : order[o].status # Absent
      /\ n \notin tx[s].rows
      /\ closed \in [Orders -> OrderRow]
  BY <1>1, ClosingType DEF IInv, TypeOK, Transaction, Sessions,
     TransactionsOK, TransactionOK, Closed
<1>3. ASSUME NEW o \in Orders
      PROVE  /\ closed[o].cycle = order[o].cycle
             /\ closed[o].status = IF o \in tx[s].rows THEN "cancelled"
                                   ELSE order[o].status
             /\ closed[o].inbound = order[o].inbound
             /\ closed[o].delivery = order[o].delivery
             /\ closed[o].attempts = order[o].attempts
             /\ closed[o].needed = order[o].needed
  <2>1. order[o] \in OrderRow
    BY <1>2 DEF TypeOK
  <2> QED
    BY <2>1 DEF Closing, OrderRow
<1>4. order'[n] = NewRow(c, "confirmed", FALSE)
  BY <1>1, <1>2
<1>5. \A o \in Orders : o # n => order'[o] = closed[o]
  BY <1>1, <1>2
<1>6. /\ overwritten' = overwritten \cup NoLongerOpen(tx[s].rows)
      /\ stock' = stock
      /\ In(c, {"confirmed"}) \subseteq tx[s].rows
  BY DEF ConfirmCommit
<1> HIDE DEF closed, c
<1>7. RowsOK'
  <2> SUFFICES ASSUME NEW o \in Orders PROVE RowOK(o)'
    BY DEF RowsOK
  <2>1. RowOK(o) /\ order[o] \in OrderRow /\ stock[o] \in Nat
    BY <1>2 DEF RowsOK, TypeOK
  <2>2. CASE o = n
    <3>1. n \notin overwritten /\ stock[n] = 0
      BY <1>1, <2>1, <2>2 DEF RowOK, Absent, Closed
    <3>2. n \notin overwritten'
      BY <1>2, <1>6, <3>1 DEF NoLongerOpen
    <3> QED
      BY <1>4, <1>6, <2>2, <3>1, <3>2 DEF RowOK, NewRow, Open, Absent, Closed
  <2>3. CASE o # n /\ o \in tx[s].rows
    <3>1. o \in overwritten' <=> o \in overwritten \/ order[o].status \notin Open
      BY <1>6, <2>3 DEF NoLongerOpen
    <3>2. order[o].status # Absent
      BY <1>2, <2>3
    <3> QED
      BY <1>3, <1>5, <1>6, <2>1, <2>3, <3>1, <3>2
      DEF RowOK, Closed, Open, Absent, Statuses, OrderRow
  <2>4. CASE o # n /\ o \notin tx[s].rows
    <3>1. o \in overwritten' <=> o \in overwritten
      BY <1>6, <2>4 DEF NoLongerOpen
    <3> QED
      BY <1>3, <1>5, <1>6, <2>1, <2>4, <3>1 DEF RowOK
  <2> QED
    BY <2>2, <2>3, <2>4
<1>8. Unique'
  <2>1. ASSUME NEW o \in Orders, o # n, order'[o].status = "confirmed"
        PROVE  /\ order[o].status = "confirmed" /\ order'[o].cycle = order[o].cycle
               /\ order[o].cycle # c
    BY <1>3, <1>5, <1>6, <2>1 DEF In
  <2>2. order'[n].cycle = c /\ order'[n].status = "confirmed"
    BY <1>4 DEF NewRow
  <2>3. OneConfirmedPerCycle'
    BY <1>2, <2>1, <2>2 DEF Unique, OneConfirmedPerCycle
  <2>4. ASSUME NEW o \in Orders, order'[o].status \in Open
        PROVE  order[o].status \in Open /\ order'[o].cycle = order[o].cycle
    BY <1>3, <1>5, <2>2, <2>4 DEF Open
  <2> QED
    BY <1>2, <2>3, <2>4 DEF Unique, OneOpenPerCycle
<1> QED
  BY <1>7, <1>8

(* An order confirmed under its lock: approve_order and auto_confirm_order. *)
LEMMA ConfirmingKeeps ==
    ASSUME TypeOK, RowsOK, Unique, NEW o \in Orders, NEW b \in BOOLEAN,
           order[o].status \in Open,
           In(order[o].cycle, {"confirmed"}) = {},
           order' = Confirming(o, b), UNCHANGED <<stock, overwritten>>
    PROVE  RowsOK' /\ Unique'
<1>1. order[o] \in OrderRow /\ order \in [Orders -> OrderRow]
  BY DEF TypeOK
<1>2. /\ order'[o].status = "confirmed" /\ order'[o].needed
      /\ order'[o].cycle = order[o].cycle
      /\ order'[o].inbound = order[o].inbound
      /\ order'[o].delivery = "pending"
  BY <1>1 DEF Confirming, OrderRow
<1>3. \A p \in Orders : p # o => order'[p] = order[p]
  BY <1>1 DEF Confirming
<1>4. RowsOK'
  <2> SUFFICES ASSUME NEW p \in Orders PROVE RowOK(p)'
    BY DEF RowsOK
  <2>1. RowOK(p)
    BY DEF RowsOK
  <2> QED
    BY <1>2, <1>3, <2>1 DEF RowOK, Open, Absent, Closed
<1>5. Unique'
  BY <1>2, <1>3 DEF Unique, OneConfirmedPerCycle, OneOpenPerCycle, In, Open
<1> QED
  BY <1>4, <1>5

(* The requests and scans that lock, check and write one row in one step.  *)
LEMMA OneRowKeeps ==
    ASSUME TypeOK, RowsOK, Unique, NEW o \in Orders,
           \/ Recalculate(o) \/ Cancel(o) \/ Received(o) \/ NotReceived(o)
           \/ ScheduledInbound(o)
    PROVE  RowsOK' /\ Unique'
<1>1. /\ order[o] \in OrderRow /\ order \in [Orders -> OrderRow]
      /\ stock[o] \in Nat /\ stock \in [Orders -> Nat] /\ RowOK(o)
  BY DEF TypeOK, RowsOK
<1>2. /\ \A p \in Orders : p # o => order'[p] = order[p] /\ stock'[p] = stock[p]
      /\ overwritten' = overwritten
  BY <1>1 DEF Recalculate, Cancel, Received, NotReceived, ScheduledInbound,
     MarkInbound
<1>3. /\ order'[o].cycle = order[o].cycle
      /\ \/ order'[o].status = order[o].status
         \/ order[o].status = "confirmed" /\ order'[o].status = "cancelled"
      /\ RowOK(o)'
  <2>1. CASE Recalculate(o)
    <3>1. PICK needed \in BOOLEAN :
            order' = [order EXCEPT ![o] = [order[o] EXCEPT !.needed = needed]]
      BY <2>1 DEF Recalculate
    <3>2. /\ order'[o].cycle = order[o].cycle
          /\ order'[o].status = order[o].status
          /\ order'[o].inbound = order[o].inbound
          /\ order'[o].delivery = order[o].delivery
          /\ order'[o].attempts = order[o].attempts
      BY <1>1, <3>1 DEF OrderRow
    <3> QED
      BY <1>1, <2>1, <3>2 DEF Recalculate, RowOK, Open, Closed
  <2>2. CASE Cancel(o)
    <3>1. /\ order'[o].cycle = order[o].cycle
          /\ order'[o].status = "cancelled"
          /\ order'[o].inbound = order[o].inbound
          /\ order'[o].delivery = order[o].delivery
          /\ order'[o].attempts = order[o].attempts
      BY <1>1, <2>2 DEF Cancel, OrderRow
    <3>2. stock'[o] = 0
      BY <1>1, <2>2 DEF Cancel, RowOK, Closed
    <3> QED
      BY <1>1, <1>2, <2>2, <3>1, <3>2 DEF Cancel, RowOK, Open, Closed, Absent
  <2>3. CASE MarkInbound(o)
    <3>1. /\ order'[o].cycle = order[o].cycle
          /\ order'[o].status = order[o].status
          /\ order'[o].inbound
          /\ order'[o].delivery = "delivered"
          /\ order'[o].needed = order[o].needed
      BY <1>1, <2>3 DEF MarkInbound, OrderRow
    <3>2. o \notin overwritten /\ order[o].needed /\ stock[o] = 0
      BY <1>1, <2>3 DEF MarkInbound, RowOK, Closed
    <3>3. stock'[o] = 1
      BY <1>1, <2>3, <3>2 DEF MarkInbound
    <3> QED
      BY <1>1, <1>2, <2>3, <3>1, <3>2, <3>3
      DEF MarkInbound, RowOK, Open, Closed, Absent
  <2>4. CASE /\ Received(o)
             /\ order' = [order EXCEPT ![o].delivery = "delivered"]
             /\ order[o].inbound /\ UNCHANGED stock
    <3>1. /\ order'[o].cycle = order[o].cycle
          /\ order'[o].status = order[o].status
          /\ order'[o].inbound = order[o].inbound
          /\ order'[o].delivery = "delivered"
          /\ order'[o].needed = order[o].needed
      BY <1>1, <2>4 DEF OrderRow
    <3> QED
      BY <1>1, <1>2, <2>4, <3>1 DEF RowOK
  <2>5. CASE NotReceived(o)
    <3>1. /\ order'[o].cycle = order[o].cycle
          /\ order'[o].status = order[o].status
          /\ ~ order'[o].inbound
          /\ order'[o].needed = order[o].needed
          /\ order'[o].delivery # "delivered"
          /\ order'[o].delivery = "unknown"
                => order'[o].attempts = UnknownAttempts
      BY <1>1, <2>5 DEF NotReceived, OrderRow
    <3>2. stock'[o] = 0
      BY <1>1, <2>5 DEF NotReceived, RowOK, Closed
    <3> QED
      BY <1>1, <1>2, <2>5, <3>1, <3>2 DEF NotReceived, RowOK, Open, Closed, Absent
  <2> QED
    BY <2>1, <2>2, <2>3, <2>4, <2>5 DEF Received, ScheduledInbound
<1>4. RowsOK'
  <2> SUFFICES ASSUME NEW p \in Orders PROVE RowOK(p)'
    BY DEF RowsOK
  <2>1. RowOK(p)
    BY DEF RowsOK
  <2> QED
    BY <1>2, <1>3, <2>1 DEF RowOK
<1>5. Unique'
  BY <1>2, <1>3, UniqueShrinks DEF Open
<1> QED
  BY <1>4, <1>5

(* Steps that leave status, cycle, delivery and stock alone.               *)
LEMMA FlagsKeep ==
    ASSUME RowsOK, Unique, UNCHANGED <<stock, overwritten>>,
           \A o \in Orders :
              /\ order'[o].cycle = order[o].cycle
              /\ order'[o].status = order[o].status
              /\ order'[o].inbound = order[o].inbound
              /\ order'[o].delivery = order[o].delivery
              /\ order'[o].attempts = order[o].attempts
              /\ order'[o].needed = order[o].needed
    PROVE  RowsOK' /\ Unique'
<1>1. RowsOK'
  BY DEF RowsOK, RowOK
<1> QED
  BY <1>1, UniqueShrinks

LEMMA DraftCommitKeeps ==
    ASSUME IInv, DraftCommit
    PROVE  RowsOK' /\ Unique'
<1> DEFINE c == tx[Scheduler].cycle
<1>1. PICK n \in Orders :
        /\ order[n].status = Absent
        /\ order' = [order EXCEPT ![n] = NewRow(c, "draft", autoConfirm)]
  BY DEF DraftCommit
<1>2. /\ TypeOK /\ RowsOK /\ Unique /\ order \in [Orders -> OrderRow]
      /\ In(c, Open) = {} /\ UNCHANGED <<stock, overwritten>>
  BY DEF IInv, TypeOK, DraftCommit
<1> HIDE DEF c
<1>3. order'[n] = NewRow(c, "draft", autoConfirm)
  BY <1>1, <1>2
<1>4. \A o \in Orders : o # n => order'[o] = order[o]
  BY <1>1, <1>2
<1>5. ASSUME NEW o \in Orders PROVE RowOK(o)'
  <2>1. RowOK(o)
    BY <1>2 DEF RowsOK
  <2>2. CASE o = n
    BY <1>1, <1>2, <1>3, <2>1, <2>2 DEF RowOK, NewRow, Open, Closed, Absent
  <2>3. CASE o # n
    BY <1>2, <1>4, <2>1, <2>3 DEF RowOK
  <2> QED
    BY <2>2, <2>3
<1>6. Unique'
  <2>1. order'[n].status = "draft" /\ order'[n].cycle = c
    BY <1>3 DEF NewRow
  <2>2. \A o \in Orders : order[o].status \in Open => order[o].cycle # c
    BY <1>2 DEF In
  <2>3. OneConfirmedPerCycle'
    BY <1>2, <1>4, <2>1 DEF Unique, OneConfirmedPerCycle
  <2>4. OneOpenPerCycle'
    BY <1>2, <1>4, <2>1, <2>2 DEF Unique, OneOpenPerCycle
  <2> QED
    BY <2>3, <2>4 DEF Unique
<1> QED
  BY <1>5, <1>6 DEF RowsOK

LEMMA AutoBlockKeeps ==
    ASSUME IInv, AutoBlock
    PROVE  RowsOK' /\ Unique'
<1>1. PICK o \in tx[Scheduler].rows, needed \in BOOLEAN :
        order' = [order EXCEPT ![o] =
                    [order[o] EXCEPT !.status = "awaiting_user",
                                     !.armed = FALSE, !.needed = needed]]
  BY DEF AutoBlock
<1>2. /\ TypeOK /\ RowsOK /\ Unique /\ order \in [Orders -> OrderRow]
      /\ o \in Orders /\ order[o].status = "draft"
      /\ UNCHANGED <<stock, overwritten>>
  BY DEF IInv, TypeOK, AutoBlock, TransactionsOK, TransactionOK, Sessions,
     Transaction
<1>3. order[o] \in OrderRow
  BY <1>2
<1>4. /\ order'[o].status = "awaiting_user"
      /\ order'[o].cycle = order[o].cycle
      /\ order'[o].inbound = order[o].inbound
      /\ order'[o].delivery = order[o].delivery
      /\ order'[o].attempts = order[o].attempts
  BY <1>1, <1>2, <1>3 DEF OrderRow
<1>5. \A p \in Orders : p # o => order'[p] = order[p]
  BY <1>1, <1>2
<1>6. ASSUME NEW p \in Orders PROVE RowOK(p)'
  <2>1. RowOK(p)
    BY <1>2 DEF RowsOK
  <2> QED
    BY <1>2, <1>4, <1>5, <2>1 DEF RowOK, Open, Closed, Absent
<1>7. Unique'
  BY <1>2, <1>4, <1>5, UniqueShrinks DEF Open
<1> QED
  BY <1>6, <1>7 DEF RowsOK

LEMMA RowsStep == IInv /\ [Next]_vars => RowsOK' /\ Unique'
<1> SUFFICES ASSUME IInv, [Next]_vars PROVE RowsOK' /\ Unique'
  OBVIOUS
<1>0. TypeOK /\ RowsOK /\ Unique /\ TransactionsOK /\ Scheduler \in Sessions
  BY DEF IInv, Sessions
<1>1. ASSUME UNCHANGED <<order, stock, overwritten>>
      PROVE  RowsOK' /\ Unique'
  BY <1>0, <1>1, QuietRows
<1>2. ASSUME NEW s \in Sessions
      PROVE  /\ tx[s].rows \in SUBSET Orders
             /\ \A o \in tx[s].rows : order[o].status # Absent
             /\ TransactionOK(s)
  BY <1>0 DEF TypeOK, Transaction, TransactionsOK, TransactionOK
<1>3. ASSUME NEW s \in Requests, RequestStep(s)
      PROVE  RowsOK' /\ Unique'
  <2>0. s \in Sessions
    BY DEF Sessions
  <2>1. CASE ConfirmCommit(s)
    BY <2>1, ConfirmCommitKeeps
  <2>2. CASE ApproveCommit(s)
    <3>1. PICK o \in tx[s].rows : /\ In(order[o].cycle, {"confirmed"}) = {}
                                  /\ order' = Confirming(o, FALSE)
      BY <2>2 DEF ApproveCommit
    <3>2. o \in Orders /\ order[o].status \in Open
      BY <1>2, <2>0, <2>2, <3>1 DEF ApproveCommit, TransactionOK
    <3> QED
      BY <1>0, <2>2, <3>1, <3>2, ConfirmingKeeps DEF ApproveCommit
  <2>3. CASE SkipCommit(s)
    BY <1>0, <1>2, <2>0, <2>3, ClosingRows, ClosingUnique DEF SkipCommit, Closed
  <2>4. CASE RestoreCommit(s)
    <3>1. ASSUME NEW o \in Orders
          PROVE  order'[o] \in {order[o], [order[o] EXCEPT !.armed = TRUE]}
                 /\ order[o] \in OrderRow
      BY <1>0, <2>4 DEF RestoreCommit, TypeOK
    <3> QED
      BY <1>0, <2>4, <3>1, FlagsKeep DEF RestoreCommit, OrderRow
  <2>5. CASE \/ ConfirmRead(s) \/ ConfirmFlush(s)
             \/ \E o \in Orders : ApproveLock(s, o)
             \/ SkipRead(s) \/ SkipLockSettings(s) \/ RestoreRead(s)
    BY <1>1, <2>5 DEF ConfirmRead, ConfirmFlush, ApproveLock, SkipRead,
       SkipLockSettings, RestoreRead
  <2> QED
    BY <1>3, <2>1, <2>2, <2>3, <2>4, <2>5 DEF RequestStep
<1>4. ASSUME NEW o \in Orders, OrderRequest(o)
      PROVE  RowsOK' /\ Unique'
  BY <1>0, <1>4, OneRowKeeps DEF OrderRequest
<1>5. CASE SchedulerStep
  <2>1. CASE DraftCommit
    BY <2>1, DraftCommitKeeps
  <2>2. CASE ExpireCommit \/ AutoDuplicateExpire
    BY <1>0, <1>2, <2>2, ClosingRows, ClosingUnique
    DEF ExpireCommit, AutoDuplicateExpire, Closed
  <2>3. CASE AutoExpire
    <3>1. \A o \in tx[Scheduler].rows : order[o].status = "draft"
      BY <1>0, <1>2, <2>3 DEF AutoExpire, TransactionOK
    <3>2. overwritten' = overwritten \cup NoLongerOpen(tx[Scheduler].rows)
      BY <2>3, <3>1 DEF AutoExpire, NoLongerOpen, Open
    <3> QED
      BY <1>0, <1>2, <2>3, <3>2, ClosingRows, ClosingUnique
      DEF AutoExpire, Closed
  <2>4. CASE AutoBlock
    BY <2>4, AutoBlockKeeps
  <2>5. CASE AutoRemind
    <3>1. ASSUME NEW o \in Orders
          PROVE  order'[o] \in {order[o], [order[o] EXCEPT !.reminded = TRUE]}
                 /\ order[o] \in OrderRow
      BY <1>0, <2>5 DEF AutoRemind, TypeOK
    <3> QED
      BY <1>0, <2>5, <3>1, FlagsKeep DEF AutoRemind, OrderRow
  <2>6. CASE AutoCommit
    <3>1. PICK o \in tx[Scheduler].rows :
            /\ In(order[o].cycle, {"confirmed"}) = {}
            /\ order' = Confirming(o, TRUE)
      BY <2>6 DEF AutoCommit
    <3>2. o \in Orders /\ order[o].status \in Open
      BY <1>0, <1>2, <2>6, <3>1 DEF AutoCommit, TransactionOK, Open
    <3> QED
      BY <1>0, <2>6, <3>1, <3>2, ConfirmingKeeps DEF AutoCommit
  <2>7. ASSUME NEW o \in Orders, ScheduledInbound(o)
        PROVE  RowsOK' /\ Unique'
    BY <1>0, <2>7, OneRowKeeps
  <2>8. CASE \/ DraftRead \/ ExpireRead \/ AutoConflict \/ AutoDuplicateRead
             \/ \E o \in Orders : AutoLock(o)
    BY <1>1, <2>8 DEF DraftRead, ExpireRead, AutoConflict, AutoDuplicateRead,
       AutoLock
  <2> QED
    BY <1>5, <2>1, <2>2, <2>3, <2>4, <2>5, <2>6, <2>7, <2>8 DEF SchedulerStep
<1>6. CASE AutoConfirmOff
  <2>1. ASSUME NEW o \in Orders
        PROVE  order'[o] \in {order[o], [order[o] EXCEPT !.armed = FALSE]}
               /\ order[o] \in OrderRow
    BY <1>0, <1>6 DEF AutoConfirmOff, TypeOK
  <2> QED
    BY <1>0, <1>6, <2>1, FlagsKeep DEF AutoConfirmOff, OrderRow
<1>7. CASE \/ \E s \in Sessions : Abort(s)
           \/ NextCycle \/ UNCHANGED vars
  BY <1>1, <1>7 DEF Abort, NextCycle, vars
<1> QED
  BY <1>3, <1>4, <1>5, <1>6, <1>7 DEF Next

-----------------------------------------------------------------------------
(* What the steps of others leave of a session's knowledge.                *)

Undisturbed(s) ==
    /\ tx'[s] = tx[s]
    /\ \A o \in tx[s].rows :
          /\ order'[o].status # Absent
          /\ rowLock[o] = s => /\ rowLock'[o] = s
                               /\ order'[o].status = order[o].status
    /\ tx[s].at = "auto_gates" => autoConfirm'

LEMMA UndisturbedKeeps ==
    ASSUME NEW s \in Sessions, TransactionOK(s), Undisturbed(s)
    PROVE  TransactionOK(s)'
  BY DEF TransactionOK, Undisturbed, Locked

LEMMA ClosingStatus ==
    ASSUME TypeOK, NEW rows, NEW armed, NEW st, NEW o \in Orders
    PROVE  Closing(rows, armed, st)[o].status
              = IF o \in rows THEN st ELSE order[o].status
<1>1. order[o] \in OrderRow
  BY DEF TypeOK
<1> QED
  BY <1>1 DEF Closing, OrderRow

LEMMA ConfirmingStatus ==
    ASSUME TypeOK, NEW o \in Orders, NEW b \in BOOLEAN, NEW p \in Orders
    PROVE  Confirming(o, b)[p].status
              = IF p = o THEN "confirmed" ELSE order[p].status
<1>1. order[o] \in OrderRow /\ order \in [Orders -> OrderRow]
  BY DEF TypeOK
<1> QED
  BY <1>1 DEF Confirming, OrderRow

LEMMA EndLeavesOthers ==
    ASSUME TypeOK, NEW r \in Sessions, NEW s \in Sessions, s # r, End(r)
    PROVE  /\ tx'[s] = tx[s]
           /\ \A o \in Orders : rowLock[o] = s => rowLock'[o] = s
  BY DEF End, LocksDroppedBy, TypeOK

(* A session that ends knows nothing any more.                             *)
LEMMA EndForgets ==
    ASSUME TypeOK, NEW s \in Sessions, End(s)
    PROVE  TransactionOK(s)'
<1>1. tx'[s] = Idle
  BY DEF End, TypeOK
<1> QED
  BY <1>1 DEF TransactionOK, Idle, Locked

(* A write that changes the status of rows that its session has locked, or *)
(* that nobody has locked, or that did not exist, disturbs no other.       *)
LEMMA WriteLeavesOthers ==
    ASSUME IInv, NEW r \in Sessions, NEW s \in Sessions, s # r, End(r),
           autoConfirm => autoConfirm',
           \A o \in Orders :
              \/ order'[o].status = order[o].status
              \/ /\ order'[o].status # Absent
                 /\ \/ rowLock[o] \in {r, NoSession}
                    \/ order[o].status = Absent
    PROVE  Undisturbed(s)
<1>1. /\ TypeOK /\ TransactionOK(s) /\ s # NoSession
      /\ tx[s].rows \subseteq Orders
  BY DEF IInv, TransactionsOK, TypeOK, Transaction
<1>2. /\ tx'[s] = tx[s]
      /\ \A o \in Orders : rowLock[o] = s => rowLock'[o] = s
  BY <1>1, EndLeavesOthers
<1> QED
  BY <1>1, <1>2 DEF Undisturbed, TransactionOK

(* A step that reads and locks disturbs no other: it takes free locks only. *)
LEMMA ReadLeavesOthers ==
    ASSUME IInv, NEW r \in Sessions, NEW s \in Sessions, s # r,
           UNCHANGED <<order, autoConfirm>>, tx'[s] = tx[s],
           \A o \in Orders : \/ rowLock'[o] = rowLock[o]
                             \/ rowLock[o] \in {r, NoSession}
    PROVE  Undisturbed(s)
<1>1. TransactionOK(s) /\ s # NoSession /\ tx[s].rows \subseteq Orders
  BY DEF IInv, TransactionsOK, TypeOK, Transaction
<1> QED
  BY <1>1 DEF Undisturbed, TransactionOK

LEMMA RequestLeavesOthers ==
    ASSUME IInv, NEW r \in Requests, RequestStep(r),
           NEW s \in Sessions, s # r
    PROVE  Undisturbed(s)
<1>0. /\ r \in Sessions /\ TypeOK /\ TransactionOK(r)
      /\ tx[r].rows \subseteq Orders
      /\ rowLock \in [Orders -> Sessions \cup {NoSession}]
      /\ tx \in [Sessions -> Transaction]
  BY DEF IInv, TransactionsOK, TypeOK, Transaction, Sessions
<1>1. CASE ConfirmCommit(r)
  <2> DEFINE closed == Closing(tx[r].rows, tx[r].armed, "cancelled")
  <2>1. PICK n \in Orders :
          /\ order[n].status = Absent
          /\ order' = [closed
                EXCEPT ![n] = NewRow(tx[r].cycle, "confirmed", FALSE)]
    BY <1>1 DEF ConfirmCommit
  <2>2. closed \in [Orders -> OrderRow]
    BY <1>0, ClosingType DEF TypeOK, Closed
  <2>3. \A o \in Orders : closed[o].status
           = IF o \in tx[r].rows THEN "cancelled" ELSE order[o].status
    BY <1>0, ClosingStatus
  <2>4. \A o \in tx[r].rows : rowLock[o] = r
    BY <1>0, <1>1 DEF ConfirmCommit, TransactionOK, Locked
  <2> HIDE DEF closed
  <2>5. /\ order'[n].status = "confirmed"
        /\ \A o \in Orders : o # n => order'[o] = closed[o]
    BY <2>1, <2>2 DEF NewRow
  <2> QED
    BY <1>0, <1>1, <2>1, <2>3, <2>4, <2>5, WriteLeavesOthers
    DEF ConfirmCommit, Absent
<1>2. CASE ApproveCommit(r)
  <2>1. PICK o \in tx[r].rows : order' = Confirming(o, FALSE)
    BY <1>2 DEF ApproveCommit
  <2>2. rowLock[o] = r
    BY <1>0, <1>2 DEF ApproveCommit, TransactionOK, Locked
  <2>3. \A p \in Orders : order'[p].status
           = IF p = o THEN "confirmed" ELSE order[p].status
    <3>1. o \in Orders
      BY <1>0
    <3> QED
      BY <1>0, <2>1, <3>1, ConfirmingStatus
  <2> QED
    BY <1>0, <1>2, <2>2, <2>3, WriteLeavesOthers DEF ApproveCommit, Absent
<1>3. CASE SkipCommit(r)
  <2>1. \A o \in Orders : order'[o].status
           = IF o \in tx[r].rows THEN "cancelled" ELSE order[o].status
    BY <1>0, <1>3, ClosingStatus DEF SkipCommit
  <2> QED
    BY <1>0, <1>3, <2>1, WriteLeavesOthers DEF SkipCommit, Absent, Unlocked
<1>4. CASE RestoreCommit(r)
  <2>1. ASSUME NEW o \in Orders
        PROVE  order'[o].status = order[o].status
    <3>1. order[o] \in OrderRow
      BY <1>0 DEF TypeOK
    <3> QED
      BY <1>4, <3>1 DEF RestoreCommit, OrderRow
  <2>2. /\ autoConfirm => autoConfirm'
        /\ End(r)
    BY <1>4 DEF RestoreCommit
  <2> QED
    BY <1>0, <2>1, <2>2, WriteLeavesOthers
<1>5. CASE \/ ConfirmRead(r) \/ SkipRead(r) \/ SkipLockSettings(r)
           \/ RestoreRead(r)
  BY <1>0, <1>5, ReadLeavesOthers
  DEF ConfirmRead, SkipRead, SkipLockSettings, RestoreRead
<1>6. CASE ConfirmFlush(r)
  BY <1>0, <1>6, ReadLeavesOthers DEF ConfirmFlush, Unlocked
<1>7. ASSUME NEW o \in Orders, ApproveLock(r, o) PROVE Undisturbed(s)
  BY <1>0, <1>7, ReadLeavesOthers DEF ApproveLock, Unlocked
<1> QED
  BY <1>1, <1>2, <1>3, <1>4, <1>5, <1>6, <1>7 DEF RequestStep

LEMMA SchedulerLeavesOthers ==
    ASSUME IInv, NEW s \in Sessions, s # Scheduler,
           SchedulerStep, \A o \in Orders : ~ ScheduledInbound(o)
    PROVE  Undisturbed(s)
<1> DEFINE r == Scheduler
<1>0. /\ r \in Sessions /\ TypeOK /\ TransactionOK(r)
      /\ tx[r].rows \subseteq Orders
      /\ rowLock \in [Orders -> Sessions \cup {NoSession}]
      /\ tx \in [Sessions -> Transaction]
      /\ order \in [Orders -> OrderRow]
  BY DEF IInv, TransactionsOK, TypeOK, Transaction, Sessions
<1>1. CASE DraftCommit
  <2>1. PICK n \in Orders :
          /\ order[n].status = Absent
          /\ order' = [order EXCEPT ![n] = NewRow(tx[r].cycle, "draft",
                                                  autoConfirm)]
    BY <1>1 DEF DraftCommit
  <2>2. /\ order'[n].status = "draft"
        /\ \A o \in Orders : o # n => order'[o] = order[o]
    BY <1>0, <2>1 DEF NewRow
  <2> QED
    BY <1>0, <1>1, <2>1, <2>2, WriteLeavesOthers DEF DraftCommit, Absent
<1>2. CASE ExpireCommit \/ AutoDuplicateExpire
  <2>1. \A o \in Orders : order'[o].status
           = IF o \in tx[r].rows THEN "expired" ELSE order[o].status
    BY <1>0, <1>2, ClosingStatus DEF ExpireCommit, AutoDuplicateExpire
  <2> QED
    BY <1>0, <1>2, <2>1, WriteLeavesOthers
    DEF ExpireCommit, AutoDuplicateExpire, Absent, Unlocked
<1>3. CASE AutoExpire
  <2>1. \A o \in Orders : order'[o].status
           = IF o \in tx[r].rows THEN "expired" ELSE order[o].status
    BY <1>0, <1>3, ClosingStatus DEF AutoExpire
  <2>2. \A o \in tx[r].rows : rowLock[o] = r
    BY <1>0, <1>3 DEF AutoExpire, TransactionOK, Locked
  <2> QED
    BY <1>0, <1>3, <2>1, <2>2, WriteLeavesOthers DEF AutoExpire, Absent
<1>4. CASE AutoBlock
  <2>1. PICK o \in tx[r].rows, needed \in BOOLEAN :
          order' = [order EXCEPT ![o] =
                      [order[o] EXCEPT !.status = "awaiting_user",
                                       !.armed = FALSE, !.needed = needed]]
    BY <1>4 DEF AutoBlock
  <2>2. rowLock[o] = r /\ s # NoSession
    BY <1>0, <1>4 DEF AutoBlock, TransactionOK, Locked
  <2>3. order[o] \in OrderRow /\ o \in Orders
    BY <1>0
  <2>4. /\ order'[o].status = "awaiting_user"
        /\ \A p \in Orders : p # o => order'[p] = order[p]
    BY <1>0, <2>1, <2>3 DEF OrderRow
  <2>5. TransactionOK(s) /\ tx[s].rows \subseteq Orders
    BY <1>0 DEF IInv, TransactionsOK, Transaction
  <2>6. /\ tx'[s] = tx[s] /\ autoConfirm' = autoConfirm
        /\ \A p \in Orders : rowLock[p] = s => rowLock'[p] = s
    BY <1>0, <1>4 DEF AutoBlock, LocksDroppedBy
  <2> QED
    BY <2>2, <2>4, <2>5, <2>6 DEF Undisturbed, TransactionOK, Absent
<1>5. CASE AutoRemind
  <2>1. ASSUME NEW o \in Orders
        PROVE  order'[o].status = order[o].status
    <3>1. order[o] \in OrderRow
      BY <1>0
    <3> QED
      BY <1>5, <3>1 DEF AutoRemind, OrderRow
  <2> QED
    BY <1>0, <1>5, <2>1, WriteLeavesOthers DEF AutoRemind
<1>6. CASE AutoCommit
  <2>1. PICK o \in tx[r].rows : order' = Confirming(o, TRUE)
    BY <1>6 DEF AutoCommit
  <2>2. rowLock[o] = r
    BY <1>0, <1>6 DEF AutoCommit, TransactionOK, Locked
  <2>3. \A p \in Orders : order'[p].status
           = IF p = o THEN "confirmed" ELSE order[p].status
    <3>1. o \in Orders
      BY <1>0
    <3> QED
      BY <1>0, <2>1, <3>1, ConfirmingStatus
  <2> QED
    BY <1>0, <1>6, <2>2, <2>3, WriteLeavesOthers DEF AutoCommit, Absent
<1>7. CASE DraftRead \/ ExpireRead \/ AutoDuplicateRead
  BY <1>0, <1>7, ReadLeavesOthers DEF DraftRead, ExpireRead, AutoDuplicateRead
<1>8. CASE AutoConflict
  <2>1. \A o \in Orders : rowLock'[o] = rowLock[o] \/ rowLock[o] = r
    BY <1>8 DEF AutoConflict, LocksDroppedBy
  <2> QED
    BY <1>0, <1>8, <2>1, ReadLeavesOthers DEF AutoConflict
<1>9. ASSUME NEW o \in Orders, AutoLock(o) PROVE Undisturbed(s)
  BY <1>0, <1>9, ReadLeavesOthers DEF AutoLock, Unlocked
<1> QED
  BY <1>1, <1>2, <1>3, <1>4, <1>5, <1>6, <1>7, <1>8, <1>9 DEF SchedulerStep

(* The requests of one step write a row nobody has locked.                 *)
LEMMA OneRowLeavesAll ==
    ASSUME IInv, NEW s \in Sessions, NEW o \in Orders,
           OrderRequest(o) \/ ScheduledInbound(o)
    PROVE  Undisturbed(s)
<1>1. /\ order[o] \in OrderRow /\ order \in [Orders -> OrderRow]
      /\ TransactionOK(s) /\ tx[s].rows \subseteq Orders /\ s # NoSession
  BY DEF IInv, TransactionsOK, TypeOK, Transaction
<1>2. /\ UNCHANGED <<rowLock, tx, autoConfirm>>
      /\ rowLock[o] = NoSession
  BY DEF OrderRequest, ScheduledInbound, Recalculate, Cancel, Received,
     NotReceived, Unlocked
<1>3. \A p \in Orders : p # o => order'[p] = order[p]
  BY <1>1 DEF OrderRequest, ScheduledInbound, Recalculate, Cancel, Received,
     NotReceived, MarkInbound
<1>4. order'[o].status \in {order[o].status, "cancelled"}
  <2>1. CASE Recalculate(o)
    BY <1>1, <2>1 DEF Recalculate, OrderRow
  <2>2. CASE Cancel(o)
    BY <1>1, <2>2 DEF Cancel, OrderRow
  <2>3. CASE Received(o) \/ ScheduledInbound(o)
    BY <1>1, <2>3 DEF Received, ScheduledInbound, MarkInbound, OrderRow
  <2>4. CASE NotReceived(o)
    BY <1>1, <2>4 DEF NotReceived, OrderRow
  <2> QED
    BY <2>1, <2>2, <2>3, <2>4 DEF OrderRequest
<1> QED
  BY <1>1, <1>2, <1>3, <1>4 DEF Undisturbed, TransactionOK, Absent

(* Auto-confirm is not turned off under the scheduler's feet: the UPDATE   *)
(* that disarms the open orders waits for the draft it has locked.         *)
LEMMA AutoConfirmOffLeavesAll ==
    ASSUME IInv, NEW s \in Sessions, AutoConfirmOff
    PROVE  Undisturbed(s)
<1>1. /\ order \in [Orders -> OrderRow] /\ s # NoSession
      /\ TransactionOK(s) /\ tx[s].rows \subseteq Orders
  BY DEF IInv, TransactionsOK, TypeOK, Transaction
<1>2. ASSUME NEW o \in Orders
      PROVE  order'[o].status = order[o].status
  <2>1. order[o] \in OrderRow
    BY <1>1
  <2> QED
    BY <2>1 DEF AutoConfirmOff, OrderRow
<1>3. tx[s].at # "auto_gates"
  <2> SUFFICES ASSUME tx[s].at = "auto_gates" PROVE FALSE
    OBVIOUS
  <2>1. PICK o \in tx[s].rows : rowLock[o] = s /\ order[o].status = "draft"
    BY <1>1 DEF TransactionOK, Locked
  <2> QED
    BY <1>1, <2>1 DEF AutoConfirmOff, Unlocked, Open
<1> QED
  BY <1>1, <1>2, <1>3 DEF Undisturbed, TransactionOK, AutoConfirmOff

-----------------------------------------------------------------------------
(* What a session's own steps teach it.                                    *)

LEMMA BeginKnows ==
    ASSUME TypeOK, NEW s \in Sessions, NEW p, NEW rows, NEW c,
           tx' = [tx EXCEPT ![s] = Begin(p, rows, c)]
    PROVE  tx'[s].at = p /\ tx'[s].rows = rows
  BY DEF Begin, TypeOK

LEMMA RequestKnows ==
    ASSUME IInv, NEW s \in Requests, RequestStep(s)
    PROVE  TransactionOK(s)'
<1>0. /\ TypeOK /\ s \in Sessions /\ TransactionOK(s)
      /\ tx \in [Sessions -> Transaction] /\ tx[s] \in Transaction
      /\ rowLock \in [Orders -> Sessions \cup {NoSession}]
      /\ tx[s].rows \subseteq Orders
  BY DEF IInv, TypeOK, Sessions, TransactionsOK, Transaction
<1>1. CASE \/ ConfirmCommit(s) \/ ApproveCommit(s) \/ SkipCommit(s)
           \/ RestoreCommit(s)
  BY <1>0, <1>1, EndForgets
  DEF ConfirmCommit, ApproveCommit, SkipCommit, RestoreCommit
<1>2. CASE ConfirmRead(s)
  <2>1. /\ tx'[s].at \in {"confirm_preview", "confirm_flush"}
        /\ tx'[s].at = "confirm_preview" => tx'[s].rows = {}
        /\ tx'[s].rows = In(clock, Open)
    BY <1>0, <1>2, BeginKnows DEF ConfirmRead
  <2> QED
    BY <1>2, <2>1 DEF ConfirmRead, TransactionOK, In, Open, Absent, Locked
<1>3. CASE ConfirmFlush(s)
  <2>1. tx'[s].at = "confirm_preview" /\ tx'[s].rows = tx[s].rows
    BY <1>0, <1>3 DEF ConfirmFlush, Transaction
  <2>2. \A o \in tx[s].rows : rowLock'[o] = s
    BY <1>0, <1>3 DEF ConfirmFlush
  <2> QED
    BY <1>0, <1>3, <2>1, <2>2 DEF ConfirmFlush, TransactionOK
<1>4. ASSUME NEW o \in Orders, ApproveLock(s, o) PROVE TransactionOK(s)'
  <2>1. tx'[s].at = "approve_preview" /\ tx'[s].rows = {o}
    BY <1>0, <1>4, BeginKnows DEF ApproveLock
  <2> QED
    BY <1>0, <1>4, <2>1 DEF ApproveLock, TransactionOK, Open, Absent
<1>5. CASE SkipRead(s)
  <2>1. tx'[s].at = "skip_settings" /\ tx'[s].rows = {}
    BY <1>0, <1>5, BeginKnows DEF SkipRead
  <2> QED
    BY <2>1 DEF TransactionOK
<1>6. CASE SkipLockSettings(s)
  <2>1. tx'[s].at = "skip_flush" /\ tx'[s].rows = In(tx[s].cycle, Open)
    BY <1>0, <1>6, BeginKnows DEF SkipLockSettings
  <2> QED
    BY <1>6, <2>1 DEF SkipLockSettings, TransactionOK, In, Open, Absent, Locked
<1>7. CASE RestoreRead(s)
  <2>1. /\ tx'[s].at = "restore_flush"
        /\ \A o \in tx'[s].rows : order[o].status = "draft"
    BY <1>0, <1>7, BeginKnows DEF RestoreRead
  <2> QED
    BY <1>7, <2>1 DEF RestoreRead, TransactionOK, Absent, Locked
<1> QED
  BY <1>1, <1>2, <1>3, <1>4, <1>5, <1>6, <1>7 DEF RequestStep

LEMMA SchedulerKnows ==
    ASSUME IInv, SchedulerStep, \A o \in Orders : ~ ScheduledInbound(o)
    PROVE  TransactionOK(Scheduler)'
<1> DEFINE s == Scheduler
<1>0. /\ TypeOK /\ s \in Sessions /\ TransactionOK(s)
      /\ tx \in [Sessions -> Transaction] /\ tx[s] \in Transaction
      /\ rowLock \in [Orders -> Sessions \cup {NoSession}]
      /\ order \in [Orders -> OrderRow] /\ tx[s].rows \subseteq Orders
  BY DEF IInv, TypeOK, Sessions, TransactionsOK, Transaction
<1>1. CASE \/ DraftCommit \/ ExpireCommit \/ AutoExpire \/ AutoRemind
           \/ AutoCommit \/ AutoDuplicateExpire
  BY <1>0, <1>1, EndForgets DEF DraftCommit, ExpireCommit, AutoExpire,
     AutoRemind, AutoCommit, AutoDuplicateExpire
<1>2. CASE DraftRead
  <2>1. tx'[s].at = "draft_preview" /\ tx'[s].rows = {}
    BY <1>0, <1>2, BeginKnows DEF DraftRead
  <2> QED
    BY <2>1 DEF TransactionOK
<1>3. CASE ExpireRead
  <2>1. /\ tx'[s].at = "expire_flush"
        /\ \A o \in tx'[s].rows : order[o].status \in Open
    BY <1>0, <1>3, BeginKnows DEF ExpireRead
  <2> QED
    BY <1>3, <2>1 DEF ExpireRead, TransactionOK, Open, Absent, Locked
<1>4. ASSUME NEW o \in Orders, AutoLock(o) PROVE TransactionOK(s)'
  <2>1. /\ tx'[s].at \in {"auto_expire", "auto_off", "auto_gates"}
        /\ tx'[s].at = "auto_gates" => autoConfirm
        /\ tx'[s].rows = {o}
    BY <1>0, <1>4, BeginKnows DEF AutoLock
  <2>2. rowLock'[o] = s /\ order'[o].status = "draft"
    BY <1>0, <1>4 DEF AutoLock
  <2> QED
    BY <1>4, <2>1, <2>2 DEF AutoLock, TransactionOK, Absent
<1>5. CASE AutoBlock
  <2>1. tx'[s].at = "auto_remind" /\ tx'[s].rows = tx[s].rows
    BY <1>0, <1>5 DEF AutoBlock, Transaction
  <2>2. ASSUME NEW p \in tx[s].rows PROVE order'[p].status # Absent
    <3>1. PICK o \in tx[s].rows, needed \in BOOLEAN :
            order' = [order EXCEPT ![o] =
                        [order[o] EXCEPT !.status = "awaiting_user",
                                         !.armed = FALSE, !.needed = needed]]
      BY <1>5 DEF AutoBlock
    <3>2. order[o] \in OrderRow /\ p \in Orders /\ order[p].status # Absent
      BY <1>0 DEF TransactionOK
    <3> QED
      BY <1>0, <3>1, <3>2 DEF OrderRow, Absent
  <2> QED
    BY <2>1, <2>2 DEF TransactionOK, Locked
<1>6. CASE AutoConflict
  <2>1. tx'[s].at = "auto_conflict" /\ tx'[s].rows = tx[s].rows
    BY <1>0, <1>6 DEF AutoConflict, Transaction
  <2> QED
    BY <1>0, <1>6, <2>1 DEF AutoConflict, TransactionOK, Locked
<1>7. CASE AutoDuplicateRead
  <2>1. \/ tx'[s].at = "auto_duplicate" /\ tx'[s].rows = tx[s].rows
        \/ tx'[s].at = "idle" /\ tx'[s].rows = {}
    BY <1>0, <1>7 DEF AutoDuplicateRead, Begin, Idle
  <2> QED
    BY <1>0, <1>7, <2>1 DEF AutoDuplicateRead, TransactionOK, Locked
<1> QED
  BY <1>1, <1>2, <1>3, <1>4, <1>5, <1>6, <1>7 DEF SchedulerStep

LEMMA TransactionsStep == IInv /\ [Next]_vars => TransactionsOK'
<1> SUFFICES ASSUME IInv, [Next]_vars, NEW s \in Sessions
             PROVE  TransactionOK(s)'
  BY DEF TransactionsOK
<1>0. TransactionOK(s) /\ TypeOK
  BY DEF IInv, TransactionsOK
<1>1. ASSUME NEW r \in Requests, RequestStep(r) PROVE TransactionOK(s)'
  BY <1>0, <1>1, RequestLeavesOthers, RequestKnows, UndisturbedKeeps
<1>2. ASSUME NEW o \in Orders, OrderRequest(o) \/ ScheduledInbound(o)
      PROVE  TransactionOK(s)'
  BY <1>0, <1>2, OneRowLeavesAll, UndisturbedKeeps
<1>3. CASE SchedulerStep
  BY <1>0, <1>2, <1>3, SchedulerLeavesOthers, SchedulerKnows, UndisturbedKeeps
<1>4. CASE AutoConfirmOff
  BY <1>0, <1>4, AutoConfirmOffLeavesAll, UndisturbedKeeps
<1>5. ASSUME NEW r \in Sessions, Abort(r) PROVE TransactionOK(s)'
  <2>1. CASE s = r
    BY <1>0, <1>5, <2>1, EndForgets DEF Abort
  <2>2. CASE s # r
    BY <1>0, <1>5, <2>2, WriteLeavesOthers, UndisturbedKeeps DEF Abort
  <2> QED
    BY <2>1, <2>2
<1>6. CASE NextCycle \/ UNCHANGED vars
  BY <1>0, <1>6 DEF NextCycle, vars, TransactionOK
<1> QED
  BY <1>1, <1>2, <1>3, <1>4, <1>5, <1>6 DEF Next

-----------------------------------------------------------------------------
(* The inductive invariant, and what follows from it.                      *)

LEMMA IInvStep == IInv /\ [Next]_vars => IInv'
<1> SUFFICES ASSUME IInv, [Next]_vars PROVE IInv'
  OBVIOUS
<1>1. TypeOK'
  BY TypeStep DEF IInv
<1>2. RowsOK' /\ Unique'
  BY RowsStep
<1>3. TransactionsOK'
  BY TransactionsStep
<1> QED
  BY <1>1, <1>2, <1>3 DEF IInv

(* The inductive invariant holds in every reachable state.                 *)
THEOREM Inductive == Spec => []IInv
  BY IInvInit, IInvStep, PTL DEF Spec

(* FR-816: one order of a cycle at most is confirmed, whatever the number  *)
(* of requests that confirm, approve, skip and recalculate at once.        *)
THEOREM OneConfirmed == Spec => []OneConfirmedPerCycle
<1>1. IInv => OneConfirmedPerCycle
  BY DEF IInv, Unique
<1> QED
  BY <1>1, Inductive, PTL

(* A cycle never has two open orders.                                      *)
THEOREM OneOpen == Spec => []OneOpenPerCycle
<1>1. IInv => OneOpenPerCycle
  BY DEF IInv, Unique
<1> QED
  BY <1>1, Inductive, PTL

(* FR-815 and FR-823: an order's lines are in the fridge exactly while it  *)
(* is confirmed and registered, and once, for any number of answers,       *)
(* scans and cancellations.                                                *)
THEOREM StockExact == Spec => []StockMatchesOrder
<1>1. IInv => StockMatchesOrder
  BY DEF IInv, RowsOK, RowOK, StockMatchesOrder
<1> QED
  BY <1>1, Inductive, PTL

(* Registration, delivery_state, the attempts and the lines of an order    *)
(* agree, for any UnknownAttempts.                                         *)
THEOREM DeliveriesAgree == Spec => []DeliveryConsistent
<1>1. IInv => DeliveryConsistent
  BY DEF IInv, RowsOK, RowOK, DeliveryConsistent
<1> QED
  BY <1>1, Inductive, PTL
-----------------------------------------------------------------------------
(* What one step may do to one row.                                        *)

Permitted(o) ==
    /\ \/ order'[o].status = order[o].status
       \/ <<order[o].status, order'[o].status>> \in Transitions
       \/ o \in overwritten'
    /\ order'[o].auto => order[o].auto \/ autoConfirm
    /\ /\ order[o].status = "awaiting_user"
       /\ order'[o].status = "confirmed"
       => ~ order'[o].auto

LEMMA FlagsPermitted ==
    ASSUME TypeOK, NEW o \in Orders,
           order'[o].status = order[o].status,
           order'[o].auto = order[o].auto
    PROVE  Permitted(o)
BY DEF Permitted

LEMMA ClosingPermitted ==
    ASSUME TypeOK, NEW rows \in SUBSET Orders, NEW armed, NEW st \in Closed,
           order' = Closing(rows, armed, st),
           overwritten' = overwritten \cup NoLongerOpen(rows),
           NEW o \in Orders
    PROVE  Permitted(o)
<1>1. order[o] \in OrderRow
  BY DEF TypeOK
<1>2. CASE o \in rows
  <2>1. order'[o].status = st /\ order'[o].auto = order[o].auto
    BY <1>1, <1>2 DEF Closing, OrderRow
  <2>2. order[o].status \in Open \/ o \in overwritten'
    BY <1>2 DEF NoLongerOpen
  <2> QED
    BY <1>1, <2>1, <2>2 DEF Permitted, Transitions, Closed
<1>3. CASE o \notin rows
  BY <1>1, <1>3, FlagsPermitted DEF Closing
<1> QED
  BY <1>2, <1>3

LEMMA ConfirmingPermitted ==
    ASSUME TypeOK, NEW p \in Orders, NEW b \in BOOLEAN,
           order[p].status \in Open,
           b => autoConfirm /\ order[p].status = "draft",
           order' = Confirming(p, b), NEW o \in Orders
    PROVE  Permitted(o)
<1>1. order[p] \in OrderRow /\ order \in [Orders -> OrderRow]
  BY DEF TypeOK
<1>2. CASE o = p
  <2>1. order'[o].status = "confirmed" /\ order'[o].auto = b
    BY <1>1, <1>2 DEF Confirming, OrderRow
  <2> QED
    BY <1>1, <1>2, <2>1 DEF Permitted, Transitions
<1>3. CASE o # p
  BY <1>1, <1>3, FlagsPermitted DEF Confirming
<1> QED
  BY <1>2, <1>3

LEMMA NewRowPermitted ==
    ASSUME TypeOK, NEW o \in Orders, NEW c, NEW b,
           NEW st \in {"draft", "confirmed"},
           order[o].status = Absent, order'[o] = NewRow(c, st, b)
    PROVE  Permitted(o)
BY DEF Permitted, Transitions, NewRow, Absent

LEMMA OneRowPermitted ==
    ASSUME TypeOK, NEW p \in Orders, OrderRequest(p) \/ ScheduledInbound(p),
           NEW o \in Orders
    PROVE  Permitted(o)
<1>1. order[p] \in OrderRow /\ order \in [Orders -> OrderRow]
  BY DEF TypeOK
<1>2. CASE o # p
  <2>1. order'[o] = order[o]
    BY <1>1, <1>2 DEF OrderRequest, ScheduledInbound, Recalculate, Cancel,
       Received, NotReceived, MarkInbound
  <2> QED
    BY <2>1, FlagsPermitted
<1>3. CASE o = p
  <2>1. order'[o].auto = order[o].auto
    <3>1. CASE Recalculate(p)
      BY <1>1, <1>3, <3>1 DEF Recalculate, OrderRow
    <3>2. CASE Cancel(p)
      BY <1>1, <1>3, <3>2 DEF Cancel, OrderRow
    <3>3. CASE Received(p) \/ ScheduledInbound(p)
      BY <1>1, <1>3, <3>3 DEF Received, ScheduledInbound, MarkInbound, OrderRow
    <3>4. CASE NotReceived(p)
      BY <1>1, <1>3, <3>4 DEF NotReceived, OrderRow
    <3> QED
      BY <3>1, <3>2, <3>3, <3>4 DEF OrderRequest
  <2>2. CASE Recalculate(p)
    <3>1. order'[o].status = order[o].status
      BY <1>1, <1>3, <2>2 DEF Recalculate, OrderRow
    <3> QED
      BY <2>1, <3>1, FlagsPermitted
  <2>3. CASE Cancel(p)
    <3>1. order[o].status = "confirmed" /\ order'[o].status = "cancelled"
      BY <1>1, <1>3, <2>3 DEF Cancel, OrderRow
    <3> QED
      BY <2>1, <3>1 DEF Permitted, Transitions
  <2>4. CASE Received(p) \/ ScheduledInbound(p)
    <3>1. order[o].status = "confirmed" /\ order'[o].status = "confirmed"
      BY <1>1, <1>3, <2>4 DEF Received, ScheduledInbound, MarkInbound, OrderRow
    <3> QED
      BY <2>1, <3>1 DEF Permitted
  <2>5. CASE NotReceived(p)
    <3>1. order[o].status = "confirmed" /\ order'[o].status = "confirmed"
      BY <1>1, <1>3, <2>5 DEF NotReceived, OrderRow
    <3> QED
      BY <2>1, <3>1 DEF Permitted
  <2> QED
    BY <2>2, <2>3, <2>4, <2>5 DEF OrderRequest
<1> QED
  BY <1>2, <1>3

LEMMA RequestPermitted ==
    ASSUME IInv, NEW s \in Requests, RequestStep(s), NEW o \in Orders
    PROVE  Permitted(o)
<1>0. /\ TypeOK /\ order \in [Orders -> OrderRow] /\ TransactionOK(s)
      /\ tx[s].rows \in SUBSET Orders /\ s \in Sessions
  BY DEF IInv, TypeOK, TransactionsOK, Sessions, Transaction
<1>1. CASE ConfirmCommit(s)
  <2> DEFINE closed == Closing(tx[s].rows, tx[s].armed, "cancelled")
  <2>1. PICK n \in Orders :
          /\ order[n].status = Absent
          /\ order' = [closed EXCEPT
                         ![n] = NewRow(tx[s].cycle, "confirmed", FALSE)]
    BY <1>1 DEF ConfirmCommit
  <2>2. closed \in [Orders -> OrderRow]
    BY <1>0, ClosingType DEF Closed
  <2>3. CASE o = n
    <3>1. order'[o] = NewRow(tx[s].cycle, "confirmed", FALSE)
      BY <2>1, <2>2, <2>3
    <3> QED
      BY <1>0, <1>1, <2>1, <2>3, <3>1, NewRowPermitted DEF ConfirmCommit
  <2>4. CASE o # n
    <3>1. order'[o] = closed[o]
      BY <2>1, <2>2, <2>4
    <3>2. order[o] \in OrderRow
      BY <1>0
    <3>3. CASE o \in tx[s].rows
      <4>1. /\ order'[o].status = "cancelled"
            /\ order'[o].auto = order[o].auto
        BY <3>1, <3>2, <3>3 DEF Closing, OrderRow
      <4>2. order[o].status \in Open \/ o \in overwritten'
        BY <1>1, <3>3 DEF ConfirmCommit, NoLongerOpen
      <4> QED
        BY <4>1, <4>2 DEF Permitted, Transitions, Closed
    <3>4. CASE o \notin tx[s].rows
      <4>1. order'[o] = order[o]
        BY <3>1, <3>4 DEF Closing
      <4> QED
        BY <1>0, <1>1, <4>1, FlagsPermitted DEF ConfirmCommit
    <3> QED
      BY <3>3, <3>4
  <2> QED
    BY <2>3, <2>4
<1>2. CASE ApproveCommit(s)
  <2>1. PICK p \in tx[s].rows : order' = Confirming(p, FALSE)
    BY <1>2 DEF ApproveCommit
  <2>2. p \in Orders /\ order[p].status \in Open
    BY <1>0, <1>2 DEF ApproveCommit, TransactionOK
  <2> QED
    BY <1>0, <1>2, <2>1, <2>2, ConfirmingPermitted DEF ApproveCommit
<1>3. CASE SkipCommit(s)
  BY <1>0, <1>3, ClosingPermitted DEF SkipCommit, Closed
<1>4. CASE RestoreCommit(s)
  <2>1. order[o] \in OrderRow
    BY <1>0
  <2>2. order'[o].status = order[o].status /\ order'[o].auto = order[o].auto
    BY <1>4, <2>1 DEF RestoreCommit, OrderRow
  <2> QED
    BY <1>0, <1>4, <2>2, FlagsPermitted DEF RestoreCommit
<1>5. CASE \/ ConfirmRead(s) \/ ConfirmFlush(s)
           \/ \E p \in Orders : ApproveLock(s, p)
           \/ SkipRead(s) \/ SkipLockSettings(s) \/ RestoreRead(s)
  BY <1>0, <1>5, FlagsPermitted DEF ConfirmRead, ConfirmFlush, ApproveLock,
     SkipRead, SkipLockSettings, RestoreRead
<1> QED
  BY <1>1, <1>2, <1>3, <1>4, <1>5 DEF RequestStep

LEMMA SchedulerPermitted ==
    ASSUME IInv, SchedulerStep, NEW o \in Orders
    PROVE  Permitted(o)
<1> DEFINE s == Scheduler
<1>0. /\ TypeOK /\ order \in [Orders -> OrderRow] /\ TransactionOK(s)
      /\ tx[s].rows \in SUBSET Orders /\ order[o] \in OrderRow
  BY DEF IInv, TypeOK, TransactionsOK, Sessions, Transaction
<1>1. CASE DraftCommit
  <2>1. PICK n \in Orders :
          /\ order[n].status = Absent
          /\ order' = [order EXCEPT ![n] = NewRow(tx[s].cycle, "draft",
                                                  autoConfirm)]
    BY <1>1 DEF DraftCommit
  <2>2. CASE o = n
    <3>1. order'[o] = NewRow(tx[s].cycle, "draft", autoConfirm)
      BY <1>0, <2>1, <2>2
    <3> QED
      BY <1>0, <1>1, <2>1, <2>2, <3>1, NewRowPermitted DEF DraftCommit
  <2>3. CASE o # n
    BY <1>0, <1>1, <2>1, <2>3, FlagsPermitted DEF DraftCommit
  <2> QED
    BY <2>2, <2>3
<1>2. CASE ExpireCommit \/ AutoDuplicateExpire
  BY <1>0, <1>2, ClosingPermitted DEF ExpireCommit, AutoDuplicateExpire, Closed
<1>3. CASE AutoExpire
  <2>1. overwritten' = overwritten \cup NoLongerOpen(tx[s].rows)
    BY <1>0, <1>3 DEF AutoExpire, TransactionOK, NoLongerOpen, Open
  <2> QED
    BY <1>0, <1>3, <2>1, ClosingPermitted DEF AutoExpire, Closed
<1>4. CASE AutoBlock
  <2>1. PICK p \in tx[s].rows, needed \in BOOLEAN :
          order' = [order EXCEPT ![p] =
                      [order[p] EXCEPT !.status = "awaiting_user",
                                       !.armed = FALSE, !.needed = needed]]
    BY <1>4 DEF AutoBlock
  <2>2. order[p].status = "draft"
    BY <1>0, <1>4 DEF AutoBlock, TransactionOK
  <2>3. CASE o = p
    <3>1. order'[o].status = "awaiting_user" /\ order'[o].auto = order[o].auto
      BY <1>0, <2>1, <2>3 DEF OrderRow
    <3> QED
      BY <2>2, <2>3, <3>1 DEF Permitted, Transitions
  <2>4. CASE o # p
    BY <1>0, <2>1, <2>2, <2>4, FlagsPermitted
  <2> QED
    BY <2>3, <2>4
<1>5. CASE AutoRemind
  <2>1. order'[o].status = order[o].status /\ order'[o].auto = order[o].auto
    BY <1>0, <1>5 DEF AutoRemind, OrderRow
  <2> QED
    BY <1>0, <1>5, <2>1, FlagsPermitted DEF AutoRemind
<1>6. CASE AutoCommit
  <2>1. PICK p \in tx[s].rows : order' = Confirming(p, TRUE)
    BY <1>6 DEF AutoCommit
  <2>2. p \in Orders /\ order[p].status = "draft" /\ autoConfirm
    BY <1>0, <1>6 DEF AutoCommit, TransactionOK
  <2> QED
    BY <1>0, <1>6, <2>1, <2>2, ConfirmingPermitted DEF AutoCommit, Open
<1>7. ASSUME NEW p \in Orders, ScheduledInbound(p) PROVE Permitted(o)
  BY <1>0, <1>7, OneRowPermitted
<1>8. CASE \/ DraftRead \/ ExpireRead \/ AutoConflict \/ AutoDuplicateRead
           \/ \E p \in Orders : AutoLock(p)
  BY <1>0, <1>8, FlagsPermitted DEF DraftRead, ExpireRead, AutoConflict,
     AutoDuplicateRead, AutoLock
<1> QED
  BY <1>1, <1>2, <1>3, <1>4, <1>5, <1>6, <1>7, <1>8 DEF SchedulerStep

LEMMA StepPermitted == IInv /\ [Next]_vars => \A o \in Orders : Permitted(o)
<1> SUFFICES ASSUME IInv, [Next]_vars, NEW o \in Orders PROVE Permitted(o)
  OBVIOUS
<1>0. TypeOK /\ order[o] \in OrderRow
  BY DEF IInv, TypeOK
<1>1. ASSUME NEW p \in Orders, OrderRequest(p) PROVE Permitted(o)
  BY <1>0, <1>1, OneRowPermitted
<1>2. CASE AutoConfirmOff
  <2>1. order'[o].status = order[o].status /\ order'[o].auto = order[o].auto
    BY <1>0, <1>2 DEF AutoConfirmOff, OrderRow
  <2> QED
    BY <1>0, <1>2, <2>1, FlagsPermitted DEF AutoConfirmOff
<1>3. CASE (\E s \in Sessions : Abort(s)) \/ NextCycle \/ UNCHANGED vars
  BY <1>0, <1>3, FlagsPermitted DEF Abort, NextCycle, vars
<1> QED
  BY <1>1, <1>2, <1>3, RequestPermitted, SchedulerPermitted DEF Next

(* _ALLOWED_TRANSITIONS holds of the committed rows, over all interleaved  *)
(* sessions, except where a stale UPDATE closed the order.                 *)
THEOREM TransitionsLegal == Spec => LegalTransitions
<1>1. IInv /\ [Next]_vars
        => [\A o \in Orders :
              \/ order'[o].status = order[o].status
              \/ <<order[o].status, order'[o].status>> \in Transitions
              \/ o \in overwritten']_vars
  BY StepPermitted DEF Permitted
<1> QED
  BY <1>1, Inductive, PTL DEF Spec, LegalTransitions

(* FR-811: nothing is auto-confirmed after auto-confirm has been turned    *)
(* off, since turning it off waits for the draft the scheduler is checking. *)
THEOREM OffIsFinal == Spec => AutoConfirmOnlyWhileOn
<1>1. IInv /\ [Next]_vars
        => [\A o \in Orders : order'[o].auto => order[o].auto \/ autoConfirm]_vars
  BY StepPermitted DEF Permitted
<1> QED
  BY <1>1, Inductive, PTL DEF Spec, AutoConfirmOnlyWhileOn

(* FR-810: an order stopped by a gate is never auto-confirmed.             *)
THEOREM BlockedIsManual == Spec => BlockedNeedsUser
<1>1. IInv /\ [Next]_vars
        => [\A o \in Orders :
              order[o].status = "awaiting_user"
                /\ order'[o].status = "confirmed" => ~ order'[o].auto]_vars
  BY StepPermitted DEF Permitted
<1> QED
  BY <1>1, Inductive, PTL DEF Spec, BlockedNeedsUser

-----------------------------------------------------------------------------
(* Refinement.  Initial states map to initial states, and every step to a  *)
(* step or a stutter.                                                      *)

(* The mapping over the values it reads, for use before and after a step.  *)

RowsOf(ord, c, statuses) ==
    {o \in Orders : ord[o].status \in statuses /\ ord[o].cycle = c}
PurchaseIn(ord, c) ==
    IF RowsOf(ord, c, {"confirmed"}) = {} THEN "none"
    ELSE IF \E o \in RowsOf(ord, c, {"confirmed"}) : ord[o].inbound
    THEN "delivered" ELSE "bought"
ShelfIn(ord, stk, c) ==
    UNION {{o} \X (1 .. stk[o]) : o \in RowsOf(ord, c, Statuses)}

Before == <<[c \in Cycles |-> PurchaseOf(c)],
            [c \in Cycles |-> FridgeOf(c)], Cardinality(overwritten)>>

LEMMA Mapping ==
    ASSUME NEW c
    PROVE  /\ PurchaseOf(c) = PurchaseIn(order, c)
           /\ PurchaseOf(c)' = PurchaseIn(order', c)
           /\ FridgeOf(c) = Cardinality(ShelfIn(order, stock, c))
           /\ FridgeOf(c)' = Cardinality(ShelfIn(order', stock', c))
  BY DEF PurchaseOf, PurchaseIn, FridgeOf, ShelfIn, In, RowsOf

(* With one confirmed order per cycle the purchase is that order.          *)
OneBought(ord) ==
    \A o, p \in Orders :
        /\ ord[o].status = "confirmed" /\ ord[p].status = "confirmed"
        /\ ord[o].cycle = ord[p].cycle
        => o = p

LEMMA PurchaseIsOrder ==
    ASSUME NEW ord, NEW c, OneBought(ord)
    PROVE  /\ PurchaseIn(ord, c) = "none"
                <=> \A o \in Orders :
                       ~ (ord[o].status = "confirmed" /\ ord[o].cycle = c)
           /\ \A o \in Orders :
                 ord[o].status = "confirmed" /\ ord[o].cycle = c
                    => PurchaseIn(ord, c) = IF ord[o].inbound
                                            THEN "delivered" ELSE "bought"
  BY DEF OneBought, PurchaseIn, RowsOf

(* The fridge holds one delivery at most of each order that exists.        *)
Placed(ord) == {o \in Orders : ord[o].status # Absent}

StockIn(ord, stk) ==
    \A o \in Orders : /\ stk[o] \in {0, 1}
                      /\ ord[o].status \in Statuses \cup {Absent}
                      /\ stk[o] = 1 => ord[o].status # Absent

Stocked(ord, stk, c) ==
    {o \in Orders : stk[o] = 1 /\ ord[o].cycle = c}

LEMMA ShelfIsStock ==
    ASSUME NEW ord, NEW stk, NEW c, StockIn(ord, stk)
    PROVE  ShelfIn(ord, stk, c) = Stocked(ord, stk, c) \X {1}
<1>1. ASSUME NEW o \in Orders
      PROVE  {o} \X (1 .. stk[o]) = IF stk[o] = 1 THEN {o} \X {1} ELSE {}
  <2>1. CASE stk[o] = 1
    <3>1. 1 .. stk[o] = {1}
      BY <2>1
    <3> QED
      BY <2>1, <3>1
  <2>2. CASE stk[o] = 0
    <3>1. 1 .. stk[o] = {}
      BY <2>2
    <3> QED
      BY <2>2, <3>1
  <2> QED
    BY <2>1, <2>2 DEF StockIn
<1>2. ASSUME NEW o \in Orders, stk[o] = 1
      PROVE  ord[o].status \in Statuses
  BY <1>2 DEF StockIn, Absent
<1>3. ShelfIn(ord, stk, c) \subseteq Stocked(ord, stk, c) \X {1}
  BY <1>1 DEF ShelfIn, RowsOf, Stocked
<1>4. Stocked(ord, stk, c) \X {1} \subseteq ShelfIn(ord, stk, c)
  BY <1>1, <1>2 DEF ShelfIn, RowsOf, Stocked
<1> QED
  BY <1>3, <1>4

(* How many that are.                                                      *)
LEMMA ShelfCount ==
    ASSUME NEW ord, NEW stk, NEW c, StockIn(ord, stk),
           IsFiniteSet(Placed(ord))
    PROVE  /\ IsFiniteSet(Stocked(ord, stk, c))
           /\ Cardinality(ShelfIn(ord, stk, c))
                 = Cardinality(Stocked(ord, stk, c))
           /\ Cardinality(ShelfIn(ord, stk, c)) \in Nat
<1> DEFINE S == Stocked(ord, stk, c)
<1>1. S \in SUBSET Placed(ord)
  BY DEF Stocked, Placed, StockIn
<1>2. IsFiniteSet(S)
  BY <1>1, FS_Subset
<1>3. IsFiniteSet({1}) /\ Cardinality({1}) = 1
  BY FS_Singleton
<1>4. Cardinality(S \X {1}) = Cardinality(S) * Cardinality({1})
  BY <1>2, <1>3, FS_Product
<1>5. Cardinality(S) \in Nat
  BY <1>2, FS_CardinalityType
<1>6. Cardinality(S \X {1}) = Cardinality(S)
  BY <1>3, <1>4, <1>5
<1>7. ShelfIn(ord, stk, c) = S \X {1}
  BY ShelfIsStock
<1> HIDE DEF S
<1>8. Cardinality(ShelfIn(ord, stk, c)) = Cardinality(S)
  BY <1>6, <1>7
<1> QED
  BY <1>2, <1>5, <1>8 DEF S

LEMMA ProperSubset ==
    ASSUME NEW T, IsFiniteSet(T), NEW S \in SUBSET T
    PROVE  /\ Cardinality(S) \in Nat /\ Cardinality(T) \in Nat
           /\ Cardinality(S) <= Cardinality(T)
           /\ S # T => Cardinality(S) < Cardinality(T)
<1>1. IsFiniteSet(S) /\ Cardinality(S) <= Cardinality(T)
  BY FS_Subset
<1>2. Cardinality(S) = Cardinality(T) => S = T
  BY FS_Subset
<1>3. Cardinality(S) \in Nat /\ Cardinality(T) \in Nat
  BY <1>1, FS_CardinalityType
<1> QED
  BY <1>1, <1>2, <1>3

-----------------------------------------------------------------------------
(* What makes the mapping well defined: all of it holds of every reachable *)
(* state.                                                                  *)
Sound(ord, stk, closed) ==
    /\ OneBought(ord) /\ StockIn(ord, stk)
    /\ IsFiniteSet(Placed(ord)) /\ closed \subseteq Placed(ord)

BothSound == Sound(order, stock, overwritten)
                /\ Sound(order', stock', overwritten')

(* The step leaves what the mapping reads of order o alone.                *)
Alike(o) ==
    /\ stock'[o] = stock[o]
    /\ order'[o].status = "confirmed" <=> order[o].status = "confirmed"
    /\ order[o].status # Absent =>
          /\ order'[o].cycle = order[o].cycle
          /\ order'[o].inbound = order[o].inbound

(* The step changes no order of a cycle other than c.                      *)
Local(c) ==
    \A o \in Orders :
        \/ Alike(o)
        \/ /\ order'[o].cycle = c
           /\ order[o].status # Absent => order[o].cycle = c

LEMMA LocalMaps ==
    ASSUME BothSound, NEW c, Local(c), NEW d, d # c
    PROVE  /\ PurchaseIn(order', d) = PurchaseIn(order, d)
           /\ Stocked(order', stock', d) = Stocked(order, stock, d)
<1>1. \A o \in Orders :
         /\ order'[o].status = "confirmed" /\ order'[o].cycle = d
            <=> order[o].status = "confirmed" /\ order[o].cycle = d
         /\ order'[o].status = "confirmed" /\ order'[o].cycle = d
            => order'[o].inbound = order[o].inbound
         /\ stock'[o] = 1 /\ order'[o].cycle = d
            <=> stock[o] = 1 /\ order[o].cycle = d
  BY DEF Local, Alike, BothSound, Sound, StockIn, Absent
<1>2. RowsOf(order', d, {"confirmed"}) = RowsOf(order, d, {"confirmed"})
  BY <1>1 DEF RowsOf
<1>3. PurchaseIn(order', d) = PurchaseIn(order, d)
  BY <1>1, <1>2 DEF PurchaseIn, RowsOf
<1> QED
  BY <1>1, <1>3 DEF Stocked

LEMMA StutterMaps ==
    ASSUME BothSound, UNCHANGED overwritten, \A o \in Orders : Alike(o)
    PROVE  UNCHANGED Before
<1> SUFFICES ASSUME NEW d \in Cycles
             PROVE  /\ PurchaseOf(d)' = PurchaseOf(d)
                    /\ FridgeOf(d)' = FridgeOf(d)
  BY DEF Before
<1>1. 0 # d
  BY DEF Cycles
<1>2. /\ PurchaseIn(order', d) = PurchaseIn(order, d)
      /\ Stocked(order', stock', d) = Stocked(order, stock, d)
  BY <1>1, LocalMaps DEF Local
<1> QED
  BY <1>2, Mapping, ShelfCount DEF BothSound, Sound

LEMMA MoveMaps ==
    ASSUME BothSound, NEW c \in Cycles, Local(c),
           overwritten \subseteq overwritten',
           <<PurchaseIn(order, c), PurchaseIn(order', c),
             Cardinality(Stocked(order', stock', c))
                - Cardinality(Stocked(order, stock, c))>>
              \in Purchases!Moves \cup (IF overwritten' # overwritten
                                        THEN Purchases!BuyAgain ELSE {})
    PROVE  Purchases!Next
<1>1. ASSUME NEW d \in Cycles
      PROVE  /\ PurchaseOf(d) = PurchaseIn(order, d)
             /\ PurchaseOf(d)' = PurchaseIn(order', d)
             /\ FridgeOf(d) = Cardinality(Stocked(order, stock, d))
             /\ FridgeOf(d)' = Cardinality(Stocked(order', stock', d))
  BY Mapping, ShelfCount DEF BothSound, Sound
<1>2. ASSUME NEW d \in Cycles \ {c}
      PROVE  PurchaseOf(d)' = PurchaseOf(d) /\ FridgeOf(d)' = FridgeOf(d)
  BY <1>1, LocalMaps
<1>3. /\ Cardinality(overwritten') >= Cardinality(overwritten)
      /\ overwritten' # overwritten
            => Cardinality(overwritten') > Cardinality(overwritten)
  <2>1. IsFiniteSet(overwritten')
    BY FS_Subset DEF BothSound, Sound
  <2> QED
    BY <2>1, ProperSubset
<1>4. <<PurchaseOf(c), PurchaseOf(c)', FridgeOf(c)' - FridgeOf(c)>>
        \in Purchases!Moves \cup
              (IF Cardinality(overwritten') > Cardinality(overwritten)
               THEN Purchases!BuyAgain ELSE {})
  BY <1>1, <1>3
<1>5. Purchases!Move(c)
  BY <1>2, <1>3, <1>4 DEF Purchases!Move
<1> QED
  BY <1>5 DEF Purchases!Next

LEMMA ForgetMaps ==
    ASSUME BothSound, overwritten \subseteq overwritten',
           overwritten' # overwritten,
           \A c \in Cycles :
              /\ PurchaseIn(order', c) \in {PurchaseIn(order, c), "none"}
              /\ Stocked(order', stock', c) = Stocked(order, stock, c)
    PROVE  Purchases!Next
<1>1. Cardinality(overwritten') > Cardinality(overwritten)
  <2>1. IsFiniteSet(overwritten')
    BY FS_Subset DEF BothSound, Sound
  <2> QED
    BY <2>1, ProperSubset
<1>2. ASSUME NEW c \in Cycles
      PROVE  /\ PurchaseOf(c)' \in {PurchaseOf(c), "none"}
             /\ FridgeOf(c)' = FridgeOf(c)
  BY Mapping, ShelfCount DEF BothSound, Sound
<1>3. Purchases!Forget
  BY <1>1, <1>2 DEF Purchases!Forget
<1> QED
  BY <1>3 DEF Purchases!Next

(* One order p of cycle c changes.                                         *)
LEMMA OneStocked ==
    ASSUME BothSound, NEW p \in Orders, NEW c,
           \A o \in Orders \ {p} : Alike(o),
           order[p].status # Absent, order[p].cycle = c, order'[p].cycle = c
    PROVE  /\ Local(c)
           /\ Cardinality(Stocked(order', stock', c))
                - Cardinality(Stocked(order, stock, c)) = stock'[p] - stock[p]
<1> DEFINE S == Stocked(order, stock, c)
           T == Stocked(order', stock', c)
<1>1. IsFiniteSet(S) /\ IsFiniteSet(T)
  BY ShelfCount DEF BothSound, Sound
<1>2. Cardinality(S) \in Nat /\ Cardinality(T) \in Nat
  BY <1>1, FS_CardinalityType
<1>3. S \ {p} = T \ {p}
  BY DEF Stocked, Alike, BothSound, Sound, StockIn, Absent
<1>4. /\ Cardinality(S \ {p})
            = IF p \in S THEN Cardinality(S) - 1 ELSE Cardinality(S)
      /\ Cardinality(T \ {p})
            = IF p \in T THEN Cardinality(T) - 1 ELSE Cardinality(T)
  BY <1>1, FS_RemoveElement
<1>5. /\ stock[p] = (IF p \in S THEN 1 ELSE 0)
      /\ stock'[p] = (IF p \in T THEN 1 ELSE 0)
  BY DEF Stocked, BothSound, Sound, StockIn
<1>6. Cardinality(T) - Cardinality(S) = stock'[p] - stock[p]
  <2>1. Cardinality(S \ {p}) = Cardinality(T \ {p})
    BY <1>3
  <2> HIDE DEF S, T
  <2>2. CASE p \in S
    <3>1. CASE p \in T
      BY <1>2, <1>4, <1>5, <2>1, <2>2, <3>1
    <3>2. CASE p \notin T
      BY <1>2, <1>4, <1>5, <2>1, <2>2, <3>2
    <3> QED
      BY <3>1, <3>2
  <2>3. CASE p \notin S
    <3>1. CASE p \in T
      BY <1>2, <1>4, <1>5, <2>1, <2>3, <3>1
    <3>2. CASE p \notin T
      BY <1>2, <1>4, <1>5, <2>1, <2>3, <3>2
    <3> QED
      BY <3>1, <3>2
  <2> QED
    BY <2>2, <2>3
<1> QED
  BY <1>6 DEF Local

-----------------------------------------------------------------------------
(* What a step does to the rows: an order that exists keeps its cycle, at  *)
(* most one comes into being, and the mapping sees a step or a stutter.    *)

NewRowIsOnly(n) ==
    \A o \in Orders : o # n /\ order'[o].status # Absent
                         => order[o].status # Absent

Effect ==
    /\ \A o \in Orders : order[o].status # Absent
                            => order'[o].cycle = order[o].cycle
    /\ \E n : NewRowIsOnly(n)
    /\ BothSound => Purchases!Next \/ UNCHANGED Before

LEMMA QuietEffect ==
    ASSUME UNCHANGED overwritten, \A o \in Orders : Alike(o),
           NEW n, NewRowIsOnly(n)
    PROVE  Effect
<1>1. BothSound => UNCHANGED Before
  BY StutterMaps
<1>2. \A o \in Orders : order[o].status # Absent
                           => order'[o].cycle = order[o].cycle
  BY DEF Alike
<1> QED
  BY <1>1, <1>2 DEF Effect

(* Rows that only have flags, lines or reminders changed.                  *)
LEMMA FlagsEffect ==
    ASSUME UNCHANGED <<overwritten, stock>>,
           \A o \in Orders :
              /\ order'[o].cycle = order[o].cycle
              /\ order'[o].inbound = order[o].inbound
              /\ \/ order'[o].status = order[o].status
                 \/ /\ order[o].status \in Open
                    /\ order'[o].status \in Open
    PROVE  Effect
<1>1. \A o \in Orders : Alike(o)
  BY DEF Alike, Open
<1>2. NewRowIsOnly(0)
  BY DEF NewRowIsOnly, Open, Absent
<1> QED
  BY <1>1, <1>2, QuietEffect

(* Rows closed by an UPDATE: a confirmed one among them was read before it *)
(* was confirmed and is remembered as overwritten.                         *)
LEMMA ClosingEffect ==
    ASSUME IInv, NEW rows \in SUBSET Orders, NEW armed, NEW st \in Closed,
           \A o \in rows : order[o].status # Absent,
           order' = Closing(rows, armed, st),
           overwritten' = overwritten \cup NoLongerOpen(rows),
           UNCHANGED stock
    PROVE  Effect
<1>1. ASSUME NEW o \in Orders
      PROVE  /\ order'[o].cycle = order[o].cycle
             /\ order'[o].inbound = order[o].inbound
             /\ order'[o].status = IF o \in rows THEN st ELSE order[o].status
  <2>1. order[o] \in OrderRow
    BY DEF IInv, TypeOK
  <2> QED
    BY <2>1 DEF Closing, OrderRow
<1>2. NewRowIsOnly(0)
  BY <1>1 DEF NewRowIsOnly
<1>3. CASE overwritten' = overwritten
  <2>1. \A o \in rows : order[o].status # "confirmed"
    BY <1>3 DEF IInv, RowsOK, RowOK, NoLongerOpen, Open, Closed
  <2>2. \A o \in Orders : Alike(o)
    BY <1>1, <2>1 DEF Alike, Closed
  <2> QED
    BY <1>2, <1>3, <2>2, QuietEffect
<1>4. CASE overwritten' # overwritten
  <2>1. ASSUME BothSound PROVE Purchases!Next
    <3>1. ASSUME NEW c \in Cycles
          PROVE  /\ PurchaseIn(order', c) \in {PurchaseIn(order, c), "none"}
                 /\ Stocked(order', stock', c) = Stocked(order, stock, c)
      <4>1. Stocked(order', stock', c) = Stocked(order, stock, c)
        BY <1>1 DEF Stocked
      <4>2. CASE \E o \in Orders : /\ order'[o].status = "confirmed"
                                   /\ order'[o].cycle = c
        <5>1. PICK o \in Orders :
                 order'[o].status = "confirmed" /\ order'[o].cycle = c
          BY <4>2
        <5>2. /\ order[o].status = "confirmed" /\ order[o].cycle = c
              /\ order'[o].inbound = order[o].inbound
          BY <1>1, <5>1 DEF Closed
        <5> QED
          BY <2>1, <4>1, <5>1, <5>2, PurchaseIsOrder DEF BothSound, Sound
      <4>3. CASE ~ \E o \in Orders : /\ order'[o].status = "confirmed"
                                     /\ order'[o].cycle = c
        BY <2>1, <4>1, <4>3, PurchaseIsOrder DEF BothSound, Sound
      <4> QED
        BY <4>2, <4>3
    <3> QED
      BY <1>4, <2>1, <3>1, ForgetMaps
  <2> QED
    BY <1>1, <1>2, <2>1 DEF Effect
<1> QED
  BY <1>3, <1>4

(* An approval or the scheduler confirms an order: the purchase is made.   *)
LEMMA ConfirmingEffect ==
    ASSUME IInv, NEW p \in Orders, NEW b \in BOOLEAN,
           order[p].status \in Open, In(order[p].cycle, {"confirmed"}) = {},
           order' = Confirming(p, b), UNCHANGED <<stock, overwritten>>
    PROVE  Effect
<1> DEFINE c == order[p].cycle
<1>0. /\ order \in [Orders -> OrderRow] /\ order[p] \in OrderRow
      /\ c \in Cycles /\ ~ order[p].inbound /\ stock[p] \in Int
  BY DEF IInv, TypeOK, OrderRow, RowsOK, RowOK
<1>1. /\ order'[p].status = "confirmed" /\ order'[p].cycle = c
      /\ ~ order'[p].inbound
  BY <1>0 DEF Confirming, OrderRow
<1>2. \A o \in Orders \ {p} : order'[o] = order[o]
  BY <1>0 DEF Confirming
<1>3. NewRowIsOnly(p)
  BY <1>2 DEF NewRowIsOnly
<1>4. order[p].status # Absent
  BY DEF Open, Absent
<1>5. ASSUME BothSound PROVE Purchases!Next
  <2>1. \A o \in Orders \ {p} : Alike(o)
    BY <1>2 DEF Alike
  <2>2. /\ Local(c)
        /\ Cardinality(Stocked(order', stock', c))
              - Cardinality(Stocked(order, stock, c)) = stock'[p] - stock[p]
    BY <1>1, <1>4, <1>5, <2>1, OneStocked
  <2>3. stock'[p] - stock[p] = 0
    BY <1>0
  <2>4. PurchaseIn(order, c) = "none"
    BY <1>5, PurchaseIsOrder DEF In, BothSound, Sound
  <2>5. PurchaseIn(order', c) = "bought"
    BY <1>1, <1>5, PurchaseIsOrder DEF BothSound, Sound
  <2> HIDE DEF c
  <2> QED
    BY <1>0, <1>5, <2>2, <2>3, <2>4, <2>5, MoveMaps DEF Purchases!Moves
<1> QED
  BY <1>1, <1>2, <1>3, <1>5 DEF Effect

(* Delivery, its undoing and the cancellation of one confirmed order.      *)
LEMMA DeliveryEffect ==
    ASSUME IInv, NEW p \in Orders, order[p].status = "confirmed",
           \A o \in Orders \ {p} : /\ order'[o] = order[o]
                                   /\ stock'[o] = stock[o],
           order'[p].cycle = order[p].cycle, UNCHANGED overwritten,
           \/ /\ order'[p].status = "confirmed" /\ order'[p].inbound
              /\ ~ order[p].inbound /\ stock'[p] = stock[p] + 1
           \/ /\ order'[p].status = "confirmed" /\ ~ order'[p].inbound
              /\ order[p].inbound /\ stock'[p] = 0
           \/ /\ order'[p].status = "cancelled"
              /\ stock'[p] = IF order[p].inbound THEN 0 ELSE stock[p]
    PROVE  Effect
<1> DEFINE c == order[p].cycle
<1>0. /\ c \in Cycles /\ stock[p] \in {0, 1}
      /\ stock[p] = 1 <=> order[p].inbound
  <2>1. /\ order[p] \in OrderRow /\ stock[p] \in Nat /\ stock[p] <= 1
        /\ p \notin overwritten
        /\ p \notin overwritten => (stock[p] = 1 <=> order[p].inbound)
    BY DEF IInv, TypeOK, RowsOK, RowOK, Closed
  <2> QED
    BY <2>1 DEF OrderRow
<1>1. NewRowIsOnly(p)
  BY DEF NewRowIsOnly
<1>2. ASSUME BothSound PROVE Purchases!Next
  <2>1. \A o \in Orders \ {p} : Alike(o)
    BY DEF Alike
  <2>2. /\ Local(c)
        /\ Cardinality(Stocked(order', stock', c))
              - Cardinality(Stocked(order, stock, c)) = stock'[p] - stock[p]
    BY <1>2, <2>1, OneStocked DEF Absent
  <2>3. PurchaseIn(order, c) = IF order[p].inbound
                               THEN "delivered" ELSE "bought"
    BY <1>2, PurchaseIsOrder DEF BothSound, Sound
  <2>4. CASE order'[p].status = "confirmed"
    <3>1. PurchaseIn(order', c) = IF order'[p].inbound
                                  THEN "delivered" ELSE "bought"
      BY <1>2, <2>4, PurchaseIsOrder DEF BothSound, Sound
    <3>2. CASE order'[p].inbound
      <4>1. /\ PurchaseIn(order, c) = "bought"
            /\ PurchaseIn(order', c) = "delivered"
            /\ stock'[p] - stock[p] = 1
        BY <1>0, <2>3, <2>4, <3>1, <3>2
      <4> HIDE DEF c
      <4> QED
        BY <1>0, <1>2, <2>2, <4>1, MoveMaps DEF Purchases!Moves
    <3>3. CASE ~ order'[p].inbound
      <4>1. /\ PurchaseIn(order, c) = "delivered"
            /\ PurchaseIn(order', c) = "bought"
            /\ stock'[p] - stock[p] = -1
        BY <1>0, <2>3, <2>4, <3>1, <3>3
      <4> HIDE DEF c
      <4> QED
        BY <1>0, <1>2, <2>2, <4>1, MoveMaps DEF Purchases!Moves
    <3> QED
      BY <3>2, <3>3
  <2>5. CASE order'[p].status = "cancelled"
    <3>1. PurchaseIn(order', c) = "none"
      <4>1. \A o \in Orders :
               ~ (order'[o].status = "confirmed" /\ order'[o].cycle = c)
        BY <2>5 DEF IInv, Unique, OneConfirmedPerCycle
      <4> QED
        BY <1>2, <4>1, PurchaseIsOrder DEF BothSound, Sound
    <3>2. stock'[p] - stock[p] = IF order[p].inbound THEN -1 ELSE 0
      BY <1>0, <2>5
    <3> HIDE DEF c
    <3>3. CASE order[p].inbound
      BY <1>0, <1>2, <2>2, <2>3, <3>1, <3>2, <3>3, MoveMaps
         DEF Purchases!Moves
    <3>4. CASE ~ order[p].inbound
      BY <1>0, <1>2, <2>2, <2>3, <3>1, <3>2, <3>4, MoveMaps
         DEF Purchases!Moves
    <3> QED
      BY <3>3, <3>4
  <2> QED
    BY <2>4, <2>5
<1> QED
  BY <1>1, <1>2 DEF Effect

LEMMA OneRowEffect ==
    ASSUME IInv, NEW p \in Orders, OrderRequest(p) \/ ScheduledInbound(p)
    PROVE  Effect
<1>0. /\ order \in [Orders -> OrderRow] /\ order[p] \in OrderRow
      /\ stock \in [Orders -> Nat] /\ RowOK(p)
      /\ UNCHANGED overwritten
  BY DEF IInv, TypeOK, RowsOK, OrderRequest, ScheduledInbound, Recalculate,
         Cancel, Received, NotReceived
<1>1. CASE Recalculate(p)
  BY <1>0, <1>1, FlagsEffect DEF Recalculate, OrderRow
<1>2. CASE Cancel(p)
  <2>1. /\ order[p].status = "confirmed" /\ order'[p].status = "cancelled"
        /\ order'[p].cycle = order[p].cycle
        /\ stock'[p] = (IF order[p].inbound THEN 0 ELSE stock[p])
        /\ \A o \in Orders \ {p} : order'[o] = order[o] /\ stock'[o] = stock[o]
    BY <1>0, <1>2 DEF Cancel, OrderRow
  <2> QED
    BY <1>0, <2>1, DeliveryEffect
<1>3. ASSUME MarkInbound(p) PROVE Effect
  <2>1. /\ order[p].status = "confirmed" /\ order'[p].status = "confirmed"
        /\ order'[p].inbound /\ ~ order[p].inbound
        /\ order'[p].cycle = order[p].cycle
        /\ stock'[p] = stock[p] + 1
        /\ \A o \in Orders \ {p} : order'[o] = order[o] /\ stock'[o] = stock[o]
    BY <1>0, <1>3 DEF MarkInbound, OrderRow, RowOK
  <2> QED
    BY <1>0, <2>1, DeliveryEffect
<1>4. CASE Received(p) \/ ScheduledInbound(p)
  <2>1. CASE MarkInbound(p)
    BY <1>3, <2>1
  <2>2. CASE /\ order' = [order EXCEPT ![p].delivery = "delivered"]
             /\ UNCHANGED stock
    BY <1>0, <2>2, FlagsEffect DEF OrderRow
  <2> QED
    BY <1>4, <2>1, <2>2 DEF Received, ScheduledInbound
<1>5. CASE NotReceived(p)
  <2>1. /\ order[p].status = "confirmed" /\ order'[p].status = "confirmed"
        /\ order'[p].inbound = FALSE /\ order'[p].cycle = order[p].cycle
        /\ \A o \in Orders \ {p} : order'[o] = order[o] /\ stock'[o] = stock[o]
        /\ stock'[p] = (IF order[p].inbound THEN 0 ELSE stock[p])
    BY <1>0, <1>5 DEF NotReceived, OrderRow
  <2>2. CASE order[p].inbound
    BY <1>0, <2>1, <2>2, DeliveryEffect
  <2>3. CASE ~ order[p].inbound
    <3>1. UNCHANGED stock
      BY <1>5, <2>3 DEF NotReceived
    <3>0. order[p].inbound = FALSE
      BY <1>0, <2>3 DEF OrderRow
    <3>2. \A o \in Orders : /\ order'[o].cycle = order[o].cycle
                            /\ order'[o].inbound = order[o].inbound
                            /\ order'[o].status = order[o].status
      BY <2>1, <3>0
    <3> QED
      BY <1>0, <3>1, <3>2, FlagsEffect
  <2> QED
    BY <2>2, <2>3
<1> QED
  BY <1>1, <1>2, <1>4, <1>5 DEF OrderRequest

(* A confirmation closes the open orders of the cycle it has read and buys *)
(* anew: the first purchase of the cycle, or one that rests on an outdated *)
(* read and takes the place of another.                                    *)
LEMMA ConfirmCommitEffect ==
    ASSUME IInv, NEW s \in Requests, ConfirmCommit(s),
           \A o \in tx[s].rows : order[o].cycle = tx[s].cycle
    PROVE  Effect
<1> DEFINE c == tx[s].cycle
           rows == tx[s].rows
           closed == Closing(rows, tx[s].armed, "cancelled")
<1>0. /\ order \in [Orders -> OrderRow] /\ rows \in SUBSET Orders
      /\ c \in Cycles /\ UNCHANGED stock /\ stock \in [Orders -> Nat]
      /\ \A o \in rows : order[o].status # Absent
      /\ overwritten' = overwritten \cup NoLongerOpen(rows)
      /\ \A o \in Orders : order[o].status = "confirmed" /\ order[o].cycle = c
                              => o \in rows
  BY DEF IInv, TypeOK, TransactionsOK, TransactionOK, Sessions, Transaction,
         ConfirmCommit, In
<1>1. PICK n \in Orders :
         /\ order[n].status = Absent
         /\ order' = [closed EXCEPT ![n] = NewRow(c, "confirmed", FALSE)]
  BY DEF ConfirmCommit
<1>2. closed \in [Orders -> OrderRow]
  BY <1>0, ClosingType DEF Closed
<1>3. /\ order'[n].status = "confirmed" /\ order'[n].cycle = c
      /\ order'[n].inbound = FALSE
  BY <1>1, <1>2 DEF NewRow
<1>4. ASSUME NEW o \in Orders \ {n}
      PROVE  /\ order'[o].cycle = order[o].cycle
             /\ order'[o].inbound = order[o].inbound
             /\ order'[o].status = IF o \in rows THEN "cancelled"
                                   ELSE order[o].status
  <2>1. order'[o] = closed[o] /\ order[o] \in OrderRow
    BY <1>0, <1>1, <1>2
  <2> QED
    BY <2>1 DEF Closing, OrderRow
<1>5. NewRowIsOnly(n)
  BY <1>0, <1>4 DEF NewRowIsOnly
<1>6. ASSUME BothSound PROVE Purchases!Next
  <2>1. PurchaseIn(order', c) = "bought"
    BY <1>3, <1>6, PurchaseIsOrder DEF BothSound, Sound
  <2>2. Local(c)
    <3> SUFFICES ASSUME NEW o \in Orders
                 PROVE  \/ Alike(o)
                        \/ /\ order'[o].cycle = c
                           /\ order[o].status # Absent => order[o].cycle = c
      BY DEF Local
    <3>1. CASE o = n
      BY <1>1, <1>3, <3>1
    <3>2. CASE o # n /\ o \in rows
      BY <1>4, <3>2
    <3>3. CASE o # n /\ o \notin rows
      BY <1>0, <1>4, <3>3 DEF Alike
    <3> QED
      BY <3>1, <3>2, <3>3
  <2>3. Stocked(order', stock', c) = Stocked(order, stock, c)
    <3>1. stock[n] = 0
      BY <1>1 DEF IInv, RowsOK, RowOK
    <3> QED
      BY <1>0, <1>4, <3>1 DEF Stocked
  <2>4. /\ Cardinality(Stocked(order, stock, c)) \in Nat
        /\ Cardinality(Stocked(order', stock', c))
              - Cardinality(Stocked(order, stock, c)) = 0
    <3>1. IsFiniteSet(Stocked(order, stock, c))
      BY <1>6, ShelfCount DEF BothSound, Sound
    <3> QED
      BY <2>3, <3>1, FS_CardinalityType
  <2>5. CASE \A o \in Orders :
                ~ (order[o].status = "confirmed" /\ order[o].cycle = c)
    <3>1. PurchaseIn(order, c) = "none"
      BY <1>6, <2>5, PurchaseIsOrder DEF BothSound, Sound
    <3> HIDE DEF c
    <3> QED
      BY <1>0, <1>6, <2>1, <2>2, <2>4, <3>1, MoveMaps DEF Purchases!Moves
  <2>6. CASE \E o \in Orders :
                order[o].status = "confirmed" /\ order[o].cycle = c
    <3>1. PICK o \in Orders :
             order[o].status = "confirmed" /\ order[o].cycle = c
      BY <2>6
    <3>2. overwritten' # overwritten
      BY <1>0, <3>1 DEF NoLongerOpen, Open, Closed, IInv, RowsOK, RowOK
    <3>3. PurchaseIn(order, c) = IF order[o].inbound
                                 THEN "delivered" ELSE "bought"
      BY <1>6, <3>1, PurchaseIsOrder DEF BothSound, Sound
    <3>4. CASE order[o].inbound
      <4>1. PurchaseIn(order, c) = "delivered"
        BY <3>3, <3>4
      <4> HIDE DEF c
      <4> QED
        BY <1>0, <1>6, <2>1, <2>2, <2>4, <3>2, <4>1, MoveMaps
           DEF Purchases!BuyAgain
    <3>5. CASE ~ order[o].inbound
      <4>1. PurchaseIn(order, c) = "bought"
        BY <3>3, <3>5
      <4>2. ASSUME NEW d \in Cycles
            PROVE  /\ PurchaseIn(order', d) \in {PurchaseIn(order, d), "none"}
                   /\ Stocked(order', stock', d) = Stocked(order, stock, d)
        <5>1. CASE d = c
          BY <2>1, <2>3, <4>1, <5>1
        <5>2. CASE d # c
          BY <1>6, <2>2, <5>2, LocalMaps
        <5> QED
          BY <5>1, <5>2
      <4> QED
        BY <1>0, <1>6, <3>2, <4>2, ForgetMaps
    <3> QED
      BY <3>4, <3>5
  <2> QED
    BY <2>5, <2>6
<1> QED
  BY <1>1, <1>4, <1>5, <1>6 DEF Effect

-----------------------------------------------------------------------------
(* What the mapping needs beside the invariant of OrderLifecycleProofs: a  *)
(* confirmation in flight is about orders of one cycle, and finitely many  *)
(* orders exist.                                                           *)

ConfirmsOneCycle ==
    \A s \in Sessions :
        tx[s].at \in {"confirm_flush", "confirm_preview"}
            => \A o \in tx[s].rows : order[o].cycle = tx[s].cycle

MapInv == IInv /\ ConfirmsOneCycle /\ IsFiniteSet(Placed(order))

LEMMA SoundState == MapInv => Sound(order, stock, overwritten)
<1> SUFFICES ASSUME MapInv PROVE Sound(order, stock, overwritten)
  OBVIOUS
<1>1. OneBought(order)
  BY DEF MapInv, IInv, Unique, OneConfirmedPerCycle, OneBought
<1>2. StockIn(order, stock)
  <2> SUFFICES ASSUME NEW o \in Orders
               PROVE  /\ stock[o] \in {0, 1}
                      /\ order[o].status \in Statuses \cup {Absent}
                      /\ stock[o] = 1 => order[o].status # Absent
    BY DEF StockIn
  <2>1. order[o] \in OrderRow /\ stock[o] \in Nat /\ RowOK(o)
    BY DEF MapInv, IInv, TypeOK, RowsOK
  <2> QED
    BY <2>1 DEF RowOK, OrderRow
<1>3. overwritten \subseteq Placed(order)
  BY DEF MapInv, IInv, TypeOK, RowsOK, RowOK, Placed, Closed, Absent
<1> QED
  BY <1>1, <1>2, <1>3 DEF Sound, MapInv

LEMMA RequestEffect ==
    ASSUME MapInv, NEW s \in Requests, RequestStep(s)
    PROVE  Effect
<1>0. /\ IInv /\ order \in [Orders -> OrderRow] /\ TransactionOK(s)
      /\ tx[s].rows \in SUBSET Orders /\ s \in Sessions
  BY DEF MapInv, IInv, TypeOK, TransactionsOK, Sessions, Transaction
<1>1. CASE ConfirmCommit(s)
  <2>1. \A o \in tx[s].rows : order[o].cycle = tx[s].cycle
    BY <1>0, <1>1 DEF MapInv, ConfirmsOneCycle, ConfirmCommit
  <2> QED
    BY <1>0, <1>1, <2>1, ConfirmCommitEffect
<1>2. CASE ApproveCommit(s)
  <2>1. PICK p \in tx[s].rows : /\ In(order[p].cycle, {"confirmed"}) = {}
                                /\ order' = Confirming(p, FALSE)
    BY <1>2 DEF ApproveCommit
  <2>2. p \in Orders /\ order[p].status \in Open
    BY <1>0, <1>2 DEF ApproveCommit, TransactionOK
  <2> QED
    BY <1>0, <1>2, <2>1, <2>2, ConfirmingEffect DEF ApproveCommit
<1>3. CASE SkipCommit(s)
  BY <1>0, <1>3, ClosingEffect DEF SkipCommit, Closed, TransactionOK
<1>4. CASE RestoreCommit(s)
  BY <1>0, <1>4, FlagsEffect DEF RestoreCommit, OrderRow
<1>5. CASE \/ ConfirmRead(s) \/ ConfirmFlush(s)
           \/ \E p \in Orders : ApproveLock(s, p)
           \/ SkipRead(s) \/ SkipLockSettings(s) \/ RestoreRead(s)
  <2>1. UNCHANGED <<order, stock, overwritten>>
    BY <1>5 DEF ConfirmRead, ConfirmFlush, ApproveLock, SkipRead,
                SkipLockSettings, RestoreRead
  <2> QED
    BY <2>1, FlagsEffect
<1> QED
  BY <1>1, <1>2, <1>3, <1>4, <1>5 DEF RequestStep

LEMMA SchedulerEffect ==
    ASSUME MapInv, SchedulerStep
    PROVE  Effect
<1> DEFINE s == Scheduler
<1>0. /\ IInv /\ order \in [Orders -> OrderRow] /\ TransactionOK(s)
      /\ tx[s].rows \in SUBSET Orders
  BY DEF MapInv, IInv, TypeOK, TransactionsOK, Sessions, Transaction
<1>1. CASE DraftCommit
  <2>1. PICK n \in Orders :
          /\ order[n].status = Absent
          /\ order' = [order EXCEPT ![n] = NewRow(tx[s].cycle, "draft",
                                                  autoConfirm)]
    BY <1>1 DEF DraftCommit
  <2>2. \A o \in Orders : Alike(o)
    BY <1>0, <1>1, <2>1 DEF DraftCommit, Alike, NewRow, Absent
  <2>3. NewRowIsOnly(n)
    BY <1>0, <2>1 DEF NewRowIsOnly
  <2> QED
    BY <1>1, <2>2, <2>3, QuietEffect DEF DraftCommit
<1>2. CASE ExpireCommit \/ AutoDuplicateExpire
  BY <1>0, <1>2, ClosingEffect
     DEF ExpireCommit, AutoDuplicateExpire, Closed, TransactionOK
<1>3. CASE AutoExpire
  <2>1. overwritten' = overwritten \cup NoLongerOpen(tx[s].rows)
    BY <1>0, <1>3 DEF AutoExpire, TransactionOK, NoLongerOpen, Open
  <2> QED
    BY <1>0, <1>3, <2>1, ClosingEffect DEF AutoExpire, Closed, TransactionOK
<1>4. CASE AutoBlock
  <2>1. PICK p \in tx[s].rows, needed \in BOOLEAN :
          order' = [order EXCEPT ![p] =
                      [order[p] EXCEPT !.status = "awaiting_user",
                                       !.armed = FALSE, !.needed = needed]]
    BY <1>4 DEF AutoBlock
  <2>2. p \in Orders /\ order[p].status = "draft" /\ order[p] \in OrderRow
    BY <1>0, <1>4 DEF AutoBlock, TransactionOK
  <2>3. /\ order'[p].status = "awaiting_user"
        /\ order'[p].cycle = order[p].cycle
        /\ order'[p].inbound = order[p].inbound
        /\ \A o \in Orders \ {p} : order'[o] = order[o]
    BY <1>0, <2>1, <2>2 DEF OrderRow
  <2> QED
    BY <1>4, <2>2, <2>3, FlagsEffect DEF AutoBlock, Open
<1>5. CASE AutoRemind
  BY <1>0, <1>5, FlagsEffect DEF AutoRemind, OrderRow
<1>6. CASE AutoCommit
  <2>1. PICK p \in tx[s].rows : /\ In(order[p].cycle, {"confirmed"}) = {}
                                /\ order' = Confirming(p, TRUE)
    BY <1>6 DEF AutoCommit
  <2>2. p \in Orders /\ order[p].status \in Open
    BY <1>0, <1>6 DEF AutoCommit, TransactionOK, Open
  <2> QED
    BY <1>0, <1>6, <2>1, <2>2, ConfirmingEffect DEF AutoCommit
<1>7. ASSUME NEW p \in Orders, ScheduledInbound(p) PROVE Effect
  BY <1>0, <1>7, OneRowEffect
<1>8. CASE \/ DraftRead \/ ExpireRead \/ AutoConflict \/ AutoDuplicateRead
           \/ \E p \in Orders : AutoLock(p)
  <2>1. UNCHANGED <<order, stock, overwritten>>
    BY <1>8 DEF DraftRead, ExpireRead, AutoConflict, AutoDuplicateRead,
                AutoLock
  <2> QED
    BY <2>1, FlagsEffect
<1> QED
  BY <1>1, <1>2, <1>3, <1>4, <1>5, <1>6, <1>7, <1>8 DEF SchedulerStep

LEMMA StepEffect ==
    ASSUME MapInv, [Next]_vars
    PROVE  Effect
<1>0. IInv /\ order \in [Orders -> OrderRow]
  BY DEF MapInv, IInv, TypeOK
<1>1. ASSUME NEW p \in Orders, OrderRequest(p) PROVE Effect
  BY <1>0, <1>1, OneRowEffect
<1>2. CASE AutoConfirmOff
  BY <1>0, <1>2, FlagsEffect DEF AutoConfirmOff, OrderRow
<1>3. CASE (\E s \in Sessions : Abort(s)) \/ NextCycle \/ UNCHANGED vars
  <2>1. UNCHANGED <<order, stock, overwritten>>
    BY <1>3 DEF Abort, NextCycle, vars
  <2> QED
    BY <2>1, FlagsEffect
<1> QED
  BY <1>1, <1>2, <1>3, RequestEffect, SchedulerEffect DEF Next

-----------------------------------------------------------------------------

Confirms == {"confirm_flush", "confirm_preview"}

(* A session comes to confirm_order's points by reading the open orders of *)
(* the next delivery, and goes on with what it has read.                   *)
ConfirmPath(s) ==
    tx'[s].at \in Confirms =>
        \/ /\ tx[s].at \in Confirms
           /\ tx'[s].rows = tx[s].rows /\ tx'[s].cycle = tx[s].cycle
        \/ /\ tx'[s].rows = In(clock, Open) /\ tx'[s].cycle = clock
           /\ UNCHANGED order

LEMMA EndPath ==
    ASSUME TypeOK, NEW r \in Sessions, End(r), NEW s \in Sessions
    PROVE  ConfirmPath(s)
<1>1. CASE s = r
  BY <1>1 DEF End, TypeOK, Idle, ConfirmPath, Confirms
<1>2. CASE s # r
  BY <1>2 DEF End, TypeOK, ConfirmPath
<1> QED
  BY <1>1, <1>2

LEMMA RequestPath ==
    ASSUME TypeOK, NEW r \in Requests, RequestStep(r), NEW s \in Sessions
    PROVE  ConfirmPath(s)
<1>0. r \in Sessions /\ tx \in [Sessions -> Transaction]
  BY DEF TypeOK, Sessions
<1>1. CASE ConfirmRead(r)
  BY <1>0, <1>1 DEF ConfirmRead, Begin, ConfirmPath
<1>2. CASE ConfirmFlush(r)
  BY <1>0, <1>2 DEF ConfirmFlush, ConfirmPath, Confirms, Transaction
<1>3. CASE ConfirmCommit(r) \/ ApproveCommit(r) \/ SkipCommit(r)
             \/ RestoreCommit(r)
  BY <1>0, <1>3, EndPath DEF ConfirmCommit, ApproveCommit, SkipCommit,
                            RestoreCommit
<1>4. ASSUME NEW o \in Orders, ApproveLock(r, o) PROVE ConfirmPath(s)
  BY <1>0, <1>4 DEF ApproveLock, Begin, ConfirmPath, Confirms
<1>5. CASE SkipRead(r) \/ SkipLockSettings(r) \/ RestoreRead(r)
  BY <1>0, <1>5 DEF SkipRead, SkipLockSettings, RestoreRead, Begin,
                    ConfirmPath, Confirms
<1> QED
  BY <1>1, <1>2, <1>3, <1>4, <1>5 DEF RequestStep

LEMMA SchedulerPath ==
    ASSUME TypeOK, SchedulerStep, NEW s \in Sessions
    PROVE  ConfirmPath(s)
<1>0. Scheduler \in Sessions /\ tx \in [Sessions -> Transaction]
  BY DEF TypeOK, Sessions
<1>1. CASE DraftCommit \/ ExpireCommit \/ AutoExpire \/ AutoRemind
             \/ AutoCommit \/ AutoDuplicateExpire
  BY <1>0, <1>1, EndPath DEF DraftCommit, ExpireCommit, AutoExpire,
                            AutoRemind, AutoCommit, AutoDuplicateExpire
<1>2. CASE DraftRead \/ ExpireRead \/ AutoDuplicateRead
  BY <1>0, <1>2 DEF DraftRead, ExpireRead, AutoDuplicateRead, Begin, Idle,
                    ConfirmPath, Confirms
<1>3. CASE AutoBlock \/ AutoConflict
  <2>1. \E at \in {"auto_remind", "auto_conflict"} :
           tx' = [tx EXCEPT ![Scheduler].at = at]
    BY <1>3 DEF AutoBlock, AutoConflict
  <2> QED
    BY <1>0, <2>1 DEF ConfirmPath, Confirms, Transaction
<1>4. ASSUME NEW o \in Orders, AutoLock(o) PROVE ConfirmPath(s)
  BY <1>0, <1>4 DEF AutoLock, Begin, ConfirmPath, Confirms
<1>5. ASSUME NEW o \in Orders, ScheduledInbound(o) PROVE ConfirmPath(s)
  BY <1>5 DEF ScheduledInbound, ConfirmPath
<1> QED
  BY <1>1, <1>2, <1>3, <1>4, <1>5 DEF SchedulerStep

LEMMA StepPath ==
    ASSUME TypeOK, [Next]_vars, NEW s \in Sessions
    PROVE  ConfirmPath(s)
<1>1. ASSUME NEW o \in Orders, OrderRequest(o) PROVE ConfirmPath(s)
  BY <1>1 DEF OrderRequest, Recalculate, Cancel, Received, NotReceived,
              ConfirmPath
<1>2. CASE AutoConfirmOff \/ NextCycle \/ UNCHANGED vars
  BY <1>2 DEF AutoConfirmOff, NextCycle, vars, ConfirmPath
<1>3. ASSUME NEW r \in Sessions, Abort(r) PROVE ConfirmPath(s)
  BY <1>3, EndPath DEF Abort
<1> QED
  BY <1>1, <1>2, <1>3, RequestPath, SchedulerPath DEF Next

LEMMA ConfirmsOneCycleStep ==
    ASSUME MapInv, [Next]_vars, Effect
    PROVE  ConfirmsOneCycle'
<1> SUFFICES ASSUME NEW s \in Sessions, tx'[s].at \in Confirms,
                    NEW o \in tx'[s].rows
             PROVE  order'[o].cycle = tx'[s].cycle
  BY DEF ConfirmsOneCycle, Confirms
<1>0. TypeOK /\ TransactionOK(s) /\ tx[s].rows \subseteq Orders
  BY DEF MapInv, IInv, TypeOK, TransactionsOK, Transaction
<1>1. ConfirmPath(s)
  BY <1>0, StepPath
<1>2. CASE /\ tx[s].at \in Confirms
           /\ tx'[s].rows = tx[s].rows /\ tx'[s].cycle = tx[s].cycle
  <2>1. order[o].cycle = tx[s].cycle
    BY <1>2 DEF MapInv, ConfirmsOneCycle, Confirms
  <2>2. order[o].status # Absent /\ o \in Orders
    BY <1>0, <1>2 DEF TransactionOK
  <2> QED
    BY <1>2, <2>1, <2>2 DEF Effect
<1>3. CASE /\ tx'[s].rows = In(clock, Open) /\ tx'[s].cycle = clock
           /\ UNCHANGED order
  BY <1>3 DEF In
<1> QED
  BY <1>1, <1>2, <1>3 DEF ConfirmPath

LEMMA FinitelyManyStep ==
    ASSUME MapInv, Effect
    PROVE  IsFiniteSet(Placed(order'))
<1>1. PICK n : NewRowIsOnly(n)
  BY DEF Effect
<1>2. IsFiniteSet(Placed(order) \cup {n})
  BY FS_AddElement DEF MapInv
<1>3. Placed(order') \in SUBSET (Placed(order) \cup {n})
  BY <1>1 DEF Placed, NewRowIsOnly
<1> QED
  BY <1>2, <1>3, FS_Subset

LEMMA MapInvInit == Init => MapInv
<1> SUFFICES ASSUME Init PROVE MapInv
  OBVIOUS
<1>1. IInv
  BY IInvInit
<1>2. ConfirmsOneCycle
  BY DEF Init, ConfirmsOneCycle, Idle
<1>3. Placed(order) = {}
  BY DEF Init, Placed, NewRow
<1> QED
  BY <1>1, <1>2, <1>3, FS_EmptySet DEF MapInv

LEMMA MapInvStep == MapInv /\ [Next]_vars => MapInv'
<1> SUFFICES ASSUME MapInv, [Next]_vars PROVE MapInv'
  OBVIOUS
<1>1. Effect
  BY StepEffect
<1>2. IInv'
  BY IInvStep DEF MapInv
<1>3. IsFiniteSet(Placed(order))'
  BY <1>1, FinitelyManyStep DEF Placed
<1> QED
  BY <1>1, <1>2, <1>3, ConfirmsOneCycleStep DEF MapInv

(* The orders of every cycle, whatever sessions do to them at once, behave *)
(* as one purchase of CyclePurchases.                                      *)
THEOREM Implements == Spec => BehavesAsOnePurchase
<1>1. Init => Purchases!Init
  <2> SUFFICES ASSUME Init PROVE Purchases!Init
    OBVIOUS
  <2>1. Cardinality(overwritten) = 0
    BY FS_EmptySet DEF Init
  <2>2. ASSUME NEW c \in Cycles
        PROVE  PurchaseOf(c) = "none" /\ FridgeOf(c) = 0
    <3>1. In(c, {"confirmed"}) = {} /\ In(c, Statuses) = {}
      BY DEF Init, In, NewRow, Absent, Statuses, Open, Closed
    <3>2. UNION {{o} \X (1 .. stock[o]) : o \in In(c, Statuses)} = {}
      BY <3>1
    <3> QED
      BY <3>1, <3>2, FS_EmptySet DEF PurchaseOf, FridgeOf
  <2> QED
    BY <2>1, <2>2 DEF Purchases!Init
<1>2. MapInv /\ MapInv' /\ [Next]_vars => [Purchases!Next]_Before
  <2> SUFFICES ASSUME MapInv, MapInv', [Next]_vars
               PROVE  Purchases!Next \/ UNCHANGED Before
    OBVIOUS
  <2>1. Effect
    BY StepEffect
  <2>2. Sound(order, stock, overwritten)
    BY SoundState
  <2>3. Sound(order', stock', overwritten')
    <3>1. (MapInv => Sound(order, stock, overwritten))'
      BY SoundState, PTL
    <3> QED
      BY <3>1 DEF Sound, OneBought, StockIn, Placed
  <2> QED
    BY <2>1, <2>2, <2>3 DEF Effect, BothSound
<1> QED
  BY <1>1, <1>2, MapInvInit, MapInvStep, PTL
     DEF Spec, BehavesAsOnePurchase, Purchases!Spec, Before
=============================================================================
