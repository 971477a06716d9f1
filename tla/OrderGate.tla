----------------------------- MODULE OrderGate ------------------------------
(***************************************************************************)
(* What an order contains, what it costs, and the gate that lets the       *)
(* scheduler confirm it without asking: the preview of order/service.py,   *)
(* the cart of the store adapter (store/service.py, selector.py, naver.py) *)
(* and the limit of budget/service.py.                                     *)
(*                                                                         *)
(* What the meals need, what the fridge holds and what the shop offers is  *)
(* drawn anew for every preview, since each one queries all three; of an   *)
(* order only its total is read again, so a row keeps no lines.  The       *)
(* gate computes a preview and, if the budget is locked, a limit, and      *)
(* confirms in a later step; meanwhile a user may confirm other orders,    *)
(* without a limit, and change the budget or unlock it.  Days are counted  *)
(* from 0 in months of equal length.                                       *)
(***************************************************************************)
EXTENDS Integers, FiniteSets, FiniteSetsExt, Functions

CONSTANTS
    Items,         \* the ingredients of the plan by name and unit
    NameOf,        \* their names, by which the shop is searched
    Prices,        \* prices of products
    MaxCycle,      \* cycles are numbered 1 .. MaxCycle
    FirstStart,    \* the delivery day of cycle 1
    Spacing,       \* and the days until that of the next
    MonthDays,     \* days of a month
    BudgetAmounts, \* monthly budgets, in the unit of the prices
    Threshold      \* cycle_unmatched_threshold, in percent

Cycles == 1 .. MaxCycle

VARIABLES
    window,        \* the current cycle
    budget,        \* the amount of a locked budget, or Unlocked
    order,         \* the latest order of each cycle
    gate           \* the order that the scheduler has let through

vars == <<window, budget, order, gate>>

Unlocked == -1     \* the budget is not locked, or there is none
Budgets == BudgetAmounts \cup {Unlocked}

NoLine == -1       \* covered by the fridge, or not needed
Unmatched == 0     \* no product found
Names == {NameOf[i] : i \in Items}
Lines == [Items -> Prices \cup {NoLine, Unmatched}]
MaxTotal == Cardinality(Items) * Max(Prices)
OrderRow == [status : {"none", "draft", "awaiting_user", "confirmed", "closed"},
             total : 0 .. MaxTotal, auto : BOOLEAN]
(* "budget": the budget that the order was judged by.                      *)
Gate == [cycle : Cycles \cup {0}, total : 0 .. MaxTotal, budget : Budgets]

NoOrder == [status |-> "none", total |-> 0, auto |-> FALSE]
Free == [cycle |-> 0, total |-> 0, budget |-> Unlocked]
Open(c) == order[c].status \in {"draft", "awaiting_user"}

Init ==
    /\ window = 1
    /\ budget = Unlocked
    /\ order = [c \in Cycles |-> NoOrder]
    /\ gate = Free

-----------------------------------------------------------------------------
(* The contents.                                                           *)

(* compute_shortfall, over what the uncompleted meals sum up to.           *)
Needed(need, stock) == {i \in Items : need[i] - Min({stock[i], need[i]}) > 0}

(* select_products: the model's choice, none, or the cheapest if it fails. *)
Selection(found) ==
    IF found = {} THEN {Unmatched} ELSE found \cup {Unmatched}

(* build_cart searches and selects by name, once for every item to buy.    *)
Cart(needed, offer) == [i \in needed |-> offer[NameOf[i]]]
CartTotal(cart) == SumFunction(cart)

(* _snapshot_lines finds the product again by the name of the line.        *)
Snapshot(needed, offer) ==
    [i \in Items |-> IF i \in needed THEN offer[NameOf[i]] ELSE NoLine]

ToBuy(lines) == {i \in Items : lines[i] # NoLine}
(* _snapshot_total *)
SnapshotTotal(lines) == SumFunctionOnSet(lines, ToBuy(lines))

Supplies == [Items -> 0 .. 1]
Offers == {offer \in [Names -> Prices \cup {Unmatched}] :
             \A n \in Names : \E found \in SUBSET Prices :
                offer[n] \in Selection(found)}
(* _build_preview: the pairs of what is needed and what was found for it.  *)
Previews == {Needed(need, stock) : need, stock \in Supplies} \X Offers

(* ratio > unmatched_threshold; an order of nothing counts as unmatched.   *)
MostlyUnmatched(lines) ==
    LET n == Cardinality(ToBuy(lines))
        u == Cardinality({i \in Items : lines[i] = Unmatched})
    IN n = 0 \/ u * 100 > Threshold * n

-----------------------------------------------------------------------------
(* The limit.                                                              *)

Start(c) == FirstStart + (c - 1) * Spacing
MonthStart(c) == (Start(c) \div MonthDays) * MonthDays
AccrualEnd(c) == Min({Start(c) + Spacing, MonthStart(c) + MonthDays})

(* prorate, rounded half up.                                               *)
Prorate(days) == (2 * budget * days + MonthDays) \div (2 * MonthDays)

Spent(cycles) ==
    SumFunctionOnSet([d \in Cycles |-> order[d].total], cycles)

(* Mutant: an order of the first of the month is charged to the last one.  *)
CommittedAfter(c) ==
    Spent({d \in Cycles : /\ order[d].status = "confirmed"
                          /\ Start(d) > MonthStart(c)
                          /\ Start(d) < AccrualEnd(c)})

Committed(c) ==
    Spent({d \in Cycles : /\ order[d].status = "confirmed"
                          /\ Start(d) >= MonthStart(c)
                          /\ Start(d) < AccrualEnd(c)})

(* cycle_limit: what has accrued since the first, less what was spent.     *)
CycleLimit(c) ==
    Max({0, Prorate(AccrualEnd(c) - MonthStart(c)) - Committed(c)})

(* BUDGET_EXCEEDED: the limit is one for a locked budget only.             *)
OverLimit(c, total) == budget # Unlocked /\ total > CycleLimit(c)

-----------------------------------------------------------------------------
Row(status, total, auto) ==
    [status |-> status, total |-> total, auto |-> auto]

(* create_draft, whose total is the cart's.                                *)
CreateDraft ==
    /\ order[window].status \in {"none", "closed"}
    /\ \E p \in Previews :
         /\ p[1] # {}
         /\ order' = [order EXCEPT ![window] =
                        Row("draft", CartTotal(Cart(p[1], p[2])), FALSE)]
    /\ UNCHANGED <<window, budget, gate>>

(* Mutant: a status the rows do not know.                                  *)
RefuseBlocked(c) ==
    /\ gate = Free /\ order[c].status = "draft"
    /\ order' = [order EXCEPT ![c].status = "blocked"]
    /\ UNCHANGED <<window, budget, gate>>

(* auto_confirm_order: switched off, no prices or store disconnected.      *)
Refuse(c) ==
    /\ gate = Free /\ order[c].status = "draft"
    /\ order' = [order EXCEPT ![c].status = "awaiting_user"]
    /\ UNCHANGED <<window, budget, gate>>

(* Otherwise the contents and the price of today are what is judged, by    *)
(* the budget of today and by what became of the meal plan                 *)
(* (MEALPLAN_OVER_BUDGET), ...                                             *)
Judge(c) ==
    /\ gate = Free /\ order[c].status = "draft"
    /\ \E p \in Previews, planOverBudget \in BOOLEAN :
         LET lines == Snapshot(p[1], p[2])
             total == SnapshotTotal(lines)
         IN IF \/ MostlyUnmatched(lines)
               \/ OverLimit(c, total)
               \/ planOverBudget
            THEN /\ order' = [order EXCEPT ![c] =
                                Row("awaiting_user", total, FALSE)]
                 /\ UNCHANGED gate
            ELSE /\ gate' = [cycle |-> c, total |-> total, budget |-> budget]
                 /\ UNCHANGED order
    /\ UNCHANGED <<window, budget>>

(* ... and what is confirmed.                                              *)
AutoConfirm ==
    /\ gate # Free
    /\ order' = [order EXCEPT ![gate.cycle] =
                   Row("confirmed", gate.total, TRUE)]
    /\ gate' = Free
    /\ UNCHANGED <<window, budget>>

(* The user confirms an open order, or one afresh, without some of its     *)
(* items; the row the gate works on is locked.                             *)
UserConfirm(c) ==
    /\ c # gate.cycle
    /\ Open(c) \/ (c = window /\ order[c].status # "confirmed")
    /\ \E p \in Previews, excluded \in SUBSET Names :
         LET lines == [i \in Items |-> IF NameOf[i] \in excluded THEN NoLine
                                       ELSE Snapshot(p[1], p[2])[i]]
         IN /\ ToBuy(lines) # {}
            /\ order' = [order EXCEPT ![c] =
                           Row("confirmed", SnapshotTotal(lines), FALSE)]
    /\ UNCHANGED <<window, budget, gate>>

(* cancel_order, and skip_cycle for an open one.                           *)
Cancel(c) ==
    /\ c # gate.cycle
    /\ Open(c) \/ order[c].status = "confirmed"
    /\ order' = [order EXCEPT ![c].status = "closed"]
    /\ UNCHANGED <<window, budget, gate>>

(* The generation of the next cycle expires what is still open.            *)
NextCycle ==
    /\ window < MaxCycle /\ gate = Free
    /\ window' = window + 1
    /\ order' = [c \in Cycles |->
                   IF Open(c) THEN [order[c] EXCEPT !.status = "closed"]
                   ELSE order[c]]
    /\ UNCHANGED <<budget, gate>>

(* PUT /budget/plans: another amount, locked or not, at any time.          *)
UpsertBudget ==
    /\ \E b \in Budgets : budget' = b
    /\ UNCHANGED <<window, order, gate>>

(* The process dies between the judgement and the commit.                  *)
Crash ==
    /\ gate # Free
    /\ gate' = Free
    /\ UNCHANGED <<window, budget, order>>

Next ==
    \/ CreateDraft
    \/ \E c \in Cycles : Refuse(c)
    \/ \E c \in Cycles : Judge(c)
    \/ AutoConfirm
    \/ \E c \in Cycles : UserConfirm(c)
    \/ \E c \in Cycles : Cancel(c)
    \/ NextCycle
    \/ UpsertBudget
    \/ Crash

Spec == Init /\ [][Next]_vars

-----------------------------------------------------------------------------
(* Every variable keeps its type.                                          *)
TypeOK ==
    /\ window \in Cycles
    /\ budget \in Budgets
    /\ order \in [Cycles -> OrderRow]
    /\ gate \in Gate

(* What the scheduler confirmed by itself in the month of a cycle.         *)
AutoSpent(c) ==
    Spent({d \in Cycles : /\ order[d].status = "confirmed" /\ order[d].auto
                          /\ MonthStart(d) = MonthStart(c)})

(* No order that costs something is confirmed by the scheduler so that     *)
(* what it has confirmed by itself in the month exceeds the locked budget  *)
(* the order was judged by, whatever budgets were there before and         *)
(* whatever the user confirms, cancels or changes in between (cycle_limit  *)
(* counts from the first of the month to the cycle's end).  An order that  *)
(* was judged by an unlocked budget has no limit, and one that is under    *)
(* way does not see the budget lowered or locked behind it.                *)
AutoSpendWithinMonth ==
    [][\A c \in Cycles :
          (/\ order[c].status # "confirmed"
           /\ order'[c].status = "confirmed" /\ order'[c].auto
           /\ order'[c].total > 0
           /\ gate.budget # Unlocked)
          => AutoSpent(c)' <= gate.budget]_vars
=============================================================================
