--------------------------- MODULE CyclePurchases ---------------------------
(***************************************************************************)
(* What the orders promise about each delivery, without sessions, locks,   *)
(* rows or reminders: what was bought for a cycle is in the fridge once it *)
(* was delivered, once, and it leaves the fridge when the purchase is      *)
(* undone.  Writes that rest on an outdated read are the one exception,    *)
(* and they are counted.  OrderLifecycle implements this                   *)
(* (OrderLifecycleMC).                                                     *)
(***************************************************************************)
EXTENDS Integers

CONSTANT Cycles

VARIABLES
    purchase,     \* what has become of the purchase for each cycle
    fridge,       \* how many deliveries of the cycle are in the fridge
    stale         \* how many orders were closed on an outdated read

Init ==
    /\ purchase = [c \in Cycles |-> "none"]
    /\ fridge = [c \in Cycles |-> 0]
    /\ stale = 0

(* How the purchase of a cycle moves on, and what the fridge gets by it.   *)
Moves ==
    {<<"none", "bought", 0>>,
     <<"bought", "delivered", 1>>,
     <<"delivered", "bought", -1>>,      \* "it has not arrived"
     <<"bought", "none", 0>>,            \* cancelled before
     <<"delivered", "none", -1>>}        \* and after its delivery

(* A stale confirmation closes a delivered purchase and buys again.        *)
BuyAgain == {<<"delivered", "bought", 0>>}

Move(c) ==
    /\ <<purchase[c], purchase'[c], fridge'[c] - fridge[c]>> \in
          Moves \cup (IF stale' > stale THEN BuyAgain ELSE {})
    /\ \A d \in Cycles \ {c} :
         purchase'[d] = purchase[d] /\ fridge'[d] = fridge[d]
    /\ stale' >= stale

(* A stale write forgets purchases; the fridge keeps what it has of them.  *)
Forget ==
    /\ stale' > stale
    /\ \A c \in Cycles :
         fridge'[c] = fridge[c] /\ purchase'[c] \in {purchase[c], "none"}

Next == Forget \/ \E c \in Cycles : Move(c)

Spec == Init /\ [][Next]_<<purchase, fridge, stale>>
=============================================================================
