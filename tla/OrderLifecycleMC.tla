-------------------------- MODULE OrderLifecycleMC --------------------------
(* Small instances of OrderLifecycle for TLC.                              *)
EXTENDS OrderLifecycle, TLC

(* Order ids are random UUIDs and requests differ in nothing: permuting    *)
(* either changes no behaviour.                                            *)
Interchangeable == Permutations(Orders) \cup Permutations(Requests)

(* What the orders of a cycle amount to: one purchase, if one of them is   *)
(* confirmed, and what they left in the fridge.                            *)
PurchaseOf(c) ==
    IF In(c, {"confirmed"}) = {} THEN "none"
    ELSE IF \E o \in In(c, {"confirmed"}) : order[o].inbound THEN "delivered"
    ELSE "bought"
FridgeOf(c) ==
    Cardinality(UNION {{o} \X (1 .. stock[o]) : o \in In(c, Statuses)})

Purchases == INSTANCE CyclePurchases WITH
                purchase <- [c \in Cycles |-> PurchaseOf(c)],
                fridge <- [c \in Cycles |-> FridgeOf(c)],
                stale <- Cardinality(overwritten)

(* However sessions interleave, the orders of a cycle behave as one        *)
(* purchase: bought once, stocked with its delivery and only then, and     *)
(* emptied out with its cancellation, one step of one cycle at a time; a   *)
(* purchase is lost to an outdated read only by the writes that            *)
(* OrderLifecycle counts as such.                                          *)
BehavesAsOnePurchase == Purchases!Spec
=============================================================================
