-------------------------- MODULE QuantitiesProofs --------------------------
(***************************************************************************)
(* Proofs about the modules that reckon with amounts: MealDrafting, for    *)
(* any dishes, answers, households, limits and prices; FridgeStock, for    *)
(* any number of lots and meals; OrderGate, for any prices, budgets and    *)
(* calendar.                                                               *)
(*                                                                         *)
(* The repair of a meal is a chain of stages, each of which sees what the  *)
(* ones before it added.  That it can be repeated without effect is a      *)
(* matter of all of them: no later stage may add what an earlier one asks  *)
(* about, and none may add what makes an earlier one ask for more.         *)
(*                                                                         *)
(* The fridge and the gate are about sums over sets that change one member *)
(* at a time.  A sum is the number of units laid side by side (SumIsCount) *)
(* and the laws of sums follow from those of cardinalities.                *)
(***************************************************************************)
EXTENDS MealDrafting, FiniteSetTheorems, WellFoundedInduction, TLAPS

CONSTANTS
    Requests, MaxMeal, Need, MaxLot, MaxSupply, MaxCrashes,   \* FridgeStock
    Items, NameOf, Prices, MaxCycle, FirstStart, Spacing,     \* OrderGate
    MonthDays, BudgetAmounts, Threshold

VARIABLES
    lot, meal, req, supplied, crashes,                        \* FridgeStock
    window, budget, order, gate                               \* OrderGate

F == INSTANCE FridgeStock
G == INSTANCE OrderGate

-----------------------------------------------------------------------------
(* Sums.                                                                   *)

(* The larger of two numbers.                                              *)
LEMMA Larger ==
    ASSUME NEW a \in Int, NEW b \in Int
    PROVE  /\ Max({a, b}) \in Int
           /\ Max({a, b}) = IF a >= b THEN a ELSE b
<1>1. PICK m \in {a, b} : \A y \in {a, b} : m >= y
  OBVIOUS
<1>2. \A x \in {a, b} : (\A y \in {a, b} : x >= y) => x = m
  BY <1>1
<1> QED
  BY <1>1, <1>2 DEF Max

(* The amounts of a function on a finite set, laid side by side.           *)
Units(f, S) == UNION {{x} \X (1 .. f[x]) : x \in S}
Naturals(f, S) == \A x \in S : f[x] \in Nat

(* Induction over a finite set ...                                         *)
LEMMA Smallest ==
    ASSUME NEW S, IsFiniteSet(S), NEW bad, bad \subseteq SUBSET S, bad # {}
    PROVE  \E T \in bad : \A x \in T : T \ {x} \notin bad
<1>1. PICK T \in bad : \A U \in bad : <<U, T>> \notin StrictSubsetOrdering(S)
  <2>1. FiniteSubsetsOf(S) = SUBSET S
    BY FS_FiniteSubsetsOfFinite
  <2> QED
    BY ONLY <2>1, FS_StrictSubsetOrderingWellFounded, WFMin,
            bad \subseteq SUBSET S, bad # {}
<1>2. SUFFICES ASSUME NEW x \in T, T \ {x} \in bad
               PROVE  FALSE
  BY <1>1
<1>3. <<T \ {x}, T>> \in StrictSubsetOrdering(S)
  BY <1>2 DEF StrictSubsetOrdering
<1> QED
  BY <1>1, <1>2, <1>3

(* One member taken out takes its units out.                               *)
LEMMA UnitsOneOut ==
    ASSUME NEW S, NEW f, IsFiniteSet(S), Naturals(f, S)
    PROVE  \A T \in SUBSET S : 
             /\ IsFiniteSet(Units(f, T)) /\ Cardinality(Units(f, T)) \in Nat
             /\ \A x \in T : Cardinality(Units(f, T)) =
                              f[x] + Cardinality(Units(f, T \ {x}))
<1>1. SUFFICES ASSUME NEW T \in SUBSET S
      PROVE  /\ IsFiniteSet(Units(f, T)) /\ Cardinality(Units(f, T)) \in Nat
             /\ \A x \in T : Cardinality(Units(f, T)) =
                              f[x] + Cardinality(Units(f, T \ {x}))
  OBVIOUS
<1>2. \A x \in S : /\ IsFiniteSet({x} \X (1 .. f[x]))
                   /\ Cardinality({x} \X (1 .. f[x])) = f[x]
  <2> TAKE x \in S
  <2>1. IsFiniteSet({x}) /\ Cardinality({x}) = 1
    BY FS_Singleton
  <2>2. f[x] \in Nat
    BY DEF Naturals
  <2>3. IsFiniteSet(1 .. f[x]) /\ Cardinality(1 .. f[x]) = f[x]
    BY <2>2, FS_Interval
  <2> HIDE DEF Naturals
  <2>4. /\ IsFiniteSet({x} \X (1 .. f[x]))
        /\ Cardinality({x} \X (1 .. f[x])) =
             Cardinality({x}) * Cardinality(1 .. f[x])
    BY <2>1, <2>3, FS_Product
  <2> QED
    BY <2>1, <2>2, <2>3, <2>4
<1>3. \A U \in SUBSET S : IsFiniteSet(Units(f, U))
  <2> TAKE U \in SUBSET S
  <2>1. IsFiniteSet(U)
    BY FS_Subset
  <2>2. IsFiniteSet({{x} \X (1 .. f[x]) : x \in U})
    <3> DEFINE lay == [x \in U |-> {x} \X (1 .. f[x])]
    <3> lay \in Surjection(U, {{x} \X (1 .. f[x]) : x \in U})
      BY DEF Surjection
    <3> HIDE DEF lay
    <3> QED
      BY <2>1, FS_Surjection
  <2> QED
    BY <1>2, <2>2, FS_UNION DEF Units
<1>4. ASSUME NEW x \in T
      PROVE  Cardinality(Units(f, T)) = f[x] + Cardinality(Units(f, T \ {x}))
  <2> DEFINE A == {x} \X (1 .. f[x])
  <2> DEFINE B == Units(f, T \ {x})
  <2>1. Units(f, T) = A \cup B /\ A \cap B = {}
    BY DEF Units
  <2>2. IsFiniteSet(A) /\ Cardinality(A) = f[x] /\ f[x] \in Nat
    BY <1>2 DEF Naturals
  <2>3. IsFiniteSet(B) /\ Cardinality(B) \in Nat
    BY <1>3, FS_CardinalityType
  <2> HIDE DEF A, B
  <2>4. Cardinality(A \cup B) =
          Cardinality(A) + Cardinality(B) - Cardinality(A \cap B)
    BY <2>2, <2>3, FS_Union
  <2>5. Cardinality(A \cap B) = 0
    BY <2>1, FS_EmptySet
  <2> QED
    BY <2>1, <2>2, <2>3, <2>4, <2>5 DEF B
<1> QED
  BY <1>3, <1>4, FS_CardinalityType

(* A sum counts units: both recurse over the set in the same way.          *)
LEMMA SumIsCount ==
    ASSUME NEW S, NEW f, IsFiniteSet(S), Naturals(f, S)
    PROVE  SumFunctionOnSet(f, S) = Cardinality(Units(f, S))
<1> DEFINE step(g) ==
             [s \in SUBSET S |->
                IF s = {} THEN 0
                ELSE f[CHOOSE x \in s : TRUE] + g[s \ {CHOOSE x \in s : TRUE}]]
<1> DEFINE count == [s \in SUBSET S |-> Cardinality(Units(f, s))]
<1> DEFINE iter == CHOOSE g : g = step(g)
<1>1. count = step(count)
  <2>1. ASSUME NEW s \in SUBSET S PROVE count[s] = step(count)[s]
    <3>1. CASE s = {}
      BY <3>1, FS_EmptySet DEF Units
    <3>2. CASE s # {}
      <4> DEFINE x == CHOOSE x \in s : TRUE
      <4>1. x \in s
        BY <3>2
      <4> HIDE DEF x
      <4>2. s \ {x} \in SUBSET S
        OBVIOUS
      <4>3. count[s] = f[x] + count[s \ {x}]
        BY <4>1, <4>2, UnitsOneOut
      <4> QED
        BY <4>3, <3>2 DEF x
    <3> QED BY <3>1, <3>2
  <2> QED
    BY <2>1
<1>2. iter = step(iter)
  <2> HIDE DEF count, step
  <2> QED BY <1>1
<1>3. SumFunctionOnSet(f, S) = iter[S]
  BY DEF SumFunctionOnSet, FoldFunctionOnSet, MapThenFoldSet
<1> HIDE DEF iter
<1>4. \A s \in SUBSET S : iter[s] = count[s]
  <2> DEFINE bad == {s \in SUBSET S : iter[s] # count[s]}
  <2> SUFFICES bad = {} 
    OBVIOUS
  <2> SUFFICES ASSUME bad # {} PROVE FALSE
    OBVIOUS
  <2>1. PICK T \in bad : \A x \in T : T \ {x} \notin bad
    BY Smallest
  <2>2. iter[T] = step(iter)[T] /\ count[T] = step(count)[T]
    <3> HIDE DEF step, count
    <3> QED BY <1>1, <1>2
  <2>3. CASE T = {}
    BY <2>2, <2>3
  <2>4. CASE T # {}
    <3> DEFINE x == CHOOSE x \in T : TRUE
    <3>1. x \in T
      BY <2>4
    <3>2. iter[T \ {x}] = count[T \ {x}]
      BY <3>1, <2>1
    <3> QED
      BY <3>2, <2>2, <2>4
  <2> QED
    BY <2>3, <2>4
<1> QED
  BY <1>3, <1>4

(* The sum over a finite set: natural, zero over nothing, and one member   *)
(* taken out.                                                              *)
LEMMA SumOneOut ==
    ASSUME NEW S, NEW f, IsFiniteSet(S), Naturals(f, S)
    PROVE  \A T \in SUBSET S :
             /\ IsFiniteSet(T)
             /\ SumFunctionOnSet(f, T) \in Nat
             /\ T = {} => SumFunctionOnSet(f, T) = 0
             /\ \A x \in T :
                  SumFunctionOnSet(f, T) = f[x] + SumFunctionOnSet(f, T \ {x})
<1> SUFFICES ASSUME NEW T \in SUBSET S
    PROVE  /\ IsFiniteSet(T)
           /\ SumFunctionOnSet(f, T) \in Nat
           /\ T = {} => SumFunctionOnSet(f, T) = 0
           /\ \A x \in T :
                SumFunctionOnSet(f, T) = f[x] + SumFunctionOnSet(f, T \ {x})
  OBVIOUS
<1>1. \A U \in SUBSET S : SumFunctionOnSet(f, U) = Cardinality(Units(f, U))
  <2> TAKE U \in SUBSET S
  <2> IsFiniteSet(U) /\ Naturals(f, U)
    BY FS_Subset DEF Naturals
  <2> QED
    BY SumIsCount
<1>2. IsFiniteSet(T)
  BY FS_Subset
<1>3. /\ Cardinality(Units(f, T)) \in Nat
      /\ \A x \in T : Cardinality(Units(f, T)) =
                          f[x] + Cardinality(Units(f, T \ {x}))
  BY UnitsOneOut
<1>4. T = {} => Cardinality(Units(f, T)) = 0
  BY FS_EmptySet DEF Units
<1> QED
  BY <1>1, <1>2, <1>3, <1>4

(* More to sum up, or larger members, give no smaller a sum.               *)
LEMMA SumMonotonic ==
    ASSUME NEW S, NEW T \in SUBSET S, NEW f, NEW g, IsFiniteSet(S),
           Naturals(f, T), Naturals(g, S), \A x \in T : f[x] <= g[x]
    PROVE  SumFunctionOnSet(f, T) <= SumFunctionOnSet(g, S)
<1>1. IsFiniteSet(T)
  BY FS_Subset
<1>2. /\ SumFunctionOnSet(f, T) = Cardinality(Units(f, T))
      /\ SumFunctionOnSet(g, S) = Cardinality(Units(g, S))
  BY <1>1, SumIsCount
<1>3. Units(f, T) \subseteq Units(g, S)
  BY DEF Units, Naturals
<1>4. IsFiniteSet(Units(g, S))
  BY UnitsOneOut
<1> QED
  BY <1>2, <1>3, <1>4, FS_Subset

(* The sum of sums.                                                        *)
LEMMA SumAdds ==
    ASSUME NEW S, NEW f, NEW g, NEW h, IsFiniteSet(S),
           Naturals(f, S), Naturals(g, S), \A x \in S : h[x] = f[x] + g[x]
    PROVE  SumFunctionOnSet(h, S) =
             SumFunctionOnSet(f, S) + SumFunctionOnSet(g, S)
<1>1. Naturals(h, S)
  BY DEF Naturals
<1> DEFINE bad == {T \in SUBSET S :
                     SumFunctionOnSet(h, T) #
                       SumFunctionOnSet(f, T) + SumFunctionOnSet(g, T)}
<1>2. SUFFICES ASSUME bad # {}
               PROVE  FALSE
  OBVIOUS
<1>3. PICK T \in bad : \A x \in T : T \ {x} \notin bad
  BY <1>2, Smallest
<1>4. /\ SumFunctionOnSet(f, T) \in Nat /\ SumFunctionOnSet(g, T) \in Nat
      /\ T = {} => /\ SumFunctionOnSet(f, T) = 0
                    /\ SumFunctionOnSet(g, T) = 0
                    /\ SumFunctionOnSet(h, T) = 0
  BY <1>1, SumOneOut
<1>5. PICK x \in T : TRUE
  BY <1>3, <1>4
<1>6. /\ SumFunctionOnSet(f, T) = f[x] + SumFunctionOnSet(f, T \ {x})
      /\ SumFunctionOnSet(g, T) = g[x] + SumFunctionOnSet(g, T \ {x})
      /\ SumFunctionOnSet(h, T) = h[x] + SumFunctionOnSet(h, T \ {x})
  BY <1>1, SumOneOut
<1>7. SumFunctionOnSet(h, T \ {x}) =
        SumFunctionOnSet(f, T \ {x}) + SumFunctionOnSet(g, T \ {x})
  BY <1>3
<1>8. /\ SumFunctionOnSet(f, T \ {x}) \in Nat
      /\ SumFunctionOnSet(g, T \ {x}) \in Nat
      /\ f[x] \in Nat /\ g[x] \in Nat /\ h[x] = f[x] + g[x]
  BY SumOneOut DEF Naturals
<1>9. SumFunctionOnSet(h, T) # SumFunctionOnSet(f, T) + SumFunctionOnSet(g, T)
  BY <1>3
<1> HIDE DEF bad
<1> QED
  BY <1>6, <1>7, <1>8, <1>9

(* When one member changes and the others do not grow, so does the sum.    *)
LEMMA SumChange ==
    ASSUME NEW S, NEW f, NEW g, NEW x \in S, IsFiniteSet(S),
           Naturals(f, S), Naturals(g, S),
           \A y \in S \ {x} : g[y] <= f[y]
    PROVE  SumFunctionOnSet(g, S) + f[x] <= SumFunctionOnSet(f, S) + g[x]
<1> DEFINE R == S \ {x}
<1>1. R \in SUBSET S /\ S \in SUBSET S /\ R \in SUBSET R
  OBVIOUS
<1>2. /\ SumFunctionOnSet(f, S) = f[x] + SumFunctionOnSet(f, R)
      /\ SumFunctionOnSet(g, S) = g[x] + SumFunctionOnSet(g, R)
      /\ SumFunctionOnSet(f, R) \in Nat /\ SumFunctionOnSet(g, R) \in Nat
      /\ IsFiniteSet(R)
  BY <1>1, SumOneOut
<1>3. Naturals(f, R) /\ Naturals(g, R) /\ \A y \in R : g[y] <= f[y]
  BY DEF Naturals
<1> HIDE DEF R
<1>4. SumFunctionOnSet(g, R) <= SumFunctionOnSet(f, R)
  BY <1>1, <1>2, <1>3, SumMonotonic
<1>5. f[x] \in Nat /\ g[x] \in Nat
  BY DEF Naturals
<1> QED
  BY <1>2, <1>4, <1>5

(* The sum over one.                                                       *)
LEMMA SumSingle ==
    ASSUME NEW x, NEW f, f[x] \in Nat
    PROVE  SumFunctionOnSet(f, {x}) = f[x]
<1>1. IsFiniteSet({x}) /\ Naturals(f, {x})
  BY FS_Singleton DEF Naturals
<1>2. {x} \ {x} = {} /\ {} \in SUBSET {x} /\ {x} \in SUBSET {x}
  OBVIOUS
<1>3. SumFunctionOnSet(f, {x}) = f[x] + SumFunctionOnSet(f, {})
  BY <1>1, <1>2, SumOneOut
<1>4. SumFunctionOnSet(f, {}) = 0
  BY <1>1, <1>2, SumOneOut
<1> QED
  BY <1>3, <1>4

(* The sum of nothing but zeros.                                           *)
LEMMA SumZero ==
    ASSUME NEW S, NEW f, IsFiniteSet(S), \A x \in S : f[x] = 0
    PROVE  SumFunctionOnSet(f, S) = 0
<1>1. Naturals(f, S)
  BY DEF Naturals
<1>2. Units(f, S) = {}
  BY DEF Units
<1> QED
  BY <1>1, <1>2, SumIsCount, FS_EmptySet

(* No more than the number of members times the largest of them.           *)
LEMMA SumBound ==
    ASSUME NEW S, NEW f, IsFiniteSet(S), Naturals(f, S),
           NEW b \in Nat, \A x \in S : f[x] <= b
    PROVE  SumFunctionOnSet(f, S) <= Cardinality(S) * b
<1> DEFINE bad == {T \in SUBSET S :
                     ~(SumFunctionOnSet(f, T) <= Cardinality(T) * b)}
<1>1. SUFFICES ASSUME bad # {}
               PROVE  FALSE
  OBVIOUS
<1>2. PICK T \in bad : \A x \in T : T \ {x} \notin bad
  <2>1. bad \subseteq SUBSET S
    OBVIOUS
  <2> HIDE DEF bad
  <2> QED
    BY <1>1, <2>1, Smallest
<1>3. IsFiniteSet(T) /\ Cardinality(T) \in Nat
  BY SumOneOut, FS_CardinalityType
<1>4. T # {}
  <2>1. T = {} => Cardinality(T) = 0 /\ SumFunctionOnSet(f, T) = 0
    BY SumOneOut, FS_EmptySet
  <2>2. 0 * b = 0
    OBVIOUS
  <2> QED
    BY <1>2, <2>1, <2>2
<1>5. PICK x \in T : TRUE
  BY <1>4
<1> DEFINE n == Cardinality(T \ {x})
<1>6. n \in Nat /\ Cardinality(T) = n + 1
  <2> HIDE DEF bad
  <2>1. IsFiniteSet(T \ {x}) /\ Cardinality(T \ {x}) = Cardinality(T) - 1
    BY <1>3, <1>5, FS_RemoveElement
  <2> QED
    BY <1>3, <2>1, FS_CardinalityType
<1>7. /\ SumFunctionOnSet(f, T) = f[x] + SumFunctionOnSet(f, T \ {x})
      /\ SumFunctionOnSet(f, T \ {x}) \in Nat /\ f[x] \in Nat /\ f[x] <= b
  BY <1>5, SumOneOut DEF Naturals
<1>8. SumFunctionOnSet(f, T \ {x}) <= n * b
  BY <1>2, <1>5
<1>9. ~(SumFunctionOnSet(f, T) <= (n + 1) * b)
  BY <1>2, <1>6
<1> HIDE DEF n, bad
<1>10. (n + 1) * b = n * b + b /\ n * b \in Nat
  BY <1>6
<1> QED
  BY <1>7, <1>8, <1>9, <1>10

-----------------------------------------------------------------------------
(* The meals: dishes, and what the constants are.                          *)
Kinds == Keys \cup Others
Row == [Kinds -> Int]
IsDish(d) ==
    /\ d.rows \in Row
    /\ d.explicit \subseteq Keys /\ d.named \subseteq Keys

(* What the constants are: household_size and the lists that               *)
(* user_allergies fills, and answers as _parse_meals leaves them.          *)
Household == People \in Nat \ {0} /\ Allergies \subseteq DOMAIN MadeOf
Plain(m) == \E day, type : \E dish \in DOMAIN Book : m = Draft(day, type, dish)
Cookable ==
    /\ \A d \in DOMAIN Book : IsDish(Book[d])
    /\ \A a \in Answers : \A i \in DOMAIN a : Plain(a[i])
    /\ Bank \in Seq(DOMAIN Book) /\ Bank # <<>>
    /\ Days \in Nat /\ PerDay \in Nat
Timed ==
    /\ Durations \subseteq 0 .. CallLimit /\ CallLimit \in Nat
    /\ RetryBefore \in Nat \ {0} /\ MaxRetries \in Nat

-----------------------------------------------------------------------------
(* Amounts.                                                                *)

(* What is not listed or has no amount counts as none.                     *)
LEMMA Amounts ==
    ASSUME NEW rows \in Row, NEW k \in Kinds
    PROVE  /\ rows[k] \in Int /\ Amount(rows, k) \in Nat
           /\ Amount(rows, k) = IF rows[k] > 0 THEN rows[k] ELSE 0
  BY Larger DEF Row, Amount

(* The dictionary gives every key an amount, and no allergy is to water.   *)
LEMMA Dictionary ==
    /\ \A k \in Keys : PerPerson[k] \in Nat \ {0}
    /\ {"rice", "curry", "oil", "salt", "water", "doenjang", "egg", "spinach",
        "butter", "sesame_oil"} \subseteq Keys
    /\ Others \cap Keys = {} /\ "raw_rice" \in Others
    /\ Household => ~Refused("water")
<1>1. /\ \A k \in Keys : PerPerson[k] \in Nat \ {0}
      /\ {"rice", "curry", "oil", "salt", "water", "doenjang", "egg",
          "spinach", "butter", "sesame_oil"} \subseteq Keys
  BY DEF PerPerson, Keys
<1>2. Others \cap Keys = {} /\ "raw_rice" \in Others
  BY DEF PerPerson, Keys, Others
<1>3. Household => ~Refused("water")
  <2>1. \A a \in DOMAIN MadeOf : "water" \notin MadeOf[a] \cup NameHas[a]
    BY DEF MadeOf, NameHas
  <2> QED
    BY <2>1 DEF Household, Refused, Composites
<1> QED
  BY <1>1, <1>2, <1>3

-----------------------------------------------------------------------------
(* The stages.                                                             *)

(* An ingredient that was there stays, and of what was asked for only what *)
(* is refused is missing afterwards.                                       *)
LEMMA Filled ==
    ASSUME Household, NEW rows \in Row, NEW keys \in SUBSET Keys
    PROVE  LET new == Fill(rows, keys)
           IN /\ new \in Row
              /\ \A k \in Kinds :
                   \/ new[k] = rows[k]
                   \/ /\ k \in keys /\ ~Refused(k) /\ ~Present(rows, k)
                      /\ Present(new, k)
              /\ \A k \in keys :
                   \/ Present(new, k) \/ Refused(k)
                   \/ k = "rice" /\ Present(rows, "raw_rice")
<1> DEFINE new == Fill(rows, keys)
<1>1. ASSUME NEW k \in Kinds
      PROVE  new[k] = IF k \in Missing(rows, keys) /\ ~Refused(k)
                      THEN PerPerson[k] * People ELSE rows[k]
  BY DEF Row, Fill
<1>2. \A k \in Missing(rows, keys) :
         k \in keys /\ k \in Keys /\ ~Present(rows, k)
  BY DEF Missing
<1>3. \A k \in Keys : PerPerson[k] * People \in Nat \ {0}
  <2>1. \A a, b \in Nat \ {0} : a * b \in Nat \ {0}
    OBVIOUS
  <2> QED
    BY <2>1, Dictionary DEF Household
<1>4. new \in Row
  <2>1. new = [k \in Kinds |-> new[k]]
    BY DEF Row, Fill
  <2>2. \A k \in Kinds : new[k] \in Int
    BY <1>1, <1>2, <1>3, Amounts
  <2> HIDE DEF new
  <2> QED
    BY <2>1, <2>2 DEF Row
<1> HIDE DEF new
<1>5. \A k \in Kinds :
        \/ new[k] = rows[k]
        \/ k \in keys /\ ~Refused(k) /\ ~Present(rows, k) /\ Present(new, k)
  BY <1>1, <1>2, <1>3 DEF Present
<1>6. ASSUME NEW k \in keys
      PROVE  \/ Present(new, k) \/ Refused(k)
             \/ k = "rice" /\ Present(rows, "raw_rice")
  <2>1. CASE k \in Missing(rows, keys)
    BY <1>1, <1>2, <1>3, <2>1 DEF Present, Kinds
  <2>2. CASE k \notin Missing(rows, keys)
    BY <1>1, <2>2 DEF Missing, Present, Kinds
  <2> QED
    BY <2>1, <2>2
<1> QED
  BY <1>4, <1>5, <1>6 DEF new

(* What the need for water is read from.                                   *)
Wet == {"curry_sauce", "curry", "broth", "spinach", "raw_rice", "pasta"}
LEMMA WetKinds == Wet \subseteq Kinds /\ "water" \in Kinds
  BY DEF Wet, Kinds, Keys, Others, PerPerson

(* The need for water is the same when these are.                          *)
LEMMA SameWater ==
    ASSUME NEW dish, NEW old, NEW new, \A k \in Wet : new[k] = old[k]
    PROVE  /\ CookingWater(dish, new) = CookingWater(dish, old)
           /\ BoilingWater(dish, new) = BoilingWater(dish, old)
           /\ RiceWater(dish, new) = RiceWater(dish, old)
           /\ RequiredWater(dish, new) = RequiredWater(dish, old)
           /\ CurryBase(dish, new) = CurryBase(dish, old)
<1>1. /\ new["curry_sauce"] = old["curry_sauce"] /\ new["curry"] = old["curry"]
      /\ new["broth"] = old["broth"] /\ new["spinach"] = old["spinach"]
      /\ new["raw_rice"] = old["raw_rice"] /\ new["pasta"] = old["pasta"]
  BY DEF Wet
<1>2. CurryBase(dish, new) = CurryBase(dish, old)
  BY <1>1 DEF CurryBase, Listed
<1>3. CookingWater(dish, new) = CookingWater(dish, old)
  BY <1>1, <1>2 DEF CookingWater, Amount
<1>4. BoilingWater(dish, new) = BoilingWater(dish, old)
  BY <1>1 DEF BoilingWater, Present, Listed
<1>5. RiceWater(dish, new) = RiceWater(dish, old)
  BY <1>1 DEF RiceWater, Amount
<1> QED
  BY <1>1, <1>2, <1>3, <1>4, <1>5 DEF RequiredWater, Amount

(* It is a number.                                                         *)
LEMMA WaterIsInt ==
    ASSUME Household, NEW dish, NEW rows \in Row
    PROVE  RequiredWater(dish, rows) \in Int
<1>1. People \in Int
  BY DEF Household
<1>2. \A k \in Wet : Amount(rows, k) \in Int
  BY Amounts, WetKinds
<1>3. /\ Amount(rows, "broth") \in Int /\ Amount(rows, "curry") \in Int
      /\ Amount(rows, "raw_rice") \in Int
  BY <1>2 DEF Wet
<1>4. Max({25 * People, Amount(rows, "curry")}) \in Int
      /\ Max({1000, 500 * People}) \in Int
  BY <1>1, <1>3, Larger
<1>5. CookingWater(dish, rows) \in Int
  <2> DEFINE base == Max({25 * People, Amount(rows, "curry")})
  <2> DEFINE wet == IF CurryBase(dish, rows) THEN base * 7
                    ELSE IF "porridge" \in dish.marks THEN 400 * People
                    ELSE IF "soup" \in dish.marks THEN 300 * People
                    ELSE IF {"braise", "steam_egg"} \cap dish.marks # {}
                       THEN 100 * People
                    ELSE 0
  <2>1. CookingWater(dish, rows) = Max({0, wet - Amount(rows, "broth")})
    BY DEF CookingWater
  <2>2. base \in Int
    BY <1>4
  <2> HIDE DEF base
  <2>3. wet \in Int
    BY <1>1, <2>2
  <2> HIDE DEF wet
  <2> QED
    BY <1>3, <2>1, <2>3, Larger
<1>6. BoilingWater(dish, rows) \in Int
  BY <1>1, <1>4 DEF BoilingWater
<1>7. RiceWater(dish, rows) \in Int
  BY <1>3 DEF RiceWater
<1>8. Max({0, 300 * People - Amount(rows, "broth")}) \in Int
  BY <1>1, <1>3, Larger
<1> QED
  BY <1>5, <1>6, <1>7, <1>8 DEF RequiredWater

(* Nothing but water is added, and then there is enough of it.             *)
LEMMA Watered ==
    ASSUME Household, NEW dish, NEW rows \in Row
    PROVE  LET new == WithWater(dish, rows)
           IN /\ new \in Row
              /\ \A k \in Kinds \ {"water"} : new[k] = rows[k]
              /\ new["water"] >= rows["water"]
              /\ new["water"] = rows["water"] \/ Present(new, "water")
              /\ RequiredWater(dish, rows) <= Amount(new, "water")
<1> DEFINE have == Amount(rows, "water")
           need == RequiredWater(dish, rows)
           new == WithWater(dish, rows)
<1>1. /\ have \in Nat /\ need \in Int /\ rows["water"] \in Int
      /\ have = IF rows["water"] > 0 THEN rows["water"] ELSE 0
  BY Amounts, WaterIsInt, WetKinds
<1> HIDE DEF have, need
<1>2. CASE need - have <= 0
  <2>1. new = rows
    BY <1>2 DEF WithWater, have, need
  <2> QED
    BY <1>1, <1>2, <2>1 DEF have, need
<1>3. CASE ~(need - have <= 0)
  <2>1. new = [rows EXCEPT !["water"] = have + (need - have)]
    BY <1>3 DEF WithWater, have, need
  <2> HIDE DEF new
  <2>6. have + (need - have) = need
    BY <1>1
  <2>2. new = [rows EXCEPT !["water"] = need]
    BY <2>1, <2>6
  <2>3. new \in Row /\ new["water"] = need
    BY <1>1, <2>2, WetKinds DEF Row
  <2>4. Amount(new, "water") = need /\ need > 0
    BY <1>1, <1>3, <2>3, Amounts, WetKinds
  <2>5. \A k \in Kinds \ {"water"} : new[k] = rows[k]
    BY <2>2 DEF Row
  <2> QED
    BY <1>1, <1>3, <2>3, <2>4, <2>5 DEF Present, new, need
<1> QED
  BY <1>2, <1>3

-----------------------------------------------------------------------------
(* The repair.                                                             *)

(* The lists between the stages.                                           *)
R1(d, r) == Fill(r, Basics(d, r))
R2(d, r) == WithWater(d, R1(d, r))
R3(d, r) == Fill(R2(d, r), d.explicit \cap Fats)
R4(d, r) == Fill(R3(d, r), PanFat(d, R3(d, r)))
R5(d, r) == Fill(R4(d, r), Seasoning(d, R4(d, r)))

LEMMA RepairIs == ASSUME NEW d, NEW r PROVE Repair(d, r) = R5(d, r)
<1>1. Stages(d, r) =
        <<<<r, Basics(d, r)>>, <<R2(d, r), d.explicit \cap Fats>>,
          <<R3(d, r), PanFat(d, R3(d, r))>>,
          <<R4(d, r), Seasoning(d, R4(d, r))>>>>
  BY DEF Stages, R1, R2, R3, R4
<1>2. Last(Stages(d, r)) = <<R4(d, r), Seasoning(d, R4(d, r))>>
  BY <1>1 DEF Last
<1> QED
  BY <1>2 DEF Repair, R5

(* What is refused at the first stage is reported.                         *)
LEMMA LeftOutIs ==
    ASSUME NEW d, NEW r, NEW k \in Missing(r, Basics(d, r)), Refused(k)
    PROVE  k \in LeftOut(d, r)
<1>1. Stages(d, r) =
        <<<<r, Basics(d, r)>>, <<R2(d, r), d.explicit \cap Fats>>,
          <<R3(d, r), PanFat(d, R3(d, r))>>,
          <<R4(d, r), Seasoning(d, R4(d, r))>>>>
  BY DEF Stages, R1, R2, R3, R4
<1>2. <<r, Basics(d, r)>> \in ToSet(Stages(d, r))
  <2>1. Stages(d, r)[1] = <<r, Basics(d, r)>> /\ 1 \in DOMAIN Stages(d, r)
    BY <1>1
  <2> QED
    BY <2>1 DEF ToSet
<1> QED
  BY <1>2 DEF LeftOut

(* What each stage asks for.                                               *)
LEMMA Wanted ==
    ASSUME NEW d, IsDish(d), NEW r
    PROVE  /\ Basics(d, r) \in SUBSET Keys
           /\ d.explicit \cap Fats \in SUBSET (Keys \cap Fats)
           /\ PanFat(d, r) \in SUBSET {"oil"}
           /\ Seasoning(d, r) \in SUBSET {"salt"}
  BY Dictionary DEF Basics, IsDish, PanFat, Seasoning

(* What a list may become, stage by stage.                                 *)
Grown(old, new, keys) ==
    \A k \in Kinds :
      \/ new[k] = old[k]
      \/ k \in keys /\ ~Refused(k) /\ ~Present(old, k) /\ Present(new, k)
      \/ k = "water" /\ new[k] >= old[k] /\ Present(new, k)

LEMMA Chain ==
    ASSUME Household, NEW d, IsDish(d), NEW r \in Row
    PROVE  /\ R1(d, r) \in Row /\ R2(d, r) \in Row /\ R3(d, r) \in Row
           /\ R4(d, r) \in Row /\ R5(d, r) \in Row
           /\ Grown(r, R1(d, r), Keys)
           /\ \A k \in Kinds \ {"water"} : R2(d, r)[k] = R1(d, r)[k]
           /\ R2(d, r)["water"] >= R1(d, r)["water"]
           /\ \/ R2(d, r)["water"] = R1(d, r)["water"]
              \/ Present(R2(d, r), "water")
           /\ RequiredWater(d, R1(d, r)) <= Amount(R2(d, r), "water")
           /\ Grown(R2(d, r), R3(d, r), Fats)
           /\ Grown(R3(d, r), R4(d, r), {"oil"})
           /\ Grown(R4(d, r), R5(d, r), {"salt"})
<1>1. R1(d, r) \in Row /\ Grown(r, R1(d, r), Keys)
  BY Filled, Wanted DEF R1, Grown
<1>2. /\ R2(d, r) \in Row
      /\ \A k \in Kinds \ {"water"} : R2(d, r)[k] = R1(d, r)[k]
      /\ R2(d, r)["water"] >= R1(d, r)["water"]
      /\ R2(d, r)["water"] = R1(d, r)["water"] \/ Present(R2(d, r), "water")
      /\ RequiredWater(d, R1(d, r)) <= Amount(R2(d, r), "water")
  BY <1>1, Watered DEF R2
<1>3. R3(d, r) \in Row /\ Grown(R2(d, r), R3(d, r), Fats)
  BY <1>2, Filled, Wanted DEF R3, Grown
<1>4. R4(d, r) \in Row /\ Grown(R3(d, r), R4(d, r), {"oil"})
  <2>1. PanFat(d, R3(d, r)) \in SUBSET Keys
    BY Wanted, Dictionary
  <2> QED
    BY <1>3, <2>1, Filled, Wanted DEF R4, Grown
<1>5. R5(d, r) \in Row /\ Grown(R4(d, r), R5(d, r), {"salt"})
  <2>1. Seasoning(d, R4(d, r)) \in SUBSET Keys
    BY Wanted, Dictionary
  <2> QED
    BY <1>4, <2>1, Filled, Wanted DEF R5, Grown
<1> QED
  BY <1>1, <1>2, <1>3, <1>4, <1>5

(* No amount gets smaller, and what is not asked for stays.                *)
LEMMA NoLess ==
    ASSUME NEW old \in Row, NEW new \in Row, NEW keys, Grown(old, new, keys)
    PROVE  \A k \in Kinds : /\ new[k] >= old[k]
                            /\ Present(old, k) => Present(new, k)
                            /\ k \notin keys \cup {"water"} => new[k] = old[k]
<1>1. \A k \in Kinds : old[k] \in Int /\ new[k] \in Int
  BY DEF Row
<1> QED
  BY <1>1 DEF Grown, Present

(* What the stages keep and add, from the second on and altogether.        *)
LEMMA Later ==
    ASSUME Household, NEW d, IsDish(d), NEW r \in Row
    PROVE  /\ \A k \in Kinds : /\ R5(d, r)[k] >= R4(d, r)[k]
                               /\ R4(d, r)[k] >= R3(d, r)[k]
                               /\ R3(d, r)[k] >= R2(d, r)[k]
                               /\ R2(d, r)[k] >= R1(d, r)[k]
                               /\ R1(d, r)[k] >= r[k]
           /\ \A k \in Kinds \ (Fats \cup {"water", "salt"}) :
                 R5(d, r)[k] = R1(d, r)[k] /\ R5(d, r)[k] = R3(d, r)[k]
           /\ \A k \in Kinds : \/ R5(d, r)[k] = r[k]
                               \/ Present(R5(d, r), k) /\ k \in Keys
           /\ \A k \in Kinds \ {"water"} : R5(d, r)[k] = r[k] \/ ~Refused(k)
<1> DEFINE r1 == R1(d, r)
           r2 == R2(d, r)
           r3 == R3(d, r)
           r4 == R4(d, r)
           r5 == R5(d, r)
<1>1. /\ r1 \in Row /\ r2 \in Row /\ r3 \in Row /\ r4 \in Row /\ r5 \in Row
      /\ Grown(r, r1, Keys) /\ Grown(r2, r3, Fats) /\ Grown(r3, r4, {"oil"})
      /\ Grown(r4, r5, {"salt"})
      /\ \A k \in Kinds \ {"water"} : r2[k] = r1[k]
      /\ r2["water"] >= r1["water"]
      /\ r2["water"] = r1["water"] \/ Present(r2, "water")
  BY Chain
<1> HIDE DEF r1, r2, r3, r4, r5
<1>2. \A k \in Kinds : /\ r[k] \in Int /\ r1[k] \in Int /\ r2[k] \in Int
                       /\ r3[k] \in Int /\ r4[k] \in Int /\ r5[k] \in Int
  BY <1>1 DEF Row
<1>3. \A k \in Kinds : r5[k] >= r4[k] /\ r4[k] >= r3[k] /\ r3[k] >= r2[k]
  BY <1>1, NoLess
<1>4. \A k \in Kinds : r1[k] >= r[k]
  BY <1>1, NoLess
<1>5. \A k \in Kinds : r2[k] >= r1[k]
  BY <1>1, <1>2
<1>6. \A k \in Kinds \ (Fats \cup {"water", "salt"}) :
         r5[k] = r1[k] /\ r5[k] = r3[k]
  <2> SUFFICES ASSUME NEW k \in Kinds \ (Fats \cup {"water", "salt"})
               PROVE  r5[k] = r1[k] /\ r5[k] = r3[k]
    OBVIOUS
  <2>1. k # "oil"
    BY DEF Fats
  <2>2. r5[k] = r4[k] /\ r4[k] = r3[k] /\ r3[k] = r2[k] /\ r2[k] = r1[k]
    BY <1>1, <2>1, NoLess
  <2> QED
    BY <2>2
<1>7. \A k \in Kinds : r5[k] = r[k] \/ Present(r5, k)
  <2> SUFFICES ASSUME NEW k \in Kinds, ~Present(r5, k) PROVE r5[k] = r[k]
    OBVIOUS
  <2>1. /\ ~Present(r4, k) /\ ~Present(r3, k) /\ ~Present(r2, k)
        /\ ~Present(r1, k)
    BY <1>2, <1>3, <1>5 DEF Present
  <2>2. r5[k] = r4[k] /\ r4[k] = r3[k] /\ r3[k] = r2[k] /\ r1[k] = r[k]
    BY <1>1, <2>1 DEF Grown
  <2>3. r2[k] = r1[k]
    BY <1>1, <2>1
  <2> QED
    BY <2>2, <2>3
<1>8. \A k \in Kinds \ {"water"} : r5[k] = r[k] \/ ~Refused(k)
  <2> SUFFICES ASSUME NEW k \in Kinds \ {"water"}, Refused(k)
               PROVE  r5[k] = r[k]
    OBVIOUS
  <2> QED
    BY <1>1 DEF Grown
<1>9. \A k \in Kinds \ Keys : r5[k] = r[k]
  <2> SUFFICES ASSUME NEW k \in Kinds \ Keys PROVE r5[k] = r[k]
    OBVIOUS
  <2>1. k \notin Fats \cup {"water", "salt", "oil"}
    BY Dictionary DEF Fats
  <2>2. r1[k] = r[k]
    BY <1>1, <2>1, NoLess
  <2> QED
    BY <1>6, <2>1, <2>2
<1> QED
  BY <1>3, <1>4, <1>5, <1>6, <1>7, <1>8, <1>9 DEF r1, r2, r3, r4, r5

(* Filling in what is neither missing nor allowed changes nothing.         *)
LEMMA NothingToFill ==
    ASSUME NEW rows \in Row, NEW keys,
           \A k \in keys : \/ Present(rows, k) \/ Refused(k)
                           \/ k = "rice" /\ Present(rows, "raw_rice")
    PROVE  Fill(rows, keys) = rows
<1>1. \A k \in Kinds : ~(k \in Missing(rows, keys) /\ ~Refused(k))
  BY DEF Missing
<1>2. DOMAIN rows = Kinds /\ rows = [k \in Kinds |-> rows[k]]
  BY DEF Row
<1> QED
  BY <1>1, <1>2 DEF Fill

(* What the basics of the repaired list are, they were before.             *)
LEMMA SameBasics ==
    ASSUME Household, NEW d, IsDish(d), NEW r \in Row,
           NEW k \in Basics(d, R5(d, r))
    PROVE  k \in Basics(d, r)
<1> DEFINE new == R5(d, r)
<1>1. \A x \in Kinds : new[x] = r[x] \/ (Present(new, x) /\ x \in Keys)
  BY Later
<1>2. /\ new["raw_rice"] = r["raw_rice"]
      /\ new["curry_sauce"] = r["curry_sauce"]
  BY <1>1, Dictionary DEF Kinds, Others
<1> HIDE DEF new
<1>3. ASSUME NEW x \in Keys, new[x] = 0 PROVE r[x] = 0
  BY <1>1, <1>3 DEF Kinds, Present
<1>4. CurryBase(d, new) = CurryBase(d, r)
  BY <1>2 DEF CurryBase, Listed
<1>5. Listed(new, "raw_rice") = Listed(r, "raw_rice")
  BY <1>2 DEF Listed
<1>6. k \in Basics(d, new)
  BY DEF new
<1> QED
  BY <1>3, <1>4, <1>5, <1>6 DEF Basics

(* repair_meal_ingredients can be repeated without effect.                 *)
LEMMA Stable ==
    ASSUME Household, NEW d, IsDish(d), NEW r \in Row
    PROVE  R5(d, R5(d, r)) = R5(d, r)
<1> DEFINE r1 == R1(d, r)
           r2 == R2(d, r)
           r3 == R3(d, r)
           r4 == R4(d, r)
           new == R5(d, r)
<1>1. /\ r1 \in Row /\ r2 \in Row /\ r3 \in Row /\ r4 \in Row /\ new \in Row
  BY Chain
<1>2. /\ \A k \in Kinds : /\ new[k] >= r4[k] /\ r4[k] >= r3[k]
                          /\ r3[k] >= r2[k] /\ r2[k] >= r1[k]
      /\ \A k \in Kinds \ (Fats \cup {"water", "salt"}) :
            new[k] = r1[k] /\ new[k] = r3[k]
  BY Later
<1>3. \A k \in Kinds : /\ r1[k] \in Int /\ r2[k] \in Int /\ r3[k] \in Int
                       /\ r4[k] \in Int /\ new[k] \in Int
  BY <1>1 DEF Row
<1>4. \A k \in Kinds : /\ Present(r1, k) => Present(new, k)
                       /\ Present(r3, k) => Present(new, k)
                       /\ Present(r4, k) => Present(new, k)
  <2> HIDE DEF r1, r2, r3, r4, new
  <2> QED
    BY <1>2, <1>3 DEF Present
<1>5. R1(d, new) = new
  <2>1. ASSUME NEW k \in Basics(d, new)
        PROVE  \/ Present(new, k) \/ Refused(k)
               \/ k = "rice" /\ Present(new, "raw_rice")
    <3>1. k \in Basics(d, r) /\ k \in Kinds
      BY <2>1, SameBasics, Wanted DEF Kinds
    <3>2. \/ Present(r1, k) \/ Refused(k)
          \/ k = "rice" /\ Present(r, "raw_rice")
      BY <3>1, Filled, Wanted DEF R1
    <3>3. new["raw_rice"] = r["raw_rice"]
      BY Later, Dictionary DEF Kinds
    <3> HIDE DEF r1, new
    <3> QED
      BY <1>4, <3>1, <3>2, <3>3 DEF Present
  <2> QED
    BY <1>1, <2>1, NothingToFill DEF R1
<1>6. R2(d, new) = new
  <2>1. \A k \in Wet : new[k] = r1[k]
    <3>1. Wet \subseteq Kinds \ (Fats \cup {"water", "salt"})
      BY WetKinds DEF Wet, Fats
    <3> QED
      BY <1>2, <3>1
  <2>2. RequiredWater(d, new) = RequiredWater(d, r1)
    BY <2>1, SameWater
  <2>3. RequiredWater(d, r1) <= Amount(r2, "water")
    BY Chain
  <2>4. RequiredWater(d, new) \in Int
    BY <1>1, WaterIsInt
  <2> HIDE DEF r1, r2, r3, r4, new
  <2>5. /\ Amount(r2, "water") \in Int /\ Amount(new, "water") \in Int
        /\ Amount(r2, "water") <= Amount(new, "water")
    BY <1>1, <1>2, <1>3, Amounts, WetKinds
  <2>6. RequiredWater(d, new) - Amount(new, "water") <= 0
    BY <2>2, <2>3, <2>4, <2>5
  <2> QED
    BY <1>5, <2>6 DEF R2, WithWater
<1>7. R3(d, new) = new
  <2>1. \A k \in d.explicit \cap Fats : Present(r3, k) \/ Refused(k)
    <3>1. \A k \in d.explicit \cap Fats : k # "rice"
      BY DEF Fats
    <3> QED
      BY <1>1, <3>1, Filled, Wanted DEF R3
  <2>2. \A k \in d.explicit \cap Fats : Present(new, k) \/ Refused(k)
    BY <1>4, <2>1 DEF IsDish, Kinds
  <2> HIDE DEF new
  <2> QED
    BY <1>1, <1>6, <2>2, NothingToFill DEF R3
<1>8. R4(d, new) = new
  <2> SUFFICES ASSUME NEW k \in PanFat(d, new), ~Refused(k) PROVE FALSE
    <3> HIDE DEF new
    <3> QED
      BY <1>1, <1>7, NothingToFill DEF R4
  <2>1. k = "oil" /\ {"oil", "butter", "egg", "curry_sauce"} \subseteq Kinds
    BY Wanted, Dictionary DEF Kinds, Others
  <2>2. new["egg"] = r3["egg"] /\ new["curry_sauce"] = r3["curry_sauce"]
    BY <1>2, <2>1 DEF Fats
  <2>3. \A f \in {"oil", "butter"} : Present(r3, f) => Present(new, f)
    BY <1>4, <2>1
  <2>4. k \in PanFat(d, r3)
    <3> HIDE DEF r3, new
    <3> QED
      BY <2>1, <2>2, <2>3 DEF PanFat, CurryBase, Listed, Present
  <2>5. Present(r4, k)
    <3>1. PanFat(d, r3) \in SUBSET Keys
      BY Wanted, Dictionary
    <3> QED
      BY <1>1, <2>1, <2>4, <3>1, Filled DEF R4
  <2> QED
    BY <1>4, <2>1, <2>5 DEF PanFat
<1>9. R5(d, new) = new
  <2> SUFFICES ASSUME NEW k \in Seasoning(d, new), ~Refused(k) PROVE FALSE
    <3> HIDE DEF new
    <3> QED
      BY <1>1, <1>8, NothingToFill DEF R5
  <2>1. k = "salt" /\ {"salt", "doenjang"} \subseteq Kinds
    BY Wanted, Dictionary DEF Kinds
  <2>2. \A f \in Salty : Present(r4, f) => Present(new, f)
    BY <1>4, <2>1 DEF Salty
  <2>3. k \in Seasoning(d, r4)
    <3> HIDE DEF r4, new
    <3> QED
      BY <2>1, <2>2 DEF Seasoning
  <2>4. Present(new, k)
    <3>1. Seasoning(d, r4) \in SUBSET Keys
      BY Wanted, Dictionary
    <3> QED
      BY <1>1, <2>1, <2>3, <3>1, Filled DEF R5
  <2> QED
    BY <2>1, <2>4 DEF Seasoning, Salty
<1> QED
  BY <1>9

-----------------------------------------------------------------------------
(* The inductive invariant.                                                *)

(* The meals of an attempt are repaired lists of the book.                 *)
Drafted(m, left) ==
    /\ m.dish \in DOMAIN Book
    /\ m.rows = R5(Book[m.dish], Book[m.dish].rows)
    /\ LeftOut(Book[m.dish], Book[m.dish].rows) \subseteq left
DraftsOK == \A m \in ToSet(drafts) : Drafted(m, conflicts)

(* A new attempt is made in time and with nothing noted.                   *)
LoopOK ==
    /\ enabled \in BOOLEAN /\ attempt \in 0 .. MaxRetries /\ clock \in Nat
    /\ phase \in Phases
    /\ phase \in {"generate", "judge"} => verdict.warned = FALSE
    /\ phase = "generate" => clock < RetryBefore
    /\ ~enabled => clock = 0
    /\ AnswersInTime

IInv == DraftsOK /\ LoopOK

-----------------------------------------------------------------------------
(* What is generated are meals of the book with its lists, ...             *)
LEMMA UniquePlain ==
    ASSUME Cookable, NEW a \in Answers, NEW m \in ToSet(Unique(a))
    PROVE  Plain(m)
<1>1. PICK i \in DOMAIN a : m = a[i]
  BY DEF ToSet, Unique, Restrict
<1> QED
  BY <1>1 DEF Cookable

(* ... and so are the recipes.                                             *)
LEMMA MockPlain ==
    ASSUME Cookable, NEW m \in ToSet(Mock)
    PROVE  Plain(m)
<1>1. PICK i \in 1 .. Days * PerDay : m = Mock[i]
  BY DEF ToSet, Mock
<1>2. Days * PerDay \in Nat
  BY DEF Cookable
<1>3. ((i - 1) % Len(Bank)) + 1 \in 1 .. Len(Bank)
  <2>1. Len(Bank) \in Nat \ {0}
    BY DEF Cookable
  <2>2. \A j \in Nat, n \in Nat \ {0} : (j % n) + 1 \in 1 .. n
    OBVIOUS
  <2>3. i - 1 \in Nat
    BY <1>2
  <2> QED
    BY <2>1, <2>2, <2>3
<1>4. Bank[((i - 1) % Len(Bank)) + 1] \in DOMAIN Book
  BY <1>3 DEF Cookable
<1> QED
  BY <1>1, <1>4 DEF Mock, Plain

(* ... which the repair turns into what DraftsOK says.                     *)
LEMMA RepairedDrafted ==
    ASSUME NEW meals, \A m \in ToSet(meals) : Plain(m),
           NEW x \in ToSet(Repaired(meals))
    PROVE  Drafted(x, UNION {LeftOut(Book[m.dish], m.rows) :
                               m \in ToSet(meals)})
<1>1. PICK i \in DOMAIN meals :
         x = [meals[i] EXCEPT
                !.rows = Repair(Book[meals[i].dish], meals[i].rows)]
  BY DEF ToSet, Repaired
<1>2. PICK m \in ToSet(meals) : m = meals[i]
  BY DEF ToSet
<1>3. PICK day, type : \E d \in DOMAIN Book : m = Draft(day, type, d)
  BY <1>2 DEF Plain
<1>4. PICK d \in DOMAIN Book :
         m = [day |-> day, type |-> type, dish |-> d, rows |-> Book[d].rows]
  BY <1>3 DEF Draft
<1>5. /\ x.dish = m.dish /\ m.dish \in DOMAIN Book
      /\ m.rows = Book[m.dish].rows /\ x.rows = Repair(Book[m.dish], m.rows)
  BY <1>1, <1>2, <1>4
<1> QED
  BY <1>2, <1>5, RepairIs DEF Drafted

-----------------------------------------------------------------------------
(* At the start there are no drafts.                                       *)
LEMMA Start == ASSUME Timed, Init PROVE IInv
<1>1. DraftsOK
  BY DEF Init, DraftsOK, ToSet
<1>2. LoopOK
  BY DEF Init, Timed, LoopOK, Phases, Undecided, AnswersInTime
<1> QED
  BY <1>1, <1>2 DEF IInv

(* What is generated is repaired, and a call takes its time.               *)
LEMMA GenerateStep == ASSUME Cookable, Timed, IInv, Generate PROVE IInv'
<1>1. PICK meals \in {Mock} \cup
                      {Unique(a) : a \in IF enabled THEN Answers ELSE {}},
           took \in IF enabled THEN Durations ELSE {0} :
         /\ drafts' = Repaired(meals)
         /\ conflicts' = UNION {LeftOut(Book[m.dish], m.rows) :
                                   m \in ToSet(meals)}
         /\ clock' = clock + took
  BY DEF Generate
<1>2. \A m \in ToSet(meals) : Plain(m)
  BY <1>1, UniquePlain, MockPlain
<1>3. DraftsOK'
  BY <1>1, <1>2, RepairedDrafted DEF DraftsOK, Drafted
<1>4. /\ took \in Nat /\ took <= CallLimit /\ clock \in Nat
      /\ clock < RetryBefore /\ CallLimit \in Nat /\ RetryBefore \in Nat
      /\ ~enabled => took = 0 /\ clock = 0
  BY <1>1 DEF IInv, LoopOK, Timed, Generate
<1>5. clock' \in Nat /\ clock' < RetryBefore + CallLimit
  BY <1>1, <1>4
<1>6. ~enabled => clock' = 0
  BY <1>1, <1>4
<1>7. LoopOK'
  BY <1>5, <1>6 DEF IInv, LoopOK, Generate, Phases, AnswersInTime
<1> QED
  BY <1>3, <1>7 DEF IInv

(* Whoever is sent back has time, and nothing noted.                       *)
LEMMA JudgeStep == ASSUME Timed, IInv, Reject \/ Judge \/ Store PROVE IInv'
<1>1. DraftsOK'
  BY DEF IInv, DraftsOK, Drafted, Reject, Judge, Store
<1>2. attempt \in 0 .. MaxRetries /\ MaxRetries \in Nat /\ clock \in Nat
  BY DEF IInv, LoopOK, Timed
<1>3. LoopOK'
  <2>1. CASE Reject
    <3>1. attempt' \in 0 .. MaxRetries
      BY <1>2, <2>1 DEF Reject, Retryable
    <3> QED
      BY <2>1, <3>1
         DEF IInv, LoopOK, Reject, Retryable, TimeLeft, Phases, AnswersInTime
  <2>2. CASE Judge /\ phase' = "accepted"
    <3>1. attempt' = attempt
      BY <2>2 DEF Judge
    <3> QED
      BY <2>2, <3>1 DEF IInv, LoopOK, Judge, Phases, AnswersInTime
  <2>3. CASE Judge /\ phase' # "accepted"
    <3>1. /\ phase' = AfterOverBudget /\ phase' = "generate"
          /\ attempt' = attempt + 1
      BY <2>3 DEF Judge, AfterOverBudget
    <3>2. attempt # MaxRetries /\ enabled /\ TimeLeft
      BY <3>1 DEF AfterOverBudget
    <3>3. attempt < MaxRetries /\ attempt' \in 0 .. MaxRetries
      BY <1>2, <3>1, <3>2
    <3>4. Violations(drafts, conflicts) = {}
      BY <2>3, <3>2, <3>3 DEF Judge, Retryable
    <3>5. verdict'.warned =
            (verdict.warned \/ Violations(drafts, conflicts) # {})
      BY <2>3 DEF Judge
    <3>6. verdict.warned = FALSE
      BY <2>3 DEF Judge, IInv, LoopOK
    <3>7. verdict'.warned = FALSE
      BY <3>4, <3>5, <3>6
    <3> QED
      BY <2>3, <3>1, <3>2, <3>3, <3>7
         DEF IInv, LoopOK, Judge, TimeLeft, Phases, AnswersInTime
  <2>4. CASE Store
    BY <2>4 DEF IInv, LoopOK, Store, Phases, AnswersInTime
  <2> QED
    BY <2>1, <2>2, <2>3, <2>4
<1> QED
  BY <1>1, <1>3 DEF IInv

(* In every reachable state the drafts are repairs of dishes, and the loop *)
(* has time for the attempt it makes (_generate_within_budget).            *)
THEOREM Inductive == ASSUME Cookable, Timed PROVE Spec => []IInv
<1>1. Init => IInv
  BY Start
<1>2. IInv /\ [Next]_vars => IInv'
  <2>1. ASSUME IInv, Next PROVE IInv'
    BY <2>1, GenerateStep, JudgeStep DEF Next
  <2>2. ASSUME IInv, UNCHANGED vars PROVE IInv'
    BY <2>2 DEF vars, IInv, DraftsOK, Drafted, LoopOK, AnswersInTime
  <2> QED
    BY <2>1, <2>2
<1> QED
  BY <1>1, <1>2, PTL DEF Spec

-----------------------------------------------------------------------------
(* Repairing a repaired meal changes nothing, and no amount got smaller    *)
(* (repair_meal_ingredients).                                              *)
THEOREM RepairedOnce ==
    ASSUME Household, Cookable, Timed PROVE Spec => []RepairIsStable
<1>1. ASSUME IInv PROVE RepairIsStable
  <2> SUFFICES ASSUME NEW m \in ToSet(drafts)
               PROVE  /\ Repair(Book[m.dish], m.rows) = m.rows
                      /\ \A k \in DOMAIN m.rows :
                            m.rows[k] >= Book[m.dish].rows[k]
    BY DEF RepairIsStable
  <2> DEFINE d == Book[m.dish]
  <2>1. IsDish(d) /\ d.rows \in Row /\ m.rows = R5(d, d.rows)
    BY <1>1 DEF IInv, DraftsOK, Drafted, Cookable, IsDish
  <2> HIDE DEF d
  <2>2. Repair(d, m.rows) = m.rows
    BY <2>1, Stable, RepairIs
  <2>3. ASSUME NEW k \in Kinds PROVE m.rows[k] >= d.rows[k]
    <3>1. /\ R5(d, d.rows)[k] >= R4(d, d.rows)[k]
          /\ R4(d, d.rows)[k] >= R3(d, d.rows)[k]
          /\ R3(d, d.rows)[k] >= R2(d, d.rows)[k]
          /\ R2(d, d.rows)[k] >= R1(d, d.rows)[k]
          /\ R1(d, d.rows)[k] >= d.rows[k]
      BY <2>1, Later
    <3>2. /\ R5(d, d.rows)[k] \in Int /\ R4(d, d.rows)[k] \in Int
          /\ R3(d, d.rows)[k] \in Int /\ R2(d, d.rows)[k] \in Int
          /\ R1(d, d.rows)[k] \in Int /\ d.rows[k] \in Int
      BY <2>1, Chain DEF Row
    <3> QED
      BY <2>1, <3>1, <3>2
  <2>4. DOMAIN m.rows = Kinds
    BY <2>1, Chain DEF Row
  <2> QED
    BY <2>2, <2>3, <2>4 DEF d
<1> QED
  BY <1>1, Inductive, PTL

(* The repair adds nothing the user may not eat, at any of its stages, and *)
(* reports what it therefore left out (add() of repair_meal_ingredients).  *)
THEOREM Mindful ==
    ASSUME Household, Cookable, Timed PROVE Spec => []RepairMindsAllergies
<1>1. ASSUME IInv PROVE RepairMindsAllergies
  <2> SUFFICES ASSUME NEW m \in ToSet(drafts), NEW k \in Keys, Refused(k)
               PROVE  /\ m.rows[k] = Book[m.dish].rows[k]
                      /\ k \in Missing(m.rows, Basics(Book[m.dish], m.rows))
                            => k \in conflicts
    BY DEF RepairMindsAllergies
  <2> DEFINE d == Book[m.dish]
  <2>1. /\ IsDish(d) /\ d.rows \in Row /\ m.rows = R5(d, d.rows)
        /\ LeftOut(d, d.rows) \subseteq conflicts
    BY <1>1 DEF IInv, DraftsOK, Drafted, Cookable, IsDish
  <2> HIDE DEF d
  <2>2. k # "water" /\ k \in Kinds
    BY Dictionary DEF Kinds
  <2>3. m.rows[k] = d.rows[k]
    BY <2>1, <2>2, Later
  <2>4. m.rows["raw_rice"] = d.rows["raw_rice"]
    BY <2>1, Later, Dictionary DEF Kinds
  <2>5. ASSUME k \in Missing(m.rows, Basics(d, m.rows)) PROVE k \in conflicts
    <3>1. k \in Basics(d, d.rows)
      BY <2>1, <2>5, SameBasics DEF Missing
    <3>2. k \in Missing(d.rows, Basics(d, d.rows))
      BY <2>3, <2>4, <2>5, <3>1 DEF Missing, Present
    <3> QED
      BY <2>1, <3>2, LeftOutIs
  <2> QED
    BY <2>3, <2>5 DEF d
<1> QED
  BY <1>1, Inductive, PTL

(* The answer comes within the time budget and one call                    *)
(* (_generate_within_budget).                                              *)
THEOREM Timely == ASSUME Cookable, Timed PROVE Spec => []AnswersInTime
<1>1. IInv => AnswersInTime
  BY DEF IInv, LoopOK
<1> QED
  BY <1>1, Inductive, PTL

(* The status, the total and the allergy note tell of the meals that were  *)
(* accepted, however often it was tried (_generate_within_budget).         *)
THEOREM Truthful ==
    ASSUME Cookable, Timed PROVE Spec => []VerdictDescribesResult
<1> DEFINE V == VerdictDescribesResult
<1>1. Init => V
  BY DEF Init, VerdictDescribesResult
<1>2. IInv /\ V /\ [Next]_vars => V'
  <2> SUFFICES ASSUME IInv, V, [Next]_vars PROVE V'
    OBVIOUS
  <2>1. CASE Generate
    BY <2>1 DEF Generate, VerdictDescribesResult
  <2>2. CASE Reject
    BY <2>2 DEF Reject, VerdictDescribesResult
  <2>3. CASE Judge
    <3>1. UNCHANGED <<drafts, conflicts>> /\ verdict.warned = FALSE
      BY <2>3 DEF Judge, IInv, LoopOK
    <3>2. Price(drafts') = Price(drafts)
          /\ Violations(drafts', conflicts') = Violations(drafts, conflicts)
      BY <3>1
    <3>3. /\ verdict'.total = Price(drafts)
          /\ verdict'.status = IF Price(drafts) <= Limit THEN "ready"
                               ELSE "over_budget"
          /\ verdict'.warned =
               (verdict.warned \/ Violations(drafts, conflicts) # {})
      BY <2>3 DEF Judge
    <3> QED
      BY <3>1, <3>2, <3>3 DEF VerdictDescribesResult
  <2>4. CASE Store
    <3>1. UNCHANGED <<drafts, conflicts, verdict>> /\ phase = "accepted"
      BY <2>4 DEF Store
    <3>2. Price(drafts') = Price(drafts)
          /\ Violations(drafts', conflicts') = Violations(drafts, conflicts)
      BY <3>1
    <3> QED
      BY <3>1, <3>2 DEF VerdictDescribesResult
  <2>5. CASE UNCHANGED vars
    <3>1. UNCHANGED <<drafts, conflicts, verdict, phase>>
      BY <2>5 DEF vars
    <3>2. Price(drafts') = Price(drafts)
          /\ Violations(drafts', conflicts') = Violations(drafts, conflicts)
      BY <3>1
    <3> QED
      BY <3>1, <3>2 DEF VerdictDescribesResult
  <2> QED
    BY <2>1, <2>2, <2>3, <2>4, <2>5 DEF Next
<1> QED
  BY <1>1, <1>2, Inductive, PTL DEF Spec

-----------------------------------------------------------------------------
(* What a meal costs.                                                      *)

(* Prices are natural numbers, and answers finite.                         *)
Costed ==
    /\ \A k \in Kinds : UnitCost[k] \in Nat
    /\ \A a \in Answers : IsFiniteSet(DOMAIN a)

(* The dictionary is finite, ...                                           *)
LEMMA FiniteKinds == IsFiniteSet(Kinds)
<1> DEFINE list ==
      <<"curry", "doenjang", "oil", "sesame_oil", "butter", "water", "salt",
        "tofu", "spinach", "egg", "rice", "raw_rice", "curry_sauce", "broth",
        "pasta">>
<1>1. Kinds = {"curry", "doenjang", "oil", "sesame_oil", "butter", "water",
               "salt", "tofu", "spinach", "egg", "rice", "raw_rice",
               "curry_sauce", "broth", "pasta"}
  BY DEF Kinds, Keys, Others, PerPerson
<1>2. list \in Seq(Kinds) /\ Len(list) = 15
  BY <1>1
<1>3. /\ list[1] = "curry" /\ list[2] = "doenjang" /\ list[3] = "oil"
      /\ list[4] = "sesame_oil" /\ list[5] = "butter" /\ list[6] = "water"
      /\ list[7] = "salt" /\ list[8] = "tofu" /\ list[9] = "spinach"
      /\ list[10] = "egg" /\ list[11] = "rice" /\ list[12] = "raw_rice"
      /\ list[13] = "curry_sauce" /\ list[14] = "broth" /\ list[15] = "pasta"
  OBVIOUS
<1> HIDE DEF list
<1>4. \A k \in Kinds : \E n \in 1 .. Len(list) : list[n] = k
  BY <1>1, <1>2, <1>3
<1> QED
  BY <1>2, <1>4 DEF IsFiniteSet

(* ... and what meals cost is a natural number (_price).                   *)
LEMMA MealPrices ==
    ASSUME Costed, NEW meals, IsFiniteSet(DOMAIN meals),
           \A i \in DOMAIN meals : meals[i].rows \in Row
    PROVE  Price(meals) \in Nat
<1>1. ASSUME NEW rows \in Row
      PROVE  Cost(rows) \in Nat
  <2> DEFINE f == [k \in DOMAIN rows |-> Amount(rows, k) * UnitCost[k]]
  <2>1. DOMAIN rows = Kinds
    BY DEF Row
  <2>2. ASSUME NEW k \in Kinds PROVE f[k] \in Nat
    <3>1. Amount(rows, k) \in Nat /\ UnitCost[k] \in Nat
      BY Amounts DEF Costed
    <3>2. f[k] = Amount(rows, k) * UnitCost[k]
      BY <2>1
    <3>3. \A a, b \in Nat : a * b \in Nat
      OBVIOUS
    <3> HIDE DEF f
    <3> QED
      BY <3>1, <3>2, <3>3
  <2>3. DOMAIN f = Kinds /\ Cost(rows) = SumFunctionOnSet(f, DOMAIN f)
    BY <2>1 DEF Cost, SumFunction
  <2> HIDE DEF f
  <2>4. IsFiniteSet(Kinds) /\ Naturals(f, Kinds)
    BY <2>2, FiniteKinds DEF Naturals
  <2> QED
    BY <2>3, <2>4, SumOneOut
<1> DEFINE g == [i \in DOMAIN meals |-> Cost(meals[i].rows)]
<1>2. DOMAIN g = DOMAIN meals /\ Price(meals) = SumFunctionOnSet(g, DOMAIN g)
  BY DEF Price, SumFunction
<1>3. Naturals(g, DOMAIN meals)
  BY <1>1 DEF Naturals
<1> HIDE DEF g
<1> QED
  BY <1>2, <1>3, SumOneOut

(* What is left out is of the dictionary.                                  *)
LEMMA LeftOutKeys ==
    ASSUME NEW d, IsDish(d), NEW r
    PROVE  LeftOut(d, r) \subseteq Keys
<1>1. Stages(d, r) =
        <<<<r, Basics(d, r)>>, <<R2(d, r), d.explicit \cap Fats>>,
          <<R3(d, r), PanFat(d, R3(d, r))>>,
          <<R4(d, r), Seasoning(d, R4(d, r))>>>>
  BY DEF Stages, R1, R2, R3, R4
<1>2. /\ Basics(d, r) \subseteq Keys /\ d.explicit \cap Fats \subseteq Keys
      /\ PanFat(d, R3(d, r)) \subseteq Keys
      /\ Seasoning(d, R4(d, r)) \subseteq Keys
  BY Dictionary DEF IsDish, Basics, PanFat, Seasoning
<1>3. \A s \in ToSet(Stages(d, r)) : s[2] \subseteq Keys
  BY <1>1, <1>2 DEF ToSet
<1> QED
  BY <1>3 DEF LeftOut, Missing

-----------------------------------------------------------------------------
(* The types of the drafting.                                              *)

(* What is stored are the drafts on other days.                            *)
Listing(m) == m.dish \in DOMAIN Book /\ m.rows \in Row
VerdictOK ==
    /\ verdict.status \in Statuses /\ verdict.total \in Nat
    /\ verdict.warned \in BOOLEAN
TypeInv ==
    /\ IInv /\ IsFiniteSet(DOMAIN drafts) /\ VerdictOK
    /\ conflicts \subseteq Keys
    /\ \A m \in ToSet(stored) : Listing(m)

(* What the repair makes of a dish of the book is a list of amounts.       *)
LEMMA DraftsListed ==
    ASSUME Household, Cookable, DraftsOK
    PROVE  \A m \in ToSet(drafts) : Listing(m)
<1> SUFFICES ASSUME NEW m \in ToSet(drafts) PROVE Listing(m)
  OBVIOUS
<1>1. /\ m.dish \in DOMAIN Book /\ IsDish(Book[m.dish])
      /\ m.rows = R5(Book[m.dish], Book[m.dish].rows)
  BY DEF DraftsOK, Drafted, Cookable
<1>2. Book[m.dish].rows \in Row
  BY <1>1 DEF IsDish
<1> QED
  BY <1>1, <1>2, Chain DEF Listing

(* Every step keeps the types.                                             *)
LEMMA TypesStep ==
    ASSUME Household, Cookable, Timed, Costed, TypeInv, IInv', [Next]_vars
    PROVE  TypeInv'
<1> USE DEF TypeInv
<1>1. CASE Generate
  <2>1. PICK meals \in {Mock} \cup
                        {Unique(a) : a \in IF enabled THEN Answers ELSE {}} :
           /\ drafts' = Repaired(meals)
           /\ conflicts' = UNION {LeftOut(Book[m.dish], m.rows) :
                                     m \in ToSet(meals)}
    BY <1>1 DEF Generate
  <2>2. \A m \in ToSet(meals) : Plain(m)
    BY <2>1, UniquePlain, MockPlain
  <2>3. IsFiniteSet(DOMAIN meals)
    <3>1. CASE meals = Mock
      <4>1. DOMAIN meals = 1 .. Days * PerDay /\ Days * PerDay \in Nat
        BY <3>1 DEF Mock, Cookable
      <4> QED
        BY <4>1, FS_Interval
    <3>2. ASSUME NEW a \in Answers, meals = Unique(a)
          PROVE  IsFiniteSet(DOMAIN meals)
      <4>1. DOMAIN meals \subseteq DOMAIN a
        BY <3>2 DEF Unique, Restrict
      <4> QED
        BY <4>1, FS_Subset DEF Costed
    <3> QED
      BY <2>1, <3>1, <3>2
  <2>4. DOMAIN drafts' = DOMAIN meals
    BY <2>1 DEF Repaired
  <2>5. conflicts' \subseteq Keys
    <3>1. ASSUME NEW m \in ToSet(meals)
          PROVE  LeftOut(Book[m.dish], m.rows) \subseteq Keys
      <4>1. m.dish \in DOMAIN Book
        BY <2>2 DEF Plain, Draft
      <4> QED
        BY <4>1, LeftOutKeys DEF Cookable
    <3> QED
      BY <2>1, <3>1
  <2>6. UNCHANGED <<verdict, stored>>
    BY <1>1 DEF Generate
  <2> QED
    BY <2>3, <2>4, <2>5, <2>6 DEF VerdictOK
<1>2. CASE Reject
  <2>1. UNCHANGED <<drafts, conflicts, verdict, stored>>
    BY <1>2 DEF Reject
  <2> QED
    BY <2>1 DEF VerdictOK
<1>3. CASE Judge
  <2>1. UNCHANGED <<drafts, conflicts, stored>>
    BY <1>3 DEF Judge
  <2>2. /\ verdict'.status \in {"ready", "over_budget"}
        /\ verdict'.total = Price(drafts)
        /\ verdict'.warned =
             (verdict.warned \/ Violations(drafts, conflicts) # {})
    BY <1>3 DEF Judge
  <2>3. \A i \in DOMAIN drafts : drafts[i].rows \in Row
    BY DraftsListed DEF IInv, Listing, ToSet
  <2>4. Price(drafts) \in Nat
    BY <2>3, MealPrices
  <2> QED
    BY <2>1, <2>2, <2>4 DEF VerdictOK, Statuses
<1>4. CASE Store
  <2>1. UNCHANGED <<drafts, conflicts, verdict>>
    BY <1>4 DEF Store
  <2>2. ASSUME NEW m \in ToSet(stored') PROVE Listing(m)
    <3>1. PICK i \in DOMAIN drafts :
             m = [drafts[i] EXCEPT !.day = Clamp(drafts[i].day)]
      BY <1>4, <2>2 DEF Store, ToSet
    <3>2. PICK n \in ToSet(drafts) : n = drafts[i]
      BY DEF ToSet
    <3>3. Listing(n)
      BY DraftsListed DEF IInv
    <3>4. m.dish = n.dish /\ m.rows = n.rows
      BY <3>1, <3>2
    <3> QED
      BY <3>3, <3>4 DEF Listing
  <2> QED
    BY <2>1, <2>2 DEF VerdictOK
<1>5. CASE UNCHANGED vars
  <2>1. UNCHANGED <<drafts, conflicts, verdict, stored>>
    BY <1>5 DEF vars
  <2> QED
    BY <2>1 DEF VerdictOK
<1> QED
  BY <1>1, <1>2, <1>3, <1>4, <1>5 DEF Next

(* Every variable of the drafting keeps its type: however the repair fills *)
(* and the loop ends, amounts stay numbers and the total a natural one.    *)
THEOREM DraftingTypes ==
    ASSUME Household, Cookable, Timed, Costed PROVE Spec => []TypeOK
<1>1. Init => TypeInv
  <2> SUFFICES ASSUME Init PROVE TypeInv
    OBVIOUS
  <2>1. IInv
    BY Start
  <2>2. IsFiniteSet(DOMAIN drafts)
    <3>1. DOMAIN drafts = {}
      BY DEF Init
    <3> QED
      BY <3>1, FS_EmptySet
  <2> QED
    BY <2>1, <2>2 DEF Init, TypeInv, VerdictOK, Undecided, Statuses, ToSet
<1>2. TypeInv /\ IInv' /\ [Next]_vars => TypeInv'
  BY TypesStep
<1>3. TypeInv => TypeOK
  BY DraftsListed
     DEF TypeInv, TypeOK, IInv, LoopOK, VerdictOK, Listing, Row, Kinds
<1> QED
  BY <1>1, <1>2, <1>3, Inductive, PTL DEF Spec

-----------------------------------------------------------------------------
(* The fridge.                                                             *)

(* The bounds are numbers, and a meal's need can be met.                   *)
Stocked ==
    /\ MaxMeal \in Nat /\ MaxLot \in Nat /\ MaxCrashes \in Nat
    /\ Need \in Nat /\ MaxSupply \in Nat /\ Need <= MaxSupply

(* The sums of the fridge.                                                 *)
LEMMA FridgeSums ==
    /\ \A fun, set : F!SumFunctionOnSet(fun, set) = SumFunctionOnSet(fun, set)
    /\ \A fun : F!SumFunction(fun) = SumFunctionOnSet(fun, DOMAIN fun)
  BY DEF F!SumFunction, F!SumFunctionOnSet, F!FoldFunctionOnSet,
         F!MapThenFoldSet, SumFunctionOnSet, FoldFunctionOnSet, MapThenFoldSet

(* The larger and the smaller of two numbers there.                        *)
LEMMA FridgeBounds ==
    \A a, b \in Int :
      /\ F!Max({a, b}) = IF a >= b THEN a ELSE b
      /\ F!Min({a, b}) = IF a <= b THEN a ELSE b
<1> SUFFICES ASSUME NEW a \in Int, NEW b \in Int
    PROVE  /\ F!Max({a, b}) = IF a >= b THEN a ELSE b
           /\ F!Min({a, b}) = IF a <= b THEN a ELSE b
  OBVIOUS
<1>1. F!Max({a, b}) = Max({a, b})
  BY DEF F!Max, Max
<1>2. PICK m \in {a, b} : \A y \in {a, b} : m <= y
  OBVIOUS
<1>3. \A x \in {a, b} : (\A y \in {a, b} : x <= y) => x = m
  BY <1>2
<1>4. F!Min({a, b}) = m
  BY <1>2, <1>3 DEF F!Min
<1> QED
  BY <1>1, <1>2, <1>4, Larger

Reads == [F!Lots -> F!Amounts]

(* What one meal is given by the lots that were read: from each at most    *)
(* what is in it, and from all of them no more than it needs.              *)
LEMMA Taken ==
    ASSUME Stocked, NEW read \in Reads
    PROVE  /\ IsFiniteSet(F!Lots)
           /\ F!Take(read) \in [F!Lots -> F!Amounts]
           /\ \A l \in F!Lots : F!Take(read)[l] <= read[l]
           /\ F!Total(F!Take(read)) \in 0 .. Need
<1> DEFINE take == F!Take(read)
<1> DEFINE upto(n) == SumFunctionOnSet(read, 1 .. n)
<1>1. IsFiniteSet(F!Lots) /\ Naturals(read, F!Lots)
  <2>1. IsFiniteSet(F!Lots)
    BY FS_Interval DEF Stocked, F!Lots
  <2>2. Naturals(read, F!Lots)
    BY DEF Stocked, Reads, Naturals, F!Amounts
  <2> QED
    BY <2>1, <2>2
<1>2. ASSUME NEW l \in F!Lots
      PROVE  /\ upto(l - 1) \in Nat
             /\ take[l] = IF Need <= upto(l - 1) THEN 0
                          ELSE IF read[l] <= Need - upto(l - 1) THEN read[l]
                          ELSE Need - upto(l - 1)
             /\ take[l] \in Nat /\ take[l] <= read[l]
             /\ upto(l) = upto(l - 1) + read[l]
  <2>1. l \in Nat /\ 1 .. l - 1 \in SUBSET F!Lots /\ 1 .. l \in SUBSET F!Lots
        /\ l \in 1 .. l /\ (1 .. l) \ {l} = 1 .. l - 1
    BY DEF Stocked, F!Lots
  <2>2. upto(l - 1) \in Nat
    BY <1>1, <2>1, SumOneOut
  <2>3. upto(l) = read[l] + upto(l - 1)
    BY <1>1, <2>1, SumOneOut
  <2>4. read[l] \in Nat /\ Need \in Nat
    BY <1>1 DEF Naturals, Stocked
  <2> HIDE DEF upto
  <2>5. take[l] = F!Min({read[l], F!Max({Need - upto(l - 1), 0})})
    <3>1. F!Before(read, l) = upto(l - 1)
      BY FridgeSums DEF F!Before, upto
    <3>2. take[l] = F!Min({read[l], F!Max({Need - F!Before(read, l), 0})})
      BY DEF F!Take
    <3> QED
      BY <3>1, <3>2
  <2>6. F!Max({Need - upto(l - 1), 0}) =
          IF Need <= upto(l - 1) THEN 0 ELSE Need - upto(l - 1)
    BY <2>2, <2>4, FridgeBounds
  <2>7. F!Max({Need - upto(l - 1), 0}) \in Nat
    BY <2>2, <2>4, <2>6
  <2>8. take[l] = IF read[l] <= F!Max({Need - upto(l - 1), 0}) THEN read[l]
                  ELSE F!Max({Need - upto(l - 1), 0})
    <3> DEFINE more == F!Max({Need - upto(l - 1), 0})
    <3> HIDE DEF more
    <3>1. read[l] \in Int /\ more \in Int
      BY <2>4, <2>7 DEF more
    <3>2. F!Min({read[l], more}) = IF read[l] <= more THEN read[l] ELSE more
      BY <3>1, FridgeBounds
    <3> QED
      BY <3>2, <2>5 DEF more
  <2> HIDE DEF take
  <2> QED
    BY <2>2, <2>3, <2>4, <2>6, <2>8
<1>3. take \in [F!Lots -> F!Amounts] /\ Naturals(take, F!Lots)
  <2>1. take = [l \in F!Lots |-> take[l]]
    BY DEF F!Take
  <2>2. \A l \in F!Lots : read[l] \in 0 .. MaxSupply
    BY DEF Reads, F!Amounts
  <2> HIDE DEF take, upto
  <2>3. \A l \in F!Lots : take[l] \in F!Amounts /\ take[l] \in Nat
    BY <1>2, <2>2 DEF Stocked, F!Amounts
  <2> QED
    BY <2>1, <2>3 DEF Naturals
<1> HIDE DEF take, upto
(* The first lots give the smaller of what is in them and of the need.     *)
<1>4. \A n \in 0 .. MaxLot :
        SumFunctionOnSet(take, 1 .. n) =
          IF upto(n) <= Need THEN upto(n) ELSE Need
  <2> DEFINE wrong == {1 .. n : n \in {k \in 0 .. MaxLot :
                SumFunctionOnSet(take, 1 .. k) #
                  IF upto(k) <= Need THEN upto(k) ELSE Need}}
  <2>1. SUFFICES ASSUME wrong # {}
                 PROVE  FALSE
    OBVIOUS
  <2>2. wrong \subseteq SUBSET F!Lots
    BY DEF F!Lots, Stocked
  <2>3. PICK T \in wrong : \A x \in T : T \ {x} \notin wrong
    <3> HIDE DEF wrong
    <3> QED BY <1>1, <2>1, <2>2, Smallest
  <2>4. PICK n \in 0 .. MaxLot :
          /\ T = 1 .. n
          /\ SumFunctionOnSet(take, 1 .. n) #
                IF upto(n) <= Need THEN upto(n) ELSE Need
    BY <2>3
  <2>5. n # 0
    <3>1. SumFunctionOnSet(take, {}) = 0 /\ SumFunctionOnSet(read, {}) = 0
      BY <1>1, <1>3, SumOneOut
    <3>2. 1 .. 0 = {}
      OBVIOUS
    <3> QED
      BY <3>1, <3>2, <2>4 DEF upto, Stocked
  <2>6. n \in F!Lots /\ n \in 1 .. n /\ (1 .. n) \ {n} = 1 .. n - 1
        /\ n - 1 \in 0 .. MaxLot /\ 1 .. n \in SUBSET F!Lots
    BY <2>5 DEF F!Lots, Stocked
  <2>7. SumFunctionOnSet(take, 1 .. n - 1) =
          IF upto(n - 1) <= Need THEN upto(n - 1) ELSE Need
    BY <2>3, <2>4, <2>6
  <2>8. SumFunctionOnSet(take, 1 .. n) =
          take[n] + SumFunctionOnSet(take, 1 .. n - 1)
    BY <1>1, <1>3, <2>6, SumOneOut
  <2>9. read[n] \in Nat /\ Need \in Nat
    BY <1>1, <2>6 DEF Naturals, Stocked
  <2> HIDE DEF wrong
  <2> QED
    BY <1>2, <2>4, <2>6, <2>7, <2>8, <2>9
<1>5. F!Total(take) = IF upto(MaxLot) <= Need THEN upto(MaxLot) ELSE Need
  BY <1>4, FridgeSums DEF F!Total, F!Lots, Stocked
<1>6. upto(MaxLot) \in Nat
  BY <1>1, SumOneOut DEF upto, F!Lots
<1> QED
  BY <1>1, <1>2, <1>3, <1>5, <1>6 DEF take, Stocked

(* What a session starts from.                                             *)
LEMMA FridgeIdle ==
    ASSUME Stocked
    PROVE  /\ F!Idle \in F!Session /\ F!NoRow \in F!LotRow
           /\ [present |-> FALSE, completed |-> FALSE, snap |-> F!Null]
                \in F!MealRow
           /\ [present |-> TRUE, completed |-> FALSE, snap |-> F!Null]
                \in F!MealRow
  BY DEF Stocked, F!Idle, F!Session, F!NoRow, F!LotRow, F!MealRow, F!NoMeal,
         F!Null, F!Amounts

(* The types hold at the start ...                                         *)
LEMMA FridgeTypeStart ==
    ASSUME Stocked, F!Init
    PROVE  F!TypeOK
  BY FridgeIdle DEF Stocked, F!Init, F!TypeOK, F!Amounts

(* Each operation on the rows and each step of a request keeps the types.  *)
LEMMA FridgeTypeStep ==
    ASSUME Stocked, F!TypeOK, [F!Next]_(F!vars)
    PROVE  F!TypeOK'
<1> USE DEF F!TypeOK
<1>1. /\ F!Idle \in F!Session /\ F!NoRow \in F!LotRow
      /\ [present |-> FALSE, completed |-> FALSE, snap |-> F!Null]
           \in F!MealRow
  BY FridgeIdle
<1>2. ASSUME NEW l \in F!Lots, NEW q \in F!Amounts \ {0}, NEW d \in BOOLEAN,
             F!AddItem(l, q, d)
      PROVE  F!TypeOK'
  <2>1. [qty |-> q, delivered |-> d] \in F!LotRow
    BY DEF F!LotRow
  <2>2. supplied' \in F!Amounts
    BY <1>2 DEF F!AddItem, F!Amounts, Stocked
  <2> QED
    BY <1>2, <2>1, <2>2 DEF F!AddItem
<1>3. ASSUME NEW l \in F!Lots, NEW q \in F!Amounts \ {0},
             F!UpdateQuantity(l, q)
      PROVE  F!TypeOK'
  <2>1. [lot[l] EXCEPT !.qty = q] \in F!LotRow
    BY DEF F!LotRow
  <2>2. lot' = [lot EXCEPT ![l] = [lot[l] EXCEPT !.qty = q]]
    BY <1>3 DEF F!UpdateQuantity
  <2>3. supplied' \in F!Amounts
    <3>1. lot[l].qty \in Nat /\ q \in Nat /\ supplied \in Nat
      BY DEF F!LotRow, F!Amounts, Stocked
    <3>2. F!Max({q - lot[l].qty, 0}) \in Nat
      BY <3>1, FridgeBounds
    <3> QED
      BY <1>3, <3>1, <3>2 DEF F!UpdateQuantity, F!Amounts, Stocked
  <2> QED
    BY <1>3, <2>1, <2>2, <2>3 DEF F!UpdateQuantity
<1>4. ASSUME NEW l \in F!Lots, F!DeleteItem(l)
      PROVE  F!TypeOK'
  BY <1>1, <1>4 DEF F!DeleteItem
<1>5. CASE F!DeleteDelivery
  BY <1>1, <1>5 DEF F!DeleteDelivery
<1>6. ASSUME NEW m \in F!Meals, F!ReplaceMeal(m)
      PROVE  F!TypeOK'
  BY <1>1, <1>6 DEF F!ReplaceMeal
<1>7. ASSUME NEW r \in Requests, NEW m \in F!Meals, NEW want \in BOOLEAN,
             F!LoadMeal(r, m, want)
      PROVE  F!TypeOK'
  <2> DEFINE new == [F!Idle EXCEPT !.at = "loaded", !.meal = m, !.want = want,
                                   !.was = meal[m].completed,
                                   !.snap = meal[m].snap]
  <2>1. new \in F!Session
    BY <1>1 DEF F!Session, F!MealRow
  <2>2. req' = [req EXCEPT ![r] = new]
    BY <1>7 DEF F!LoadMeal
  <2> HIDE DEF new
  <2> QED
    BY <1>7, <2>1, <2>2 DEF F!LoadMeal
<1>8. ASSUME NEW r \in Requests, F!StartDeduct(r)
      PROVE  F!TypeOK'
  <2> DEFINE new == [F!Idle EXCEPT !.at = "loaded", !.want = TRUE]
  <2>1. new \in F!Session
    BY <1>1 DEF F!Session
  <2>2. req' = [req EXCEPT ![r] = new]
    BY <1>8 DEF F!StartDeduct
  <2> HIDE DEF new
  <2> QED
    BY <1>8, <2>1, <2>2 DEF F!StartDeduct
<1>9. ASSUME NEW r \in Requests, F!RowGone(r)
      PROVE  F!TypeOK'
  BY <1>1, <1>9 DEF F!RowGone
<1>10. ASSUME NEW r \in Requests, F!SelectLots(r)
       PROVE  F!TypeOK'
  <2> DEFINE new == [req[r] EXCEPT !.at = "selected",
                                   !.read = [l \in F!Lots |-> lot[l].qty]]
  <2>1. new \in F!Session
    <3>1. [l \in F!Lots |-> lot[l].qty] \in [F!Lots -> F!Amounts]
      BY DEF F!LotRow
    <3> QED
      BY <3>1 DEF F!Session
  <2>2. req' = [req EXCEPT ![r] = new]
    BY <1>10 DEF F!SelectLots
  <2> HIDE DEF new
  <2> QED
    BY <1>10, <2>1, <2>2 DEF F!SelectLots
<1>11. ASSUME NEW r \in Requests, F!CommitDeduct(r)
       PROVE  F!TypeOK'
  <2> DEFINE read == req[r].read
  <2> DEFINE take == F!Take(read)
  <2> DEFINE written == {l \in F!Lots : take[l] > 0}
  <2> DEFINE rest == [l \in F!Lots |->
                        IF l \notin written THEN lot[l]
                        ELSE IF take[l] = read[l] THEN F!NoRow
                        ELSE [lot[l] EXCEPT !.qty = read[l] - take[l]]]
  <2> DEFINE new == [F!Idle EXCEPT !.at = "deducted", !.meal = req[r].meal,
                                   !.taken = F!Total(take)]
  <2>1. read \in Reads
    BY DEF F!Session, Reads
  <2>2. /\ take \in [F!Lots -> F!Amounts]
        /\ \A l \in F!Lots : take[l] <= read[l]
        /\ F!Total(take) \in 0 .. Need
    <3> HIDE DEF read
    <3> QED
      BY <2>1, Taken
  <2> HIDE DEF take
  <2>3. rest \in [F!Lots -> F!LotRow]
    <3>1. ASSUME NEW l \in F!Lots
          PROVE  [lot[l] EXCEPT !.qty = read[l] - take[l]] \in F!LotRow
      <4>1. read[l] - take[l] \in F!Amounts
        BY <2>1, <2>2 DEF Reads, F!Amounts, Stocked
      <4> QED
        BY <4>1 DEF F!LotRow
    <3> QED
      BY <1>1, <3>1
  <2>4. new \in F!Session
    BY <1>1, <2>2 DEF F!Session
  <2>5. /\ lot' \in {lot, rest}
        /\ req' = [req EXCEPT ![r] = F!Idle] \/ req' = [req EXCEPT ![r] = new]
        /\ \/ meal' = meal
           \/ /\ req[r].meal # F!NoMeal
              /\ meal' = [meal EXCEPT ![req[r].meal].completed = TRUE]
        /\ UNCHANGED <<supplied, crashes>>
    BY <1>11 DEF F!CommitDeduct, take
  <2>6. lot' \in [F!Lots -> F!LotRow]
    BY <2>3, <2>5
  <2>7. req' \in [Requests -> F!Session]
    <3> HIDE DEF new
    <3> QED
      BY <1>1, <2>4, <2>5
  <2>8. meal' \in [F!Meals -> F!MealRow]
    <3>1. \A m \in F!Meals : [meal[m] EXCEPT !.completed = TRUE] \in F!MealRow
      BY DEF F!MealRow
    <3> QED
      BY <2>5, <3>1
  <2> QED
    BY <2>5, <2>6, <2>7, <2>8
<1>12. ASSUME NEW r \in Requests, F!CommitSnapshot(r)
       PROVE  F!TypeOK'
  <2>1. req[r].meal \in F!Meals /\ req[r].taken \in 0 .. Need
    BY <1>12 DEF F!CommitSnapshot, F!Reachable, F!Session
  <2>2. \A m \in F!Meals :
          [meal[m] EXCEPT !.snap = req[r].taken] \in F!MealRow
    BY <2>1 DEF F!MealRow, F!Null, Stocked
  <2>3. meal' \in [F!Meals -> F!MealRow]
    BY <1>12, <2>2 DEF F!CommitSnapshot
  <2> QED
    BY <1>1, <1>12, <2>3 DEF F!CommitSnapshot
<1>13. ASSUME NEW r \in Requests, F!CompleteAgain(r)
       PROVE  F!TypeOK'
  <2>1. \A m \in F!Meals : [meal[m] EXCEPT !.completed = TRUE] \in F!MealRow
    BY DEF F!MealRow
  <2>2. meal' \in [F!Meals -> F!MealRow]
    BY <1>13, <2>1 DEF F!CompleteAgain
  <2> QED
    BY <1>1, <1>13, <2>2 DEF F!CompleteAgain
<1>14. ASSUME NEW r \in Requests, F!Uncomplete(r)
       PROVE  F!TypeOK'
  <2>1. F!Restore(r) \in 0 .. Need
    <3>1. req[r].snap \in -1 .. Need
      BY DEF F!Session, F!Null
    <3> QED
      BY <3>1, FridgeBounds DEF F!Restore, Stocked
  <2>2. [F!NoRow EXCEPT !.qty = F!Restore(r)] \in F!LotRow
    <3>1. F!Restore(r) \in F!Amounts
      BY <2>1 DEF F!Amounts, Stocked
    <3> QED
      BY <1>1, <3>1 DEF F!LotRow
  <2>3. lot' \in [F!Lots -> F!LotRow]
    BY <1>14, <2>2 DEF F!Uncomplete
  <2>4. meal' \in [F!Meals -> F!MealRow]
    <3> DEFINE m == req[r].meal
    <3> DEFINE kept == IF req[r].snap = F!Null THEN meal[m].snap ELSE F!Null
    <3> DEFINE new == [meal[m] EXCEPT !.completed = FALSE, !.snap = kept]
    <3>1. m \in F!Meals
      BY <1>14 DEF F!Uncomplete, F!Reachable
    <3>2. new \in F!MealRow
      <4>1. kept \in F!Null .. Need
        BY <3>1 DEF F!MealRow, F!Null, Stocked
      <4> HIDE DEF kept
      <4> QED
        BY <3>1, <4>1 DEF F!MealRow
    <3>3. meal' = [meal EXCEPT ![m] = new]
      BY <1>14, <3>1 DEF F!Uncomplete
    <3> HIDE DEF new
    <3> QED
      BY <3>2, <3>3
  <2> QED
    BY <1>1, <1>14, <2>3, <2>4 DEF F!Uncomplete
<1>15. ASSUME NEW r \in Requests, F!UncompleteAgain(r)
       PROVE  F!TypeOK'
  BY <1>1, <1>15 DEF F!UncompleteAgain
<1>16. CASE F!Crash
  BY <1>1, <1>16 DEF F!Crash, Stocked
<1>17. CASE UNCHANGED F!vars
  BY <1>17 DEF F!vars
<1> QED
  BY <1>2, <1>3, <1>4, <1>5, <1>6, <1>7, <1>8, <1>9, <1>10, <1>11, <1>12,
     <1>13, <1>14, <1>15, <1>16, <1>17 DEF F!Next

(* Every variable of the fridge keeps its type, however many requests.     *)
THEOREM FridgeTypes == ASSUME Stocked PROVE F!Spec => []F!TypeOK
<1> QED
  BY FridgeTypeStart, FridgeTypeStep, PTL DEF F!Spec

-----------------------------------------------------------------------------
(* A lot counts with what a session has read of it, until that session     *)
(* writes: it may be used up, or changed, in between.                      *)
Claim(rows, read) ==
    [l \in F!Lots |-> IF read[l] > rows[l].qty THEN read[l] ELSE rows[l].qty]
Claimed(rows, read) == SumFunctionOnSet(Claim(rows, read), F!Lots)
Kept(meals) ==
    [m \in F!Meals |-> IF meals[m].snap > 0 THEN meals[m].snap ELSE 0]
Noted(meals) == SumFunctionOnSet(Kept(meals), F!Meals)

(* What a session remembers of the meal it loaded is still so.             *)
Sound(meals, session) ==
    /\ session.at # "selected" => \A l \in F!Lots : session.read[l] = 0
    /\ session.at # "deducted" => session.taken = 0
    /\ (/\ session.at = "loaded" /\ session.meal # F!NoMeal
        /\ meals[session.meal].present) =>
          session.snap = meals[session.meal].snap
Backed(rows, meals, session, total) ==
    Claimed(rows, session.read) + Noted(meals) + session.taken <= total
FridgeInv(r) ==
    /\ F!TypeOK
    /\ Sound(meal, req[r])
    /\ Backed(lot, meal, req[r], supplied)

LotRows == [F!Lots -> F!LotRow]
MealRows == [F!Meals -> F!MealRow]

(* They are sums of natural numbers.                                       *)
LEMMA Claims ==
    ASSUME Stocked, NEW rows \in LotRows, NEW read \in Reads
    PROVE  /\ IsFiniteSet(F!Lots) /\ Naturals(Claim(rows, read), F!Lots)
           /\ Claimed(rows, read) \in Nat
           /\ \A l \in F!Lots : /\ rows[l].qty \in Nat /\ read[l] \in Nat
                                 /\ Claim(rows, read)[l] =
                                      IF read[l] > rows[l].qty THEN read[l]
                                      ELSE rows[l].qty
<1>1. \A l \in F!Lots : rows[l].qty \in Nat /\ read[l] \in Nat
  BY DEF LotRows, F!LotRow, F!Amounts, Reads, Stocked
<1>2. IsFiniteSet(F!Lots)
  BY FS_Interval DEF F!Lots, Stocked
<1>3. Naturals(Claim(rows, read), F!Lots)
  BY <1>1 DEF Naturals, Claim
<1> QED
  BY <1>1, <1>2, <1>3, SumOneOut DEF Claimed, Claim

(* So is what meals could give back.                                       *)
LEMMA Notes ==
    ASSUME Stocked, NEW meals \in MealRows
    PROVE  /\ IsFiniteSet(F!Meals) /\ Naturals(Kept(meals), F!Meals)
           /\ Noted(meals) \in Nat
           /\ \A m \in F!Meals : meals[m].snap \in Int
<1>1. \A m \in F!Meals : meals[m].snap \in Int
  BY DEF MealRows, F!MealRow, F!Null, Stocked
<1>2. IsFiniteSet(F!Meals)
  BY FS_Interval DEF F!Meals, Stocked
<1>3. Naturals(Kept(meals), F!Meals)
  BY <1>1 DEF Naturals, Kept
<1> QED
  BY <1>1, <1>2, <1>3, SumOneOut DEF Noted

(* Nothing grew.                                                           *)
LEMMA ClaimsLess ==
    ASSUME Stocked, NEW rows \in LotRows, NEW read \in Reads,
           NEW new \in LotRows, NEW again \in Reads,
           \A l \in F!Lots : Claim(new, again)[l] <= Claim(rows, read)[l]
    PROVE  Claimed(new, again) <= Claimed(rows, read)
<1>1. F!Lots \in SUBSET F!Lots
  OBVIOUS
<1> QED
  BY <1>1, Claims, SumMonotonic DEF Claimed

(* One lot changed.                                                        *)
LEMMA ClaimsChange ==
    ASSUME Stocked, NEW rows \in LotRows, NEW read \in Reads,
           NEW new \in LotRows, NEW again \in Reads, NEW l \in F!Lots,
           \A k \in F!Lots \ {l} : Claim(new, again)[k] <= Claim(rows, read)[k]
    PROVE  Claimed(new, again) + Claim(rows, read)[l] <=
             Claimed(rows, read) + Claim(new, again)[l]
  BY Claims, SumChange DEF Claimed

(* One meal's note changed.                                                *)
LEMMA NotesChange ==
    ASSUME Stocked, NEW meals \in MealRows, NEW new \in MealRows,
           NEW m \in F!Meals,
           \A k \in F!Meals \ {m} : new[k].snap = meals[k].snap
    PROVE  Noted(new) + Kept(meals)[m] <= Noted(meals) + Kept(new)[m]
<1>1. \A k \in F!Meals \ {m} : Kept(new)[k] <= Kept(meals)[k]
  <2>1. \A k \in F!Meals : Kept(meals)[k] \in Nat
    BY Notes DEF Naturals
  <2>2. \A k \in F!Meals \ {m} : Kept(new)[k] = Kept(meals)[k]
    BY DEF Kept
  <2> QED
    BY <2>1, <2>2
<1> QED
  BY <1>1, Notes, SumChange DEF Noted

(* What a deduction takes and what it leaves were there.                   *)
LEMMA Deducted ==
    ASSUME Stocked, NEW rows \in LotRows, NEW read \in Reads,
           NEW new \in LotRows, NEW none \in Reads,
           \A l \in F!Lots : none[l] = 0,
           \A l \in F!Lots : \/ F!Take(read)[l] = 0 /\ new[l] = rows[l]
                             \/ new[l].qty = read[l] - F!Take(read)[l]
    PROVE  Claimed(new, none) + F!Total(F!Take(read)) <= Claimed(rows, read)
<1> DEFINE take == F!Take(read)
<1> DEFINE both == [l \in F!Lots |-> Claim(new, none)[l] + take[l]]
<1>1. /\ IsFiniteSet(F!Lots) /\ Naturals(take, F!Lots)
      /\ \A l \in F!Lots : take[l] \in Nat /\ take[l] <= read[l]
  BY Taken DEF Naturals, F!Amounts, Stocked
<1> HIDE DEF take
<1>2. Naturals(Claim(new, none), F!Lots) /\ Naturals(Claim(rows, read), F!Lots)
  BY Claims
<1>3. SumFunctionOnSet(both, F!Lots) =
        SumFunctionOnSet(Claim(new, none), F!Lots)
          + SumFunctionOnSet(take, F!Lots)
  BY <1>1, <1>2, SumAdds
<1>4. ASSUME NEW l \in F!Lots
      PROVE  both[l] \in Nat /\ both[l] <= Claim(rows, read)[l]
  <2>1. /\ Claim(new, none)[l] = new[l].qty /\ new[l].qty \in Nat
        /\ rows[l].qty \in Nat /\ read[l] \in Nat
        /\ Claim(rows, read)[l] = IF read[l] > rows[l].qty THEN read[l]
                                  ELSE rows[l].qty
    BY Claims
  <2>2. \/ take[l] = 0 /\ new[l].qty = rows[l].qty
        \/ new[l].qty = read[l] - take[l]
    BY DEF take
  <2>3. both[l] = new[l].qty + take[l]
    BY <2>1
  <2> QED
    BY <1>1, <2>1, <2>2, <2>3
<1>5. Naturals(both, F!Lots) /\ F!Lots \in SUBSET F!Lots
  BY <1>4 DEF Naturals
<1> HIDE DEF both
<1>6. SumFunctionOnSet(both, F!Lots) <=
        SumFunctionOnSet(Claim(rows, read), F!Lots)
  BY <1>1, <1>2, <1>4, <1>5, SumMonotonic
<1> QED
  BY <1>3, <1>6, FridgeSums DEF Claimed, F!Total, take

(* At the start the fridge and its sessions are empty.                     *)
LEMMA FridgeStart ==
    ASSUME Stocked, NEW r, Requests = {r}, F!Init
    PROVE  FridgeInv(r)
<1>1. F!TypeOK
  BY FridgeTypeStart
<1>2. req[r] = F!Idle /\ F!Idle.read \in Reads
  BY FridgeIdle DEF F!Init, F!Session, Reads
<1>3. Sound(meal, req[r])
  BY <1>2 DEF Sound, F!Idle
<1>4. Backed(lot, meal, req[r], supplied)
  <2>1. lot \in LotRows /\ meal \in MealRows
    BY <1>1 DEF F!TypeOK, LotRows, MealRows
  <2>2. \A l \in F!Lots : Claim(lot, F!Idle.read)[l] = 0
    BY DEF Claim, F!Idle, F!Init, F!NoRow
  <2>3. \A m \in F!Meals : Kept(meal)[m] = 0
    BY DEF Kept, F!Init, F!Null
  <2>4. Claimed(lot, F!Idle.read) = 0
    BY <1>2, <2>1, <2>2, Claims, SumZero DEF Claimed
  <2>5. Noted(meal) = 0
    BY <2>1, <2>3, Notes, SumZero DEF Noted
  <2> QED
    BY <1>2, <2>4, <2>5 DEF Backed, F!Init, F!Idle
<1> QED
  BY <1>1, <1>3, <1>4 DEF FridgeInv

(* A user or a delivery puts in what is added and no more.                 *)
LEMMA FridgeItems ==
    ASSUME Stocked, NEW r, Requests = {r}, FridgeInv(r), F!TypeOK',
           NEW l \in F!Lots,
           \/ \E q \in F!Amounts \ {0}, d \in BOOLEAN : F!AddItem(l, q, d)
           \/ \E q \in F!Amounts \ {0} : F!UpdateQuantity(l, q)
           \/ F!DeleteItem(l)
           \/ F!DeleteDelivery
    PROVE  Sound(meal', req'[r]) /\ Backed(lot', meal', req'[r], supplied')
<1> DEFINE read == req[r].read
<1>1. /\ lot \in LotRows /\ lot' \in LotRows /\ read \in Reads
      /\ meal \in MealRows /\ supplied \in Nat /\ supplied' \in Nat
      /\ req[r].taken \in Nat
  BY DEF FridgeInv, F!TypeOK, F!Session, LotRows, MealRows, Reads, F!Amounts,
         Stocked
<1>2. meal' = meal /\ req' = req
  BY DEF F!AddItem, F!UpdateQuantity, F!DeleteItem, F!DeleteDelivery
<1>3. Sound(meal', req'[r])
  BY <1>2 DEF FridgeInv
<1>4. Claimed(lot, read) + Noted(meal) + req[r].taken <= supplied
  BY DEF FridgeInv, Backed
<1> HIDE DEF read
<1>5. /\ Claimed(lot, read) \in Nat /\ Claimed(lot', read) \in Nat
      /\ Noted(meal) \in Nat
  BY <1>1, Claims, Notes
<1>6. Claimed(lot', read) + supplied <= Claimed(lot, read) + supplied'
  <2>1. ASSUME NEW q \in F!Amounts \ {0}, NEW d \in BOOLEAN, F!AddItem(l, q, d)
        PROVE  Claimed(lot', read) + supplied <= Claimed(lot, read) + supplied'
    <3>1. /\ lot[l].qty = 0 /\ read[l] = 0 /\ lot'[l].qty = q /\ q \in Nat
          /\ supplied' = supplied + q
          /\ \A k \in F!Lots \ {l} : lot'[k] = lot[k]
      BY <1>1, <2>1 DEF F!AddItem, F!Free, LotRows, read, F!Amounts, Stocked
    <3>2. \A k \in F!Lots \ {l} : Claim(lot', read)[k] <= Claim(lot, read)[k]
      <4>1. \A k \in F!Lots : Claim(lot, read)[k] \in Nat
        BY <1>1, Claims DEF Naturals
      <4>2. \A k \in F!Lots \ {l} : Claim(lot', read)[k] = Claim(lot, read)[k]
        BY <3>1 DEF Claim
      <4> QED
        BY <4>1, <4>2
    <3>3. Claim(lot, read)[l] = 0 /\ Claim(lot', read)[l] = q
      BY <1>1, <3>1, Claims
    <3>4. Claimed(lot', read) + Claim(lot, read)[l] <=
            Claimed(lot, read) + Claim(lot', read)[l]
      BY <1>1, <3>2, ClaimsChange
    <3> QED
      BY <1>1, <1>5, <3>1, <3>3, <3>4
  <2>2. ASSUME NEW q \in F!Amounts \ {0}, F!UpdateQuantity(l, q)
        PROVE  Claimed(lot', read) + supplied <= Claimed(lot, read) + supplied'
    <3>1. /\ lot'[l].qty = q /\ q \in Nat
          /\ lot[l].qty \in Nat /\ read[l] \in Nat
          /\ supplied' = supplied + F!Max({q - lot[l].qty, 0})
          /\ \A k \in F!Lots \ {l} : lot'[k] = lot[k]
      BY <1>1, <2>2, Claims DEF F!UpdateQuantity, LotRows, F!LotRow, F!Amounts,
         Stocked
    <3>2. \A k \in F!Lots \ {l} : Claim(lot', read)[k] <= Claim(lot, read)[k]
      <4>1. \A k \in F!Lots : Claim(lot, read)[k] \in Nat
        BY <1>1, Claims DEF Naturals
      <4>2. \A k \in F!Lots \ {l} : Claim(lot', read)[k] = Claim(lot, read)[k]
        BY <3>1 DEF Claim
      <4> QED
        BY <4>1, <4>2
    <3>3. /\ Claim(lot, read)[l] = IF read[l] > lot[l].qty THEN read[l]
                                   ELSE lot[l].qty
          /\ Claim(lot', read)[l] = IF read[l] > q THEN read[l] ELSE q
      BY <1>1, <3>1, Claims
    <3>4. F!Max({q - lot[l].qty, 0}) =
            IF q >= lot[l].qty THEN q - lot[l].qty ELSE 0
      <4> DEFINE more == q - lot[l].qty
      <4>1. more \in Int /\ (more >= 0 <=> q >= lot[l].qty)
        BY <3>1
      <4> HIDE DEF more
      <4>2. F!Max({more, 0}) = IF more >= 0 THEN more ELSE 0
        BY <4>1, FridgeBounds
      <4> QED
        BY <4>1, <4>2 DEF more
    <3>5. Claimed(lot', read) + Claim(lot, read)[l] <=
            Claimed(lot, read) + Claim(lot', read)[l]
      BY <1>1, <3>2, ClaimsChange
    <3> QED
      BY <1>1, <1>5, <3>1, <3>3, <3>4, <3>5
  <2>3. CASE F!DeleteItem(l) \/ F!DeleteDelivery
    <3>1. /\ supplied' = supplied
          /\ \A k \in F!Lots : lot'[k] = lot[k] \/ lot'[k].qty = 0
      BY <1>1, <2>3 DEF F!DeleteItem, F!DeleteDelivery, LotRows, F!NoRow
    <3>2. \A k \in F!Lots : Claim(lot', read)[k] <= Claim(lot, read)[k]
      <4> TAKE k \in F!Lots
      <4>1. lot'[k].qty = lot[k].qty \/ lot'[k].qty = 0
        BY <3>1
      <4> QED
        BY <1>1, <4>1, Claims
    <3> QED
      BY <1>1, <1>5, <3>1, <3>2, ClaimsLess
  <2> QED
    BY <2>1, <2>2, <2>3
<1> QED
  BY <1>1, <1>2, <1>3, <1>4, <1>5, <1>6 DEF Backed, read

(* The types of the sums before and after a step.                          *)
LEMMA FridgeNumbers ==
    ASSUME Stocked, NEW r, Requests = {r}, F!TypeOK
    PROVE  /\ lot \in LotRows /\ meal \in MealRows /\ req[r] \in F!Session
           /\ req[r].read \in Reads /\ req[r].taken \in Nat /\ supplied \in Nat
           /\ Claimed(lot, req[r].read) \in Nat /\ Noted(meal) \in Nat
<1>1. /\ lot \in LotRows /\ meal \in MealRows /\ req[r] \in F!Session
      /\ req[r].read \in Reads /\ req[r].taken \in Nat /\ supplied \in Nat
  BY DEF F!TypeOK, F!Session, LotRows, MealRows, Reads, F!Amounts, Stocked
<1> QED
  BY <1>1, Claims, Notes

(* A session that ends, begins or goes on without a write claims nothing   *)
(* that was not there: a regeneration drops the notes of a meal, and the   *)
(* lots are read as they are.                                              *)
LEMMA FridgeQuiet ==
    ASSUME Stocked, NEW r, Requests = {r}, FridgeInv(r), F!TypeOK',
           \/ \E m \in F!Meals : F!ReplaceMeal(m)
           \/ \E m \in F!Meals, want \in BOOLEAN : F!LoadMeal(r, m, want)
           \/ F!StartDeduct(r)
           \/ F!RowGone(r)
           \/ F!SelectLots(r)
           \/ F!CompleteAgain(r)
           \/ F!UncompleteAgain(r)
           \/ F!Crash
    PROVE  Sound(meal', req'[r]) /\ Backed(lot', meal', req'[r], supplied')
<1>1. /\ lot \in LotRows /\ meal \in MealRows /\ req[r] \in F!Session
      /\ req[r].read \in Reads /\ req[r].taken \in Nat /\ supplied \in Nat
      /\ Claimed(lot, req[r].read) \in Nat /\ Noted(meal) \in Nat
  BY FridgeNumbers DEF FridgeInv
<1>2. /\ lot' \in LotRows /\ meal' \in MealRows /\ req'[r] \in F!Session
      /\ req'[r].read \in Reads /\ req'[r].taken \in Nat
      /\ req \in [Requests -> F!Session]
  BY DEF FridgeInv, F!TypeOK, F!Session, LotRows, MealRows, Reads, F!Amounts,
         Stocked
<1>3. Claimed(lot, req[r].read) + Noted(meal) + req[r].taken <= supplied
  BY DEF FridgeInv, Backed
<1>4. /\ lot' = lot /\ supplied' = supplied
      /\ \/ /\ req' = req
            /\ \E m \in F!Meals :
                 meal' = [meal EXCEPT ![m] =
                            [present |-> FALSE, completed |-> FALSE,
                             snap |-> F!Null]]
         \/ /\ \/ meal' = meal
               \/ meal' = [meal EXCEPT ![req[r].meal].completed = TRUE]
            /\ req'[r].taken = 0
            /\ \A l \in F!Lots : \/ req'[r].read[l] = 0
                                  \/ req'[r].read[l] = lot[l].qty
            /\ req'[r].at # "selected" => req'[r].read = F!Idle.read
            /\ \/ req'[r].at # "loaded"
               \/ req'[r].meal = F!NoMeal
               \/ meal' = meal /\ req'[r].snap = meal[req'[r].meal].snap
  <2>1. CASE \E m \in F!Meals : F!ReplaceMeal(m)
    BY <2>1 DEF F!ReplaceMeal
  <2>0. /\ F!Idle \in F!Session /\ F!Idle.at = "idle" /\ F!Idle.taken = 0
        /\ \A l \in F!Lots : F!Idle.read[l] = 0
    BY FridgeIdle DEF F!Idle
  <2>2. CASE \E m \in F!Meals, want \in BOOLEAN : F!LoadMeal(r, m, want)
    <3>1. PICK m \in F!Meals, want \in BOOLEAN : F!LoadMeal(r, m, want)
      BY <2>2
    <3>2. req'[r] = [F!Idle EXCEPT !.at = "loaded", !.meal = m, !.want = want,
                                   !.was = meal[m].completed,
                                   !.snap = meal[m].snap]
      BY <1>2, <3>1 DEF F!LoadMeal
    <3>3. /\ req'[r].at = "loaded" /\ req'[r].meal = m
          /\ req'[r].snap = meal[m].snap /\ req'[r].taken = F!Idle.taken
          /\ req'[r].read = F!Idle.read
      BY <2>0, <3>2 DEF F!Session
    <3> QED
      BY <2>0, <3>1, <3>3 DEF F!LoadMeal
  <2>3. CASE F!StartDeduct(r)
    <3>1. req'[r] = [F!Idle EXCEPT !.at = "loaded", !.want = TRUE]
      BY <1>2, <2>3 DEF F!StartDeduct
    <3>2. /\ req'[r].at = "loaded" /\ req'[r].meal = F!Idle.meal
          /\ req'[r].taken = F!Idle.taken /\ req'[r].read = F!Idle.read
      BY <2>0, <3>1 DEF F!Session
    <3>3. F!Idle.meal = F!NoMeal
      BY DEF F!Idle
    <3> QED
      BY <2>0, <2>3, <3>2, <3>3 DEF F!StartDeduct
  <2>4. CASE F!RowGone(r) \/ F!UncompleteAgain(r) \/ F!CompleteAgain(r)
    <3>1. req'[r] = F!Idle
      BY <1>2, <2>4 DEF F!RowGone, F!UncompleteAgain, F!CompleteAgain
    <3> QED
      BY <2>0, <2>4, <3>1 DEF F!RowGone, F!UncompleteAgain, F!CompleteAgain
  <2>5. CASE F!SelectLots(r)
    <3>1. req[r].taken = 0
      BY <2>5 DEF F!SelectLots, FridgeInv, Sound
    <3>2. req'[r] = [req[r] EXCEPT !.at = "selected",
                                   !.read = [l \in F!Lots |-> lot[l].qty]]
      BY <1>2, <2>5 DEF F!SelectLots
    <3>3. /\ req'[r].at = "selected" /\ req'[r].taken = req[r].taken
          /\ \A l \in F!Lots : req'[r].read[l] = lot[l].qty
      BY <1>1, <3>2 DEF F!Session
    <3> QED
      BY <2>5, <3>1, <3>3 DEF F!SelectLots
  <2>6. CASE F!Crash
    <3>1. req'[r] = F!Idle
      BY <2>6 DEF F!Crash
    <3> QED
      BY <2>0, <2>6, <3>1 DEF F!Crash
  <2> QED
    BY <2>1, <2>2, <2>3, <2>4, <2>5, <2>6
<1>5. Sound(meal', req'[r])
  <2>1. CASE req' = req
    <3>1. \A m \in F!Meals : \/ /\ meal'[m].snap = meal[m].snap
                                /\ meal'[m].present = meal[m].present
                             \/ ~meal'[m].present
      BY <1>1, <1>4, <2>1 DEF MealRows, F!MealRow
    <3>2. req[r].meal \in F!Meals \cup {F!NoMeal}
      BY <1>1 DEF F!Session
    <3> QED
      BY <2>1, <3>1, <3>2 DEF Sound, FridgeInv
  <2>2. CASE req' # req
    BY <1>4, <2>2 DEF Sound, F!Idle
  <2> QED
    BY <2>1, <2>2
<1>6. Noted(meal') <= Noted(meal)
  <2>1. CASE \A m \in F!Meals : meal'[m].snap = meal[m].snap
    <3>1. Kept(meal') = Kept(meal)
      BY <2>1 DEF Kept
    <3> QED
      BY <1>1, <3>1 DEF Noted
  <2>2. CASE \E m \in F!Meals : meal'[m].snap # meal[m].snap
    <3>1. PICK m \in F!Meals :
            meal' = [meal EXCEPT
                       ![m] = [present |-> FALSE, completed |-> FALSE,
                               snap |-> F!Null]]
      BY <1>1, <1>4, <2>2 DEF MealRows, F!MealRow
    <3>2. \A k \in F!Meals \ {m} : meal'[k].snap = meal[k].snap
      BY <3>1, <1>1 DEF MealRows
    <3>3. Kept(meal')[m] = 0 /\ Kept(meal)[m] \in Nat
      BY <1>1, <3>1, Notes DEF MealRows, Kept, F!Null, Naturals
    <3>4. Noted(meal') + Kept(meal)[m] <= Noted(meal) + Kept(meal')[m]
      BY <1>1, <1>2, <3>2, NotesChange
    <3> QED
      BY <1>1, <1>2, <3>3, <3>4, Notes
  <2> QED
    BY <2>1, <2>2
<1>7. Claimed(lot', req'[r].read) <= Claimed(lot, req[r].read)
  <2>1. \A l \in F!Lots : \/ req'[r].read[l] = req[r].read[l]
                          \/ req'[r].read[l] = 0
                          \/ req'[r].read[l] = lot[l].qty
    BY <1>4
  <2>2. \A l \in F!Lots :
          Claim(lot', req'[r].read)[l] <= Claim(lot, req[r].read)[l]
    BY <1>1, <1>2, <1>4, <2>1, Claims
  <2> QED
    BY <1>1, <1>2, <2>2, ClaimsLess
<1>8. req'[r].taken <= req[r].taken
  BY <1>1, <1>4
<1> QED
  BY <1>1, <1>2, <1>3, <1>4, <1>5, <1>6, <1>7, <1>8, Claims, Notes DEF Backed

(* A deduction leaves no more than it did not take, even when the lots     *)
(* changed after they were read.                                           *)
LEMMA FridgeDeducts ==
    ASSUME Stocked, NEW r, Requests = {r}, FridgeInv(r), F!TypeOK',
           F!CommitDeduct(r)
    PROVE  Sound(meal', req'[r]) /\ Backed(lot', meal', req'[r], supplied')
<1> DEFINE read == req[r].read
<1> DEFINE take == F!Take(read)
<1>1. /\ lot \in LotRows /\ meal \in MealRows /\ req[r] \in F!Session
      /\ read \in Reads /\ req[r].taken = 0 /\ supplied \in Nat
      /\ Claimed(lot, read) \in Nat /\ Noted(meal) \in Nat
      /\ req \in [Requests -> F!Session]
  BY FridgeNumbers DEF FridgeInv, F!CommitDeduct, Sound, F!TypeOK
<1>2. lot' \in LotRows /\ meal' \in MealRows
  BY DEF F!TypeOK, LotRows, MealRows
<1>3. Claimed(lot, read) + Noted(meal) <= supplied
  BY <1>1 DEF FridgeInv, Backed
<1> DEFINE rest == [l \in F!Lots |->
                      IF l \notin {k \in F!Lots : take[k] > 0} THEN lot[l]
                      ELSE IF take[l] = read[l] THEN F!NoRow
                      ELSE [lot[l] EXCEPT !.qty = read[l] - take[l]]]
<1>4. /\ supplied' = supplied
      /\ \/ lot' = lot /\ meal' = meal /\ req' = [req EXCEPT ![r] = F!Idle]
         \/ /\ lot' = rest
            /\ \/ meal' = meal /\ req' = [req EXCEPT ![r] = F!Idle]
               \/ /\ meal' = [meal EXCEPT ![req[r].meal].completed = TRUE]
                  /\ req' = [req EXCEPT ![r] =
                               [F!Idle EXCEPT !.at = "deducted",
                                              !.meal = req[r].meal,
                                              !.taken = F!Total(take)]]
  BY DEF F!CommitDeduct
<1>5. /\ F!Total(take) \in Nat
      /\ \A l \in F!Lots : take[l] \in Nat /\ take[l] <= read[l]
  BY <1>1, Taken DEF F!Amounts, Stocked
<1>6. /\ F!Idle.read \in Reads
      /\ \A l \in F!Lots : F!Idle.read[l] = 0
  BY FridgeIdle DEF F!Idle, F!Session, Reads
<1>7. Claimed(lot, F!Idle.read) <= Claimed(lot, read)
  <2>1. \A l \in F!Lots : Claim(lot, F!Idle.read)[l] <= Claim(lot, read)[l]
    BY <1>1, <1>6, Claims
  <2> QED
    BY <1>1, <1>6, <2>1, ClaimsLess
<1>8. lot' = rest =>
        Claimed(rest, F!Idle.read) + F!Total(take) <= Claimed(lot, read)
  <2>1. \A l \in F!Lots : \/ take[l] = 0 /\ rest[l] = lot[l]
                          \/ rest[l].qty = read[l] - take[l]
    <3> TAKE l \in F!Lots
    <3>1. lot[l] \in F!LotRow /\ read[l] \in Nat
      BY <1>1, Claims DEF LotRows
    <3> HIDE DEF take, read
    <3> QED
      BY <1>5, <3>1 DEF F!NoRow, F!LotRow
  <2> HIDE DEF rest, read
  <2> QED
    BY <1>1, <1>2, <1>6, <2>1, Deducted
<1>9. Noted(meal') = Noted(meal)
  <2>1. \A m \in F!Meals : meal'[m].snap = meal[m].snap
    BY <1>1, <1>4 DEF MealRows, F!MealRow
  <2>2. Kept(meal') = Kept(meal)
    BY <2>1 DEF Kept
  <2> QED
    BY <2>2 DEF Noted
<1>10. /\ req'[r].read = F!Idle.read /\ req'[r].at \in {"idle", "deducted"}
       /\ \/ req'[r].taken = 0
          \/ lot' = rest /\ req'[r].taken = F!Total(take)
       /\ req'[r].at = "idle" => req'[r].taken = 0
  <2> DEFINE new == [F!Idle EXCEPT !.at = "deducted", !.meal = req[r].meal,
                                   !.taken = F!Total(take)]
  <2>1. \/ req'[r] = F!Idle
        \/ lot' = rest /\ req'[r] = new
    <3> HIDE DEF rest, take
    <3> QED
      BY <1>1, <1>4
  <2>2. F!Idle.at = "idle" /\ F!Idle.taken = 0 /\ F!Idle \in F!Session
    BY FridgeIdle DEF F!Idle
  <2>3. /\ new.at = "deducted" /\ new.read = F!Idle.read
        /\ new.taken = F!Total(take)
    BY <2>2 DEF F!Session
  <2> HIDE DEF new
  <2> QED
    BY <2>1, <2>2, <2>3
<1> HIDE DEF rest, take, read
<1>11. Claimed(lot', F!Idle.read) + req'[r].taken <= Claimed(lot, read)
  <2>1. Claimed(lot', F!Idle.read) \in Nat
    BY <1>2, <1>6, Claims
  <2> QED
    BY <1>1, <1>4, <1>5, <1>7, <1>8, <1>10, <2>1
<1>12. Sound(meal', req'[r])
  BY <1>6, <1>10 DEF Sound
<1> QED
  <2>1. Claimed(lot', F!Idle.read) \in Nat /\ req'[r].taken \in Nat
    BY <1>2, <1>5, <1>6, <1>10, Claims
  <2> QED
    BY <1>1, <1>3, <1>4, <1>9, <1>10, <1>11, <1>12, <2>1 DEF Backed

(* What was taken is noted once.                                           *)
LEMMA FridgeNotes ==
    ASSUME Stocked, NEW r, Requests = {r}, FridgeInv(r), F!TypeOK',
           F!CommitSnapshot(r)
    PROVE  Sound(meal', req'[r]) /\ Backed(lot', meal', req'[r], supplied')
<1> DEFINE m == req[r].meal
<1>1. /\ lot \in LotRows /\ meal \in MealRows /\ req[r] \in F!Session
      /\ req[r].read \in Reads /\ req[r].taken \in Nat /\ supplied \in Nat
      /\ Claimed(lot, req[r].read) \in Nat /\ Noted(meal) \in Nat
      /\ req \in [Requests -> F!Session]
  BY FridgeNumbers DEF FridgeInv, F!TypeOK
<1>2. meal' \in MealRows /\ Noted(meal') \in Nat
  BY Notes DEF F!TypeOK, MealRows
<1>3. Claimed(lot, req[r].read) + Noted(meal) + req[r].taken <= supplied
  BY DEF FridgeInv, Backed
<1>4. /\ m \in F!Meals
      /\ lot' = lot /\ supplied' = supplied /\ req'[r] = F!Idle
      /\ meal' = [meal EXCEPT ![m].snap = req[r].taken]
  BY <1>1 DEF F!CommitSnapshot, F!Reachable
<1>5. /\ F!Idle.at = "idle" /\ F!Idle.taken = 0
      /\ F!Idle.read = req[r].read
  <2>1. \A l \in F!Lots : req[r].read[l] = 0
    BY DEF F!CommitSnapshot, FridgeInv, Sound
  <2>2. req[r].read = [l \in F!Lots |-> 0]
    BY <1>1, <2>1 DEF Reads
  <2> QED
    BY <2>2 DEF F!Idle
<1>6. Noted(meal') <= Noted(meal) + req[r].taken
  <2> HIDE DEF m
  <2>1. \A k \in F!Meals \ {m} : meal'[k].snap = meal[k].snap
    BY <1>1, <1>4 DEF MealRows
  <2>2. meal'[m].snap = req[r].taken
    BY <1>1, <1>4 DEF MealRows, F!MealRow
  <2>3. Kept(meal')[m] = req[r].taken /\ Kept(meal)[m] \in Nat
    BY <1>1, <1>4, <2>2, Notes DEF Kept, Naturals
  <2>4. Noted(meal') + Kept(meal)[m] <= Noted(meal) + Kept(meal')[m]
    BY <1>1, <1>2, <1>4, <2>1, NotesChange
  <2> QED
    BY <1>1, <1>2, <2>3, <2>4
<1> HIDE DEF m
<1>7. \A l \in F!Lots : F!Idle.read[l] = 0
  BY DEF F!Idle
<1> QED
  BY <1>1, <1>2, <1>3, <1>4, <1>5, <1>6, <1>7 DEF Sound, Backed

(* What is put back was noted and is so no more.                           *)
LEMMA FridgeRestores ==
    ASSUME Stocked, NEW r, Requests = {r}, FridgeInv(r), F!TypeOK',
           F!Uncomplete(r)
    PROVE  Sound(meal', req'[r]) /\ Backed(lot', meal', req'[r], supplied')
<1> DEFINE m == req[r].meal
<1> DEFINE back == F!Restore(r)
<1>1. /\ lot \in LotRows /\ meal \in MealRows /\ req[r] \in F!Session
      /\ req[r].read \in Reads /\ req[r].taken \in Nat /\ supplied \in Nat
      /\ Claimed(lot, req[r].read) \in Nat /\ Noted(meal) \in Nat
      /\ req \in [Requests -> F!Session]
  BY FridgeNumbers DEF FridgeInv, F!TypeOK
<1>2. /\ lot' \in LotRows /\ Claimed(lot', req[r].read) \in Nat
      /\ meal' \in MealRows /\ Noted(meal') \in Nat
  BY <1>1, Notes, Claims DEF F!TypeOK, LotRows, MealRows
<1>3. Claimed(lot, req[r].read) + Noted(meal) <= supplied
  BY <1>1 DEF FridgeInv, Backed
<1>4. /\ m \in F!Meals /\ meal[m].present
      /\ req[r].at = "loaded" /\ req[r].snap = meal[m].snap
      /\ supplied' = supplied /\ req'[r] = F!Idle
      /\ meal' = [meal EXCEPT ![m].completed = FALSE,
                              ![m].snap = IF req[r].snap = F!Null THEN @
                                          ELSE F!Null]
  <2>1. /\ m \in F!Meals /\ meal[m].present /\ req[r].at = "loaded"
        /\ supplied' = supplied /\ req'[r] = F!Idle
        /\ meal' = [meal EXCEPT ![m].completed = FALSE,
                                ![m].snap = IF req[r].snap = F!Null THEN @
                                            ELSE F!Null]
    BY <1>1 DEF F!Uncomplete, F!Reachable
  <2>2. m # F!NoMeal
    BY <2>1 DEF F!Meals, F!NoMeal, Stocked
  <2> QED
    BY <2>1, <2>2 DEF FridgeInv, Sound
<1>5. /\ F!Idle.at = "idle" /\ F!Idle.taken = 0
      /\ F!Idle.read = req[r].read /\ \A l \in F!Lots : req[r].read[l] = 0
  <2>1. \A l \in F!Lots : req[r].read[l] = 0
    BY DEF F!Uncomplete, FridgeInv, Sound
  <2>2. req[r].read = [l \in F!Lots |-> 0]
    BY <1>1, <2>1 DEF Reads
  <2> QED
    BY <2>1, <2>2 DEF F!Idle
<1>6. /\ meal[m].snap \in -1 .. Need
      /\ back = IF meal[m].snap > 0 THEN meal[m].snap ELSE 0
  <2>1. meal[m].snap \in -1 .. Need
    BY <1>1, <1>4 DEF MealRows, F!MealRow, F!Null
  <2> QED
    BY <1>4, <2>1, FridgeBounds DEF F!Restore, Stocked
<1>7. back \in Nat /\ Noted(meal') + back <= Noted(meal)
  <2>1. \A k \in F!Meals \ {m} : meal'[k].snap = meal[k].snap
    <3> HIDE DEF m
    <3> QED
      BY <1>1, <1>4 DEF MealRows
  <2>2. meal'[m].snap = F!Null
    <3>1. meal[m] \in F!MealRow
      BY <1>1, <1>4 DEF MealRows
    <3> HIDE DEF m
    <3> QED
      BY <1>1, <1>4, <3>1 DEF MealRows, F!MealRow
  <2>3. Kept(meal')[m] = 0 /\ Kept(meal)[m] = back
    BY <1>4, <1>6, <2>2 DEF Kept, F!Null
  <2>4. Kept(meal)[m] \in Nat
    BY <1>1, <1>4, Notes DEF Naturals
  <2> HIDE DEF m, back
  <2>5. Noted(meal') + Kept(meal)[m] <= Noted(meal) + Kept(meal')[m]
    BY <1>1, <1>2, <1>4, <2>1, NotesChange
  <2> QED
    BY <1>1, <1>2, <2>3, <2>4, <2>5
<1>8. Claimed(lot', req[r].read) <= Claimed(lot, req[r].read) + back
  <2>1. CASE lot' = lot
    BY <1>1, <1>7, <2>1
  <2>2. ASSUME NEW l \in F!Lots, F!Free(l),
               lot' = [lot EXCEPT ![l] = [F!NoRow EXCEPT !.qty = back]]
        PROVE  <1>8
    <3>1. /\ lot[l].qty = 0 /\ lot'[l].qty = back
          /\ \A k \in F!Lots \ {l} : lot'[k] = lot[k]
      <4> HIDE DEF back
      <4> QED
        BY <1>1, <2>2 DEF LotRows, F!Free, F!NoRow
    <3> HIDE DEF back
    <3>2. \A k \in F!Lots \ {l} :
            Claim(lot', req[r].read)[k] <= Claim(lot, req[r].read)[k]
      <4>1. \A k \in F!Lots : Claim(lot, req[r].read)[k] \in Nat
        BY <1>1, Claims DEF Naturals
      <4>2. \A k \in F!Lots \ {l} :
              Claim(lot', req[r].read)[k] = Claim(lot, req[r].read)[k]
        BY <3>1 DEF Claim
      <4> QED
        BY <4>1, <4>2
    <3>3. Claim(lot, req[r].read)[l] = 0 /\ Claim(lot', req[r].read)[l] = back
      BY <1>1, <1>2, <1>5, <1>7, <3>1, Claims
    <3>4. Claimed(lot', req[r].read) + Claim(lot, req[r].read)[l] <=
            Claimed(lot, req[r].read) + Claim(lot', req[r].read)[l]
      BY <1>1, <1>2, <3>2, ClaimsChange
    <3> QED
      BY <1>1, <1>2, <3>3, <3>4
  <2> QED
    BY <2>1, <2>2 DEF F!Uncomplete
<1> HIDE DEF m, back
<1> QED
  BY <1>1, <1>2, <1>3, <1>4, <1>5, <1>7, <1>8 DEF Sound, Backed

(* Every step of the one request, and every other, keeps the sums.         *)
LEMMA FridgeStep ==
    ASSUME Stocked, NEW r, Requests = {r}, FridgeInv(r), [F!Next]_(F!vars)
    PROVE  FridgeInv(r)'
<1>1. F!TypeOK'
  BY FridgeTypeStep DEF FridgeInv
<1>2. CASE UNCHANGED F!vars
  BY <1>2, <1>1 DEF F!vars, FridgeInv
<1>3. CASE F!Next
  <2>1. Sound(meal', req'[r]) /\ Backed(lot', meal', req'[r], supplied')
    <3>1. CASE \/ \E l \in F!Lots, q \in F!Amounts \ {0}, d \in BOOLEAN :
                    F!AddItem(l, q, d)
               \/ \E l \in F!Lots, q \in F!Amounts \ {0} :
                    F!UpdateQuantity(l, q)
               \/ \E l \in F!Lots : F!DeleteItem(l)
               \/ F!DeleteDelivery
      BY <1>1, <3>1, FridgeItems DEF F!DeleteDelivery, F!Present
    <3>2. CASE \/ \E m \in F!Meals : F!ReplaceMeal(m)
               \/ \E m \in F!Meals, want \in BOOLEAN : F!LoadMeal(r, m, want)
               \/ F!StartDeduct(r) \/ F!RowGone(r) \/ F!SelectLots(r)
               \/ F!CompleteAgain(r) \/ F!UncompleteAgain(r) \/ F!Crash
      BY <1>1, <3>2, FridgeQuiet
    <3>3. CASE F!CommitDeduct(r)
      BY <1>1, <3>3, FridgeDeducts
    <3>4. CASE F!CommitSnapshot(r)
      BY <1>1, <3>4, FridgeNotes
    <3>5. CASE F!Uncomplete(r)
      BY <1>1, <3>5, FridgeRestores
    <3> QED
      BY <1>3, <3>1, <3>2, <3>3, <3>4, <3>5 DEF F!Next
  <2> QED
    BY <1>1, <2>1 DEF FridgeInv
<1> QED
  BY <1>2, <1>3

(* With one session its share is all that is taken.                        *)
LEMMA FridgeImplied ==
    ASSUME Stocked, NEW r, Requests = {r}, FridgeInv(r)
    PROVE  F!NoInflation
<1>1. /\ lot \in LotRows /\ meal \in MealRows
      /\ req[r].read \in Reads /\ req[r].taken \in Nat /\ supplied \in Nat
      /\ Claimed(lot, req[r].read) \in Nat /\ Noted(meal) \in Nat
  BY FridgeNumbers DEF FridgeInv
<1>2. F!Stock <= Claimed(lot, req[r].read) /\ F!Stock \in Nat
  <2> DEFINE rows == [l \in F!Lots |-> lot[l].qty]
  <2>1. F!Stock = SumFunctionOnSet(rows, F!Lots)
    BY FridgeSums DEF F!Stock, F!Total
  <2>2. /\ IsFiniteSet(F!Lots) /\ Naturals(Claim(lot, req[r].read), F!Lots)
        /\ \A l \in F!Lots : /\ rows[l] \in Nat
                              /\ rows[l] <= Claim(lot, req[r].read)[l]
    BY <1>1, Claims
  <2>3. Naturals(rows, F!Lots) /\ F!Lots \in SUBSET F!Lots
    BY <2>2 DEF Naturals
  <2> HIDE DEF rows
  <2> QED
    BY <2>1, <2>2, <2>3, SumMonotonic, SumOneOut DEF Claimed
<1>3. F!Restorable = Noted(meal)
  <2>1. \A m \in F!Meals : F!Max({meal[m].snap, 0}) = Kept(meal)[m]
    <3> TAKE m \in F!Meals
    <3> DEFINE snap == meal[m].snap
    <3>1. snap \in Int
      BY <1>1, Notes
    <3> HIDE DEF snap
    <3>2. F!Max({snap, 0}) = IF snap >= 0 THEN snap ELSE 0
      BY <3>1, FridgeBounds
    <3>3. Kept(meal)[m] = IF snap > 0 THEN snap ELSE 0
      BY DEF Kept, snap
    <3> QED
      BY <3>1, <3>2, <3>3 DEF snap
  <2>2. [m \in F!Meals |-> F!Max({meal[m].snap, 0})] = Kept(meal)
    BY <2>1 DEF Kept
  <2> QED
    BY <2>2, FridgeSums DEF F!Restorable, Noted, Kept
<1>4. F!InFlight = req[r].taken
  <2>1. F!InFlight = SumFunctionOnSet([q \in Requests |-> req[q].taken], {r})
    BY FridgeSums DEF F!InFlight
  <2>2. [q \in Requests |-> req[q].taken][r] = req[r].taken
    OBVIOUS
  <2> QED
    BY <1>1, <2>1, <2>2, SumSingle
<1>5. Claimed(lot, req[r].read) + Noted(meal) + req[r].taken <= supplied
  BY DEF FridgeInv, Backed
<1> QED
  BY <1>1, <1>2, <1>3, <1>4, <1>5 DEF F!NoInflation

(* Completing and undoing meals makes no food, for any number of lots and  *)
(* meals, as long as one request at a time does so: what is in the fridge, *)
(* what meals could give back and what is about to be noted never exceed   *)
(* what was put in.                                                        *)
THEOREM FridgeNoInflation ==
    ASSUME Stocked, \E r : Requests = {r}
    PROVE  F!Spec => []F!NoInflation
<1>1. PICK r : Requests = {r}
  OBVIOUS
<1>2. F!Init => FridgeInv(r)
  BY <1>1, FridgeStart
<1>3. FridgeInv(r) /\ [F!Next]_(F!vars) => FridgeInv(r)'
  BY <1>1, FridgeStep
<1>4. FridgeInv(r) => F!NoInflation
  BY <1>1, FridgeImplied
<1> QED
  BY <1>2, <1>3, <1>4, PTL DEF F!Spec

-----------------------------------------------------------------------------
(* The gate.                                                               *)

(* What the constants are.                                                 *)
Priced ==
    /\ IsFiniteSet(Items)
    /\ IsFiniteSet(Prices) /\ Prices # {} /\ Prices \subseteq Nat
Dated ==
    /\ MaxCycle \in Nat \ {0} /\ FirstStart \in Nat
    /\ Spacing \in Nat \ {0} /\ MonthDays \in Nat \ {0}
Budgeted == BudgetAmounts \subseteq Nat

-----------------------------------------------------------------------------
(* The sums of the gate.                                                   *)
LEMMA GateSums ==
    /\ \A fun, set : G!SumFunctionOnSet(fun, set) = SumFunctionOnSet(fun, set)
    /\ \A fun : G!SumFunction(fun) = SumFunctionOnSet(fun, DOMAIN fun)
  BY DEF G!SumFunction, G!SumFunctionOnSet, G!FoldFunctionOnSet,
         G!MapThenFoldSet, SumFunctionOnSet, FoldFunctionOnSet, MapThenFoldSet

(* The larger and the smaller of two numbers there.                        *)
LEMMA GateBounds ==
    \A a, b \in Int :
      /\ G!Max({a, b}) = IF a >= b THEN a ELSE b
      /\ G!Min({a, b}) = IF a <= b THEN a ELSE b
<1> SUFFICES ASSUME NEW a \in Int, NEW b \in Int
    PROVE  /\ G!Max({a, b}) = IF a >= b THEN a ELSE b
           /\ G!Min({a, b}) = IF a <= b THEN a ELSE b
  OBVIOUS
<1>1. G!Max({a, b}) = Max({a, b})
  BY DEF G!Max, Max
<1>2. PICK m \in {a, b} : \A y \in {a, b} : m <= y
  OBVIOUS
<1>3. \A x \in {a, b} : (\A y \in {a, b} : x <= y) => x = m
  BY <1>2
<1>4. G!Min({a, b}) = m
  BY <1>2, <1>3 DEF G!Min
<1> QED
  BY <1>1, <1>2, <1>4, Larger

(* The highest price.                                                      *)
LEMMA Highest ==
    ASSUME Priced
    PROVE  G!Max(Prices) \in Nat /\ \A p \in Prices : p <= G!Max(Prices)
<1> DEFINE top(T) == \E m \in T : \A p \in T : p <= m
<1> DEFINE bad == {T \in SUBSET Prices : T # {} /\ ~top(T)}
<1>1. top(Prices)
  <2>1. SUFFICES ASSUME bad # {}
                 PROVE  FALSE
    BY DEF Priced
  <2>2. PICK T \in bad : \A x \in T : T \ {x} \notin bad
    <3>1. bad \subseteq SUBSET Prices
      OBVIOUS
    <3> HIDE DEF bad
    <3> QED
      BY <2>1, <3>1, Smallest DEF Priced
  <2>3. PICK x \in T : TRUE
    OBVIOUS
  <2>4. T \subseteq Nat
    BY DEF Priced
  <2>5. CASE T \ {x} = {}
    <3>1. \A p \in T : p <= x
      BY <2>3, <2>4, <2>5
    <3> QED
      BY <3>1, <2>3
  <2>6. CASE T \ {x} # {}
    <3>1. PICK m \in T \ {x} : \A p \in T \ {x} : p <= m
      BY <2>2, <2>6
    <3>2. \A p \in T : p <= IF m > x THEN m ELSE x
      BY <2>3, <2>4, <3>1
    <3>3. (IF m > x THEN m ELSE x) \in T
      BY <2>3, <3>1
    <3> QED
      BY <3>2, <3>3
  <2> QED
    BY <2>5, <2>6
<1>2. PICK m \in Prices : \A p \in Prices : p <= m
  BY <1>1
<1>3. \A x \in Prices : (\A y \in Prices : x >= y) => x = m
  BY <1>2 DEF Priced
<1>4. \A y \in Prices : m >= y
  BY <1>2 DEF Priced
<1>5. G!Max(Prices) = m
  BY <1>3, <1>4 DEF G!Max
<1> QED
  BY <1>2, <1>5 DEF Priced

(* The days of the cycles.                                                 *)
LEMMA StartDays ==
    ASSUME Dated
    PROVE  /\ \A c \in G!Cycles : G!Start(c) \in Nat
           /\ \A c, d \in G!Cycles : d < c => G!Start(d) < G!Start(c)
<1>1. \A a, b \in Nat : a * b \in Nat
  OBVIOUS
<1>2. \A a, b \in Nat : a < b => a * Spacing < b * Spacing
  <2>1. \A a, b, s \in Nat : a < b /\ s > 0 => a * s < b * s
    OBVIOUS
  <2> QED
    BY <2>1 DEF Dated
<1>3. \A c \in G!Cycles : c - 1 \in Nat
  BY DEF G!Cycles, Dated
<1>4. \A c \in G!Cycles : (c - 1) * Spacing \in Nat
  BY <1>1, <1>3 DEF Dated
<1>5. \A c, d \in G!Cycles : d < c => (d - 1) * Spacing < (c - 1) * Spacing
  <2> TAKE c, d \in G!Cycles
  <2> DEFINE a == d - 1
  <2> DEFINE b == c - 1
  <2>1. a \in Nat /\ b \in Nat /\ (d < c => a < b)
    BY <1>3 DEF G!Cycles, Dated
  <2> HIDE DEF a, b
  <2>2. d < c => a * Spacing < b * Spacing
    BY <1>2, <2>1
  <2> QED
    BY <2>2 DEF a, b
<1> HIDE DEF Dated
<1>6. FirstStart \in Nat /\ Spacing \in Nat
  BY DEF Dated
<1>7. \A c \in G!Cycles : G!Start(c) = FirstStart + (c - 1) * Spacing
  BY DEF G!Start
<1>8. \A c \in G!Cycles : G!Start(c) \in Nat
  BY <1>4, <1>6, <1>7
<1>9. ASSUME NEW c \in G!Cycles, NEW d \in G!Cycles, d < c
      PROVE  G!Start(d) < G!Start(c)
  BY <1>4, <1>5, <1>6, <1>7, <1>9
<1> QED
  BY <1>8, <1>9

(* A day is in the month that starts before it.                            *)
LEMMA Months ==
    ASSUME Dated, NEW c \in G!Cycles
    PROVE  /\ G!MonthStart(c) \in Nat
           /\ G!MonthStart(c) <= G!Start(c)
           /\ G!Start(c) < G!MonthStart(c) + MonthDays
<1>1. \A s \in Nat, n \in Nat \ {0} :
        /\ (s \div n) * n \in Nat /\ (s \div n) * n <= s
        /\ s < (s \div n) * n + n
  OBVIOUS
<1> QED
  BY <1>1, StartDays DEF G!MonthStart, Dated

(* A part of the month gets no more than the month.                        *)
LEMMA Prorated ==
    ASSUME Dated, budget \in Nat, NEW days \in Nat, days <= MonthDays
    PROVE  G!Prorate(days) \in Nat /\ G!Prorate(days) <= budget
<1>1. \A b, d, n \in Nat :
        d <= n => b * d \in Nat /\ b * n \in Nat /\ b * d <= b * n
  OBVIOUS
<1>2. \A x, b, n \in Nat :
        n > 0 /\ x <= 2 * (b * n) =>
          (x + n) \div (2 * n) \in Nat /\ (x + n) \div (2 * n) <= b
  <2> SUFFICES ASSUME NEW x \in Nat, NEW b \in Nat, NEW n \in Nat, n > 0,
                      x <= 2 * (b * n)
      PROVE  (x + n) \div (2 * n) \in Nat /\ (x + n) \div (2 * n) <= b
    OBVIOUS
  <2> DEFINE q == (x + n) \div (2 * n)
  <2>1. q \in Nat /\ q * (2 * n) <= x + n
    OBVIOUS
  <2> HIDE DEF q
  <2>2. \A k \in Nat : k > b => k * n >= b * n + n
    OBVIOUS
  <2>3. q * (2 * n) = 2 * (q * n) /\ q * n \in Nat /\ b * n \in Nat
    BY <2>1
  <2> QED
    BY <2>1, <2>2, <2>3 DEF q
<1>3. 2 * budget * days = 2 * (budget * days) /\ budget * days \in Nat
  BY <1>1
<1>4. budget * days <= budget * MonthDays /\ budget * MonthDays \in Nat
  BY <1>1 DEF Dated
<1>5. /\ 2 * (budget * days) \in Nat
      /\ 2 * (budget * days) <= 2 * (budget * MonthDays)
  BY <1>3, <1>4
<1> QED
  BY <1>2, <1>3, <1>5 DEF G!Prorate, Dated

-----------------------------------------------------------------------------
(* A sum of prices.                                                        *)
LEMMA PriceSums ==
    ASSUME Priced, NEW T \in SUBSET Items, NEW f,
           \A i \in T : f[i] \in Prices \cup {0}
    PROVE  SumFunctionOnSet(f, T) \in 0 .. G!MaxTotal
<1> DEFINE top == G!Max(Prices)
<1>1. top \in Nat /\ \A p \in Prices : p <= top
  BY Highest
<1> HIDE DEF top
<1>2. IsFiniteSet(T) /\ Cardinality(T) <= Cardinality(Items)
      /\ Cardinality(T) \in Nat /\ Cardinality(Items) \in Nat
  BY FS_Subset, FS_CardinalityType DEF Priced
<1>3. \A i \in T : f[i] \in Nat /\ f[i] <= top
  <2>1. \A p \in Prices \cup {0} : p \in Nat /\ p <= top
    BY <1>1 DEF Priced
  <2> QED
    BY <2>1
<1>4. Naturals(f, T)
  BY <1>3 DEF Naturals
<1>5. SumFunctionOnSet(f, T) <= Cardinality(T) * top
  BY <1>1, <1>2, <1>3, <1>4, SumBound
<1>6. SumFunctionOnSet(f, T) \in Nat
  BY <1>2, <1>4, SumOneOut
<1>7. \A a, b, c \in Nat :
        a <= b => a * c <= b * c /\ a * c \in Nat /\ b * c \in Nat
  OBVIOUS
<1>8. /\ Cardinality(T) * top <= Cardinality(Items) * top
      /\ Cardinality(T) * top \in Nat /\ Cardinality(Items) * top \in Nat
  BY <1>1, <1>2, <1>7
<1>9. G!MaxTotal = Cardinality(Items) * top
  BY DEF G!MaxTotal, G!Cardinality, Cardinality, top
<1> QED
  BY <1>5, <1>6, <1>8, <1>9

(* The total of an order's lines.                                          *)
LEMMA LineTotals ==
    ASSUME Priced, NEW lines \in G!Lines
    PROVE  G!SnapshotTotal(lines) \in 0 .. G!MaxTotal
<1>1. \A i \in G!ToBuy(lines) : lines[i] \in Prices \cup {0}
  BY DEF G!ToBuy, G!Lines, G!NoLine, G!Unmatched
<1>2. G!ToBuy(lines) \in SUBSET Items
  BY DEF G!ToBuy
<1> QED
  BY <1>1, <1>2, PriceSums, GateSums DEF G!SnapshotTotal

(* What a preview finds.                                                   *)
LEMMA Previewed ==
    ASSUME Priced, NEW p \in G!Previews
    PROVE  /\ G!Snapshot(p[1], p[2]) \in G!Lines
           /\ G!CartTotal(G!Cart(p[1], p[2])) \in 0 .. G!MaxTotal
<1>1. p[1] \in SUBSET Items /\ p[2] \in [G!Names -> Prices \cup {0}]
  <2>1. PICK need \in G!Supplies, stock \in G!Supplies :
          p[1] = G!Needed(need, stock)
    BY DEF G!Previews
  <2>2. p[2] \in G!Offers
    BY DEF G!Previews
  <2>3. p[1] \in SUBSET Items
    BY <2>1 DEF G!Needed
  <2>4. p[2] \in [G!Names -> Prices \cup {0}]
    BY <2>2 DEF G!Offers, G!Unmatched
  <2> QED
    BY <2>3, <2>4
<1>2. \A i \in Items : p[2][NameOf[i]] \in Prices \cup {0}
  BY <1>1 DEF G!Names
<1>3. G!Snapshot(p[1], p[2]) \in G!Lines
  BY <1>2 DEF G!Snapshot, G!Lines, G!NoLine, G!Unmatched
<1>4. G!CartTotal(G!Cart(p[1], p[2])) \in 0 .. G!MaxTotal
  <2> DEFINE cart == G!Cart(p[1], p[2])
  <2>1. DOMAIN cart = p[1] /\ \A i \in p[1] : cart[i] \in Prices \cup {0}
    BY <1>1, <1>2 DEF G!Cart
  <2> HIDE DEF cart
  <2>2. SumFunctionOnSet(cart, p[1]) \in 0 .. G!MaxTotal
    BY <1>1, <2>1, PriceSums
  <2> QED
    BY <2>1, <2>2, GateSums DEF G!CartTotal, cart
<1> QED
  BY <1>3, <1>4

(* The rows an operation may write.                                        *)
LEMMA GateRows ==
    ASSUME Priced, NEW auto \in BOOLEAN,
           NEW status \in {"draft", "awaiting_user", "confirmed"},
           NEW total \in 0 .. G!MaxTotal
    PROVE  G!Row(status, total, auto) \in G!OrderRow
  BY DEF G!Row, G!OrderRow

(* An order of nothing costs nothing, and nothing may be let through.      *)
LEMMA GateEmpty ==
    ASSUME Priced
    PROVE  G!NoOrder \in G!OrderRow /\ G!Free \in G!Gate
<1>1. Cardinality(Items) \in Nat /\ G!Max(Prices) \in Nat
  BY Highest, FS_CardinalityType DEF Priced
<1>2. \A a, b \in Nat : a * b \in Nat
  OBVIOUS
<1>3. G!MaxTotal \in Nat
  BY <1>1, <1>2 DEF G!MaxTotal, G!Cardinality, Cardinality
<1>4. 0 \in 0 .. G!MaxTotal
  BY <1>3
<1> QED
  BY <1>4 DEF G!NoOrder, G!OrderRow, G!Free, G!Gate, G!Budgets

(* The types hold at the start ...                                         *)
LEMMA GateTypeStart ==
    ASSUME Priced, Dated, G!Init
    PROVE  G!TypeOK
<1>1. 1 \in G!Cycles
  BY DEF G!Cycles, Dated
<1> QED
  BY <1>1, GateEmpty DEF G!Init, G!TypeOK, G!Budgets

(* ... and after every step.                                               *)
LEMMA GateTypeStep ==
    ASSUME Priced, Dated, G!TypeOK, [G!Next]_(G!vars)
    PROVE  G!TypeOK'
<1> USE DEF G!TypeOK
<1>1. G!Free \in G!Gate
  BY GateEmpty
<1>2. CASE G!CreateDraft
  <2>1. PICK p \in G!Previews :
          order' = [order EXCEPT ![window] =
                      G!Row("draft", G!CartTotal(G!Cart(p[1], p[2])), FALSE)]
    BY <1>2 DEF G!CreateDraft
  <2>2. G!Row("draft", G!CartTotal(G!Cart(p[1], p[2])), FALSE)
          \in G!OrderRow
    BY Previewed, GateRows
  <2> QED
    BY <1>2, <2>1, <2>2 DEF G!CreateDraft
<1>3. ASSUME NEW c \in G!Cycles, G!Refuse(c) \/ G!Cancel(c)
      PROVE  G!TypeOK'
  <2>1. [order[c] EXCEPT !.status = "awaiting_user"] \in G!OrderRow
        /\ [order[c] EXCEPT !.status = "closed"] \in G!OrderRow
    BY DEF G!OrderRow
  <2>2. order' \in [G!Cycles -> G!OrderRow]
    BY <1>3, <2>1 DEF G!Refuse, G!Cancel
  <2> QED
    BY <1>3, <2>2 DEF G!Refuse, G!Cancel
<1>4. ASSUME NEW c \in G!Cycles, G!Judge(c)
      PROVE  G!TypeOK'
  <2>1. PICK p \in G!Previews :
          \/ /\ order' = [order EXCEPT ![c] =
                            G!Row("awaiting_user",
                                  G!SnapshotTotal(G!Snapshot(p[1], p[2])),
                                  FALSE)]
             /\ UNCHANGED gate
          \/ /\ gate' = [cycle |-> c, budget |-> budget,
                         total |-> G!SnapshotTotal(G!Snapshot(p[1], p[2]))]
             /\ UNCHANGED order
    BY <1>4 DEF G!Judge
  <2>2. G!SnapshotTotal(G!Snapshot(p[1], p[2])) \in 0 .. G!MaxTotal
    BY Previewed, LineTotals
  <2>3. G!Row("awaiting_user", G!SnapshotTotal(G!Snapshot(p[1], p[2])), FALSE)
          \in G!OrderRow
    BY <2>2, GateRows
  <2>4. [cycle |-> c, budget |-> budget,
         total |-> G!SnapshotTotal(G!Snapshot(p[1], p[2]))] \in G!Gate
    BY <2>2 DEF G!Gate
  <2> QED
    BY <1>4, <2>1, <2>3, <2>4 DEF G!Judge
<1>5. CASE G!AutoConfirm
  <2>1. gate.total \in 0 .. G!MaxTotal
    BY DEF G!Gate
  <2>2. G!Row("confirmed", gate.total, TRUE) \in G!OrderRow
    BY <2>1, GateRows
  <2>3. order' \in [G!Cycles -> G!OrderRow]
    BY <1>5, <2>2 DEF G!AutoConfirm
  <2> QED
    BY <1>1, <1>5, <2>3 DEF G!AutoConfirm
<1>6. ASSUME NEW c \in G!Cycles, G!UserConfirm(c)
      PROVE  G!TypeOK'
  <2>1. PICK p \in G!Previews, excluded \in SUBSET G!Names :
          order' = [order EXCEPT ![c] =
            G!Row("confirmed",
              G!SnapshotTotal(
                [i \in Items |-> IF NameOf[i] \in excluded THEN G!NoLine
                                 ELSE G!Snapshot(p[1], p[2])[i]]), FALSE)]
    BY <1>6 DEF G!UserConfirm
  <2> DEFINE lines == [i \in Items |->
                         IF NameOf[i] \in excluded THEN G!NoLine
                         ELSE G!Snapshot(p[1], p[2])[i]]
  <2>2. G!Snapshot(p[1], p[2]) \in G!Lines
    BY Previewed
  <2>3. lines \in G!Lines
    BY <2>2 DEF G!Lines
  <2> HIDE DEF lines
  <2>4. G!Row("confirmed", G!SnapshotTotal(lines), FALSE) \in G!OrderRow
    BY <2>3, LineTotals, GateRows
  <2> QED
    BY <1>6, <2>1, <2>4 DEF G!UserConfirm, lines
<1>7. CASE G!NextCycle
  <2>1. \A c \in G!Cycles :
          [order[c] EXCEPT !.status = "closed"] \in G!OrderRow
    BY DEF G!OrderRow
  <2>2. order' \in [G!Cycles -> G!OrderRow]
    BY <1>7, <2>1 DEF G!NextCycle
  <2>3. window' \in G!Cycles
    BY <1>7 DEF G!NextCycle, G!Cycles, Dated
  <2> QED
    BY <1>7, <2>2, <2>3 DEF G!NextCycle
<1>8. CASE G!Crash \/ G!UpsertBudget
  BY <1>1, <1>8 DEF G!Crash, G!UpsertBudget
<1>9. CASE UNCHANGED G!vars
  BY <1>9 DEF G!vars
<1> QED
  BY <1>2, <1>3, <1>4, <1>5, <1>6, <1>7, <1>8, <1>9 DEF G!Next

(* Every variable of the gate keeps its type; no total exceeds what all    *)
(* items cost at the highest price.                                        *)
THEOREM GateTypes == ASSUME Priced, Dated PROVE G!Spec => []G!TypeOK
<1> QED
  BY GateTypeStart, GateTypeStep, PTL DEF G!Spec

-----------------------------------------------------------------------------
(* What the scheduler confirmed in the month of a cycle.                   *)
Automatic(rows, c) ==
    {d \in G!Cycles : /\ rows[d].status = "confirmed" /\ rows[d].auto
                      /\ G!MonthStart(d) = G!MonthStart(c)}
Totals(rows) == [d \in G!Cycles |-> rows[d].total]
Charged(rows, c) == SumFunctionOnSet(Totals(rows), Automatic(rows, c))
OrderRows == [G!Cycles -> G!OrderRow]

(* Only the current cycle's order is open, and with what was let through   *)
(* for it the month stays within the budget it was judged by: what users   *)
(* have done since only lowers what the scheduler has spent.               *)
Past(rows, w) ==
    \A c \in G!Cycles :
      /\ c < w => rows[c].status \notin {"draft", "awaiting_user"}
      /\ c > w => rows[c].status = "none"
LetThrough(rows, w, pass) ==
    pass # G!Free =>
      /\ pass.cycle = w /\ rows[w].status = "draft"
      /\ pass.budget # G!Unlocked /\ pass.total > 0
           => Charged(rows, w) + pass.total <= pass.budget
GateInv ==
    /\ G!TypeOK
    /\ Past(order, window)
    /\ LetThrough(order, window, gate)
NoneConfirmed ==
    \A d \in G!Cycles :
      \/ order'[d] = order[d]
      \/ ~(order'[d].status = "confirmed" /\ order'[d].auto)

(* An open order is the current cycle's.                                   *)
LEMMA OpenNow ==
    ASSUME Dated, NEW rows, NEW w \in G!Cycles, Past(rows, w),
           NEW c \in G!Cycles, rows[c].status # "none"
    PROVE  /\ c < w \/ c = w
           /\ rows[c].status \in {"draft", "awaiting_user"} => c = w
<1>1. c \in Int /\ w \in Int
  BY DEF G!Cycles, Dated
<1>2. ~(c > w)
  BY <1>1 DEF Past
<1>3. rows[c].status \in {"draft", "awaiting_user"} => ~(c < w)
  BY <1>1 DEF Past
<1> QED
  BY <1>1, <1>2, <1>3

(* Orders of the current cycle may become anything, others that exist may  *)
(* be closed or confirmed.                                                 *)
LEMMA PastKept ==
    ASSUME Dated, NEW rows, NEW new, NEW w \in G!Cycles, Past(rows, w),
           \A d \in G!Cycles :
             \/ new[d] = rows[d]
             \/ d = w
             \/ /\ rows[d].status # "none"
                /\ new[d].status \in {"confirmed", "closed"}
    PROVE  Past(new, w)
<1> SUFFICES ASSUME NEW d \in G!Cycles
             PROVE  /\ d < w => new[d].status \notin {"draft", "awaiting_user"}
                    /\ d > w => new[d].status = "none"
  BY DEF Past
<1>1. d \in Int /\ w \in Int
  BY DEF G!Cycles, Dated
<1>2. CASE new[d] = rows[d]
  BY <1>1, <1>2 DEF Past
<1>3. CASE d = w
  BY <1>1, <1>3
<1>4. CASE /\ rows[d].status # "none"
           /\ new[d].status \in {"confirmed", "closed"}
  BY <1>1, <1>4 DEF Past
<1> QED
  BY <1>2, <1>3, <1>4

(* The totals are natural numbers.                                         *)
LEMMA Charges ==
    ASSUME Dated, Priced, NEW rows \in OrderRows
    PROVE  /\ IsFiniteSet(G!Cycles) /\ Naturals(Totals(rows), G!Cycles)
           /\ \A T \in SUBSET G!Cycles :
                /\ IsFiniteSet(T) /\ Naturals(Totals(rows), T)
                /\ SumFunctionOnSet(Totals(rows), T) \in Nat
           /\ \A c : Automatic(rows, c) \in SUBSET G!Cycles
           /\ \A c : Charged(rows, c) \in Nat
<1>1. IsFiniteSet(G!Cycles)
  BY FS_Interval DEF G!Cycles, Dated
<1>2. Naturals(Totals(rows), G!Cycles)
  <2>1. \A d \in G!Cycles : rows[d].total \in 0 .. G!MaxTotal
    BY DEF OrderRows, G!OrderRow
  <2>2. \A t \in 0 .. G!MaxTotal : t \in Nat
    OBVIOUS
  <2> QED
    BY <2>1, <2>2 DEF Naturals, Totals
<1>3. \A c : Automatic(rows, c) \in SUBSET G!Cycles
  BY DEF Automatic
<1>4. ASSUME NEW T \in SUBSET G!Cycles
      PROVE  /\ IsFiniteSet(T) /\ Naturals(Totals(rows), T)
             /\ SumFunctionOnSet(Totals(rows), T) \in Nat
  <2>1. Naturals(Totals(rows), T)
    BY <1>2 DEF Naturals
  <2> QED
    BY <1>1, <1>2, <2>1, SumOneOut
<1> QED
  BY <1>1, <1>2, <1>3, <1>4 DEF Charged

(* Whatever else becomes of the orders, the scheduler has spent no more.   *)
LEMMA ChargesLess ==
    ASSUME Dated, Priced, NEW rows \in OrderRows, NEW new \in OrderRows, NEW c,
           \A d \in G!Cycles : \/ new[d] = rows[d]
                               \/ ~(new[d].status = "confirmed" /\ new[d].auto)
    PROVE  Charged(new, c) <= Charged(rows, c)
<1> DEFINE T == Automatic(new, c)
<1> DEFINE S == Automatic(rows, c)
<1>1. T \in SUBSET S
  BY DEF Automatic
<1>2. S \in SUBSET G!Cycles /\ T \in SUBSET G!Cycles
  BY DEF Automatic
<1>3. IsFiniteSet(S) /\ Naturals(Totals(rows), S) /\ Naturals(Totals(new), T)
  <2> HIDE DEF S, T
  <2> QED
    BY <1>2, Charges
<1>4. \A x \in T : Totals(new)[x] = Totals(rows)[x]
  BY DEF Automatic, Totals
<1>5. \A x \in T : Totals(new)[x] \in Nat
  BY <1>3 DEF Naturals
<1> HIDE DEF S, T
<1>6. \A x \in T : Totals(new)[x] <= Totals(rows)[x]
  BY <1>4, <1>5
<1> QED
  BY <1>1, <1>3, <1>6, SumMonotonic DEF Charged, S, T

(* An order that the scheduler confirms adds its total to its month.       *)
LEMMA ChargesMore ==
    ASSUME Dated, Priced, NEW rows \in OrderRows, NEW new \in OrderRows,
           NEW w \in G!Cycles, \A d \in G!Cycles \ {w} : new[d] = rows[d]
    PROVE  Charged(new, w) <= Charged(rows, w) + new[w].total
<1> DEFINE T == Automatic(new, w)
<1> DEFINE R == T \ {w}
<1>1. R \in SUBSET Automatic(rows, w)
  BY DEF Automatic
<1>2. /\ Automatic(rows, w) \in SUBSET G!Cycles /\ T \in SUBSET G!Cycles
      /\ R \in SUBSET T /\ R \in SUBSET G!Cycles /\ w \in G!Cycles
  BY DEF Automatic
<1>3. \A x \in R : Totals(new)[x] = Totals(rows)[x]
  <2>1. R \subseteq G!Cycles \ {w}
    BY <1>2
  <2> HIDE DEF R
  <2> QED
    BY <2>1 DEF Totals
<1>4. Totals(new)[w] = new[w].total
  BY DEF Totals
<1> HIDE DEF T
<1>5. /\ IsFiniteSet(Automatic(rows, w)) /\ IsFiniteSet(T)
      /\ Naturals(Totals(rows), Automatic(rows, w))
      /\ Naturals(Totals(new), T) /\ Naturals(Totals(new), R)
      /\ Naturals(Totals(new), G!Cycles)
      /\ Charged(rows, w) \in Nat
      /\ SumFunctionOnSet(Totals(new), R) \in Nat
  <2> HIDE DEF R
  <2> QED
    BY <1>2, Charges
<1>6. SumFunctionOnSet(Totals(new), R) <= Charged(rows, w)
  <2>1. \A x \in R : Totals(new)[x] <= Totals(rows)[x]
    BY <1>3, <1>5 DEF Naturals
  <2> HIDE DEF R
  <2> QED
    BY <1>1, <1>5, <2>1, SumMonotonic DEF Charged
<1>7. new[w].total \in Nat
  BY <1>4, <1>5 DEF Naturals
<1>8. CASE w \in T
  <2>1. T \in SUBSET T
    OBVIOUS
  <2>2. SumFunctionOnSet(Totals(new), T) =
          new[w].total + SumFunctionOnSet(Totals(new), R)
    BY <1>4, <1>5, <1>8, <2>1, SumOneOut
  <2> HIDE DEF R
  <2> QED
    BY <1>5, <1>6, <1>7, <2>2 DEF Charged, T
<1>9. CASE w \notin T
  <2>1. R = T
    BY <1>9
  <2> HIDE DEF R
  <2> QED
    BY <1>5, <1>6, <1>7, <2>1 DEF Charged, T
<1> QED
  BY <1>8, <1>9

(* The limit of a cycle is what has accrued, less what is committed.       *)
LEMMA Limited ==
    ASSUME Dated, budget \in Nat, NEW c \in G!Cycles,
           G!Committed(c) \in Nat
    PROVE  /\ G!AccrualEnd(c) =
                IF G!Start(c) + Spacing <= G!MonthStart(c) + MonthDays
                THEN G!Start(c) + Spacing ELSE G!MonthStart(c) + MonthDays
           /\ G!CycleLimit(c) \in Nat
           /\ G!CycleLimit(c) + G!Committed(c) <= budget \/ G!CycleLimit(c) = 0
<1> DEFINE end == G!AccrualEnd(c)
<1> DEFINE first == G!MonthStart(c)
<1>1. /\ first \in Nat /\ G!Start(c) \in Nat
      /\ first <= G!Start(c) /\ G!Start(c) < first + MonthDays
  BY Months, StartDays
<1>2. end = IF G!Start(c) + Spacing <= first + MonthDays
            THEN G!Start(c) + Spacing ELSE first + MonthDays
  <2> DEFINE a == G!Start(c) + Spacing
  <2> DEFINE b == first + MonthDays
  <2>1. a \in Int /\ b \in Int
    BY <1>1 DEF Dated
  <2>2. end = G!Min({a, b})
    BY DEF G!AccrualEnd
  <2> HIDE DEF a, b, end
  <2>3. G!Min({a, b}) = IF a <= b THEN a ELSE b
    BY <2>1, GateBounds
  <2> QED
    BY <2>2, <2>3 DEF a, b
<1>3. end - first \in Nat /\ end - first <= MonthDays
  <2> HIDE DEF end, first
  <2> QED
    BY <1>1, <1>2 DEF Dated
<1> DEFINE accrued == G!Prorate(end - first)
<1>4. accrued \in Nat /\ accrued <= budget
  <2> HIDE DEF end, first
  <2> QED
    BY <1>3, Prorated
<1> DEFINE left == accrued - G!Committed(c)
<1>5. G!CycleLimit(c) = G!Max({0, left})
  BY DEF G!CycleLimit
<1> HIDE DEF accrued
<1>6. left \in Int
  BY <1>4
<1> HIDE DEF left
<1>7. G!Max({0, left}) = IF 0 >= left THEN 0 ELSE left
  BY <1>6, GateBounds
<1>8. left + G!Committed(c) <= budget
  BY <1>4 DEF left
<1> QED
  BY <1>2, <1>5, <1>6, <1>7, <1>8

(* The limit counts what the scheduler confirmed in the month before.      *)
LEMMA LimitCounts ==
    ASSUME Dated, Priced, budget \in Nat, G!TypeOK, Past(order, window),
           order[window].status = "draft",
           NEW total \in Nat, total > 0, ~(total > G!CycleLimit(window))
    PROVE  Charged(order, window) + total <= budget
<1> DEFINE end == G!AccrualEnd(window)
<1> DEFINE first == G!MonthStart(window)
<1>1. /\ first \in Nat /\ G!Start(window) \in Nat
      /\ first <= G!Start(window) /\ G!Start(window) < first + MonthDays
  BY Months, StartDays DEF G!TypeOK
<1> DEFINE counted == {d \in G!Cycles : /\ order[d].status = "confirmed"
                                        /\ G!Start(d) >= G!MonthStart(window)
                                        /\ G!Start(d) < G!AccrualEnd(window)}
<1>2. order \in OrderRows /\ window \in G!Cycles
  BY DEF G!TypeOK, OrderRows
<1>3. /\ counted \in SUBSET G!Cycles
      /\ Automatic(order, window) \in SUBSET G!Cycles
  BY DEF Automatic
<1>4. G!Committed(window) = SumFunctionOnSet(Totals(order), counted)
  BY GateSums DEF G!Committed, G!Spent, Totals
<1>5. G!Committed(window) \in Nat
  <2> HIDE DEF counted
  <2> QED
    BY <1>2, <1>3, <1>4, Charges
<1>6. Automatic(order, window) \in SUBSET counted
  <2> SUFFICES ASSUME NEW d \in G!Cycles, order[d].status = "confirmed",
                      G!MonthStart(d) = first
               PROVE  G!Start(d) >= first /\ G!Start(d) < end
    BY DEF Automatic
  <2>1. d < window
    <3>1. d < window \/ d = window
      BY <1>2, OpenNow
    <3>2. d # window
      OBVIOUS
    <3> QED
      BY <3>1, <3>2
  <2>2. G!Start(d) \in Nat /\ G!Start(d) < G!Start(window)
    BY <1>2, <2>1, StartDays
  <2>3. first <= G!Start(d) /\ G!Start(d) < first + MonthDays
    BY Months
  <2>4. end = IF G!Start(window) + Spacing <= first + MonthDays
              THEN G!Start(window) + Spacing ELSE first + MonthDays
    BY <1>2, <1>5, Limited
  <2> HIDE DEF end, first
  <2> QED
    BY <1>1, <2>2, <2>3, <2>4 DEF Dated
<1> HIDE DEF counted
<1>7. /\ Charged(order, window) <= G!Committed(window)
      /\ Charged(order, window) \in Nat
  <2>1. /\ IsFiniteSet(counted) /\ Naturals(Totals(order), counted)
        /\ Naturals(Totals(order), Automatic(order, window))
        /\ Charged(order, window) \in Nat
    BY <1>2, <1>3, Charges
  <2>2. \A x \in Automatic(order, window) :
          Totals(order)[x] <= Totals(order)[x]
    BY <2>1 DEF Naturals
  <2> QED
    BY <1>4, <1>6, <2>1, <2>2, SumMonotonic DEF Charged
<1>8. /\ G!CycleLimit(window) \in Nat
      /\ \/ G!CycleLimit(window) + G!Committed(window) <= budget
         \/ G!CycleLimit(window) = 0
  BY <1>2, <1>5, Limited
<1> QED
  BY <1>5, <1>7, <1>8

(* At the start nothing is spent.                                          *)
LEMMA GateStart ==
    ASSUME Dated, Priced, G!Init
    PROVE  GateInv
<1>1. G!TypeOK
  BY GateTypeStart
<1>2. \A c \in G!Cycles : order[c].status = "none"
  BY DEF G!Init, G!NoOrder
<1>3. Past(order, window)
  BY <1>2 DEF Past
<1>4. LetThrough(order, window, gate)
  BY DEF LetThrough, G!Init
<1> QED
  BY <1>1, <1>3, <1>4 DEF GateInv

(* A budget is a number, locked or not.                                    *)
LEMMA WholeBudgets == Budgeted => G!Budgets \subseteq Int
  BY DEF Budgeted, G!Budgets, G!Unlocked

(* Users, refusals and the next cycle.                                     *)
LEMMA GateOthers ==
    ASSUME Dated, Priced, Budgeted, GateInv, G!TypeOK',
           \/ G!CreateDraft
           \/ \E c \in G!Cycles :
                G!Refuse(c) \/ G!UserConfirm(c) \/ G!Cancel(c)
           \/ G!NextCycle
           \/ G!UpsertBudget
           \/ G!Crash
    PROVE  GateInv' /\ NoneConfirmed
<1>1. /\ order \in OrderRows /\ order' \in OrderRows
      /\ window \in G!Cycles /\ G!Cycles \subseteq Int
      /\ gate.total \in Nat /\ gate.budget \in Int
  <2>1. gate.total \in 0 .. G!MaxTotal /\ gate.budget \in G!Budgets
    BY DEF GateInv, G!TypeOK, G!Gate
  <2> QED
    BY <2>1, WholeBudgets DEF GateInv, G!TypeOK, OrderRows, G!Cycles, Dated
<1>2. /\ gate' \in {gate, G!Free}
      /\ \/ gate' = G!Free
         \/ /\ window' = window
            /\ order'[window] = order[window]
      /\ \A d \in G!Cycles :
           \/ order'[d] = order[d]
           \/ ~(order'[d].status = "confirmed" /\ order'[d].auto)
  <2>1. CASE G!CreateDraft
    <3>1. PICK p \in G!Previews :
            order' = [order EXCEPT ![window] =
                        G!Row("draft", G!CartTotal(G!Cart(p[1], p[2])),
                              FALSE)]
      BY <2>1 DEF G!CreateDraft
    <3>2. /\ \A d \in G!Cycles \ {window} : order'[d] = order[d]
          /\ order'[window].status = "draft"
      BY <1>1, <3>1 DEF OrderRows, G!Row
    <3>3. gate = G!Free
      BY <2>1 DEF G!CreateDraft, GateInv, LetThrough
    <3> QED
      BY <2>1, <3>2, <3>3 DEF G!CreateDraft
  <2>2. ASSUME NEW c \in G!Cycles, G!Refuse(c) \/ G!Cancel(c)
        PROVE  <1>2
    <3>1. /\ \A d \in G!Cycles \ {c} : order'[d] = order[d]
          /\ order'[c].status \in {"awaiting_user", "closed"}
          /\ UNCHANGED <<window, gate>>
      BY <1>1, <2>2 DEF G!Refuse, G!Cancel, OrderRows, G!OrderRow
    <3>2. gate = G!Free \/ c # window
      BY <2>2 DEF G!Refuse, G!Cancel, GateInv, LetThrough
    <3> QED
      BY <1>1, <3>1, <3>2
  <2>3. ASSUME NEW c \in G!Cycles, G!UserConfirm(c)
        PROVE  <1>2
    <3>1. /\ \A d \in G!Cycles \ {c} : order'[d] = order[d]
          /\ order'[c].auto = FALSE
          /\ UNCHANGED <<window, gate>>
      BY <1>1, <2>3 DEF G!UserConfirm, OrderRows, G!Row
    <3>2. gate = G!Free \/ c # window
      BY <2>3 DEF G!UserConfirm, GateInv, LetThrough
    <3> QED
      BY <1>1, <3>1, <3>2
  <2>4. CASE G!NextCycle
    <3>1. \A d \in G!Cycles :
            \/ order'[d] = order[d] \/ order'[d].status = "closed"
      BY <1>1, <2>4 DEF G!NextCycle, OrderRows, G!OrderRow
    <3> QED
      BY <2>4, <3>1 DEF G!NextCycle
  <2>5. CASE G!Crash \/ G!UpsertBudget
    BY <1>1, <2>5 DEF G!Crash, G!UpsertBudget
  <2> QED
    BY <2>1, <2>2, <2>3, <2>4, <2>5
<1>3. \A c : Charged(order', c) <= Charged(order, c)
  BY <1>1, <1>2, ChargesLess
<1>4. \A c : Charged(order, c) \in Nat /\ Charged(order', c) \in Nat
  BY <1>1, Charges
<1>5. NoneConfirmed
  BY <1>2 DEF NoneConfirmed
<1>6. LetThrough(order', window', gate')
  <2>1. CASE gate' = G!Free
    BY <2>1 DEF LetThrough
  <2>2. CASE gate' # G!Free
    BY <1>1, <1>2, <1>3, <1>4, <2>2 DEF LetThrough, GateInv
  <2> QED
    BY <2>1, <2>2
<1>7. Past(order', window')
  <2> Past(order, window)
    BY DEF GateInv
  <2>1. CASE G!CreateDraft
    <3>1. /\ window' = window
          /\ \A d \in G!Cycles \ {window} : order'[d] = order[d]
      BY <1>1, <2>1 DEF G!CreateDraft, OrderRows
    <3>2. \A d \in G!Cycles : order'[d] = order[d] \/ d = window
      BY <3>1
    <3> QED
      BY <1>1, <3>1, <3>2, PastKept
  <2>2. ASSUME NEW c \in G!Cycles, G!Refuse(c)
        PROVE  Past(order', window')
    <3>1. window' = window /\ \A d \in G!Cycles \ {c} : order'[d] = order[d]
      BY <1>1, <2>2 DEF G!Refuse, OrderRows
    <3>2. c = window
      BY <1>1, <2>2, OpenNow DEF G!Refuse
    <3>3. \A d \in G!Cycles : order'[d] = order[d] \/ d = window
      BY <3>1, <3>2
    <3> QED
      BY <1>1, <3>1, <3>3, PastKept
  <2>3. ASSUME NEW c \in G!Cycles, G!Cancel(c)
        PROVE  Past(order', window')
    <3>1. /\ \A d \in G!Cycles \ {c} : order'[d] = order[d]
          /\ order'[c].status = "closed" /\ window' = window
          /\ order[c].status # "none"
      BY <1>1, <2>3 DEF G!Cancel, G!Open, OrderRows, G!OrderRow
    <3> QED
      BY <1>1, <3>1, PastKept
  <2>4. ASSUME NEW c \in G!Cycles, G!UserConfirm(c)
        PROVE  Past(order', window')
    <3>1. /\ \A d \in G!Cycles \ {c} : order'[d] = order[d]
          /\ order'[c].status = "confirmed" /\ window' = window
          /\ c = window \/ order[c].status # "none"
      BY <1>1, <2>4 DEF G!UserConfirm, G!Open, OrderRows, G!Row
    <3> QED
      BY <1>1, <3>1, PastKept
  <2>5. CASE G!NextCycle
    <3>1. window' = window + 1
      BY <2>5 DEF G!NextCycle
    <3> SUFFICES ASSUME NEW d \in G!Cycles
                 PROVE  /\ order'[d].status \notin {"draft", "awaiting_user"}
                        /\ d > window' => order'[d].status = "none"
      BY DEF Past
    <3>2. d \in Int /\ window \in Int
      BY <1>1
    <3>3. CASE G!Open(d)
      <4>1. order'[d].status = "closed"
        BY <1>1, <2>5, <3>3 DEF G!NextCycle, OrderRows, G!OrderRow
      <4>2. d = window
        BY <1>1, <3>3, OpenNow DEF G!Open
      <4> QED
        BY <3>1, <3>2, <4>1, <4>2
    <3>4. CASE ~G!Open(d)
      <4>1. order'[d] = order[d]
        BY <2>5, <3>4 DEF G!NextCycle
      <4>2. d > window' => d > window
        BY <3>1, <3>2
      <4> QED
        BY <3>4, <4>1, <4>2 DEF Past, G!Open
    <3> QED
      BY <3>3, <3>4
  <2>6. CASE G!Crash \/ G!UpsertBudget
    BY <2>6 DEF G!Crash, G!UpsertBudget
  <2> QED
    BY <2>1, <2>2, <2>3, <2>4, <2>5, <2>6
<1> QED
  BY <1>5, <1>6, <1>7 DEF GateInv

(* What is let through fits into what is left of the month.                *)
LEMMA GateJudges ==
    ASSUME Dated, Priced, Budgeted, GateInv, G!TypeOK', NEW c \in G!Cycles,
           G!Judge(c)
    PROVE  GateInv' /\ NoneConfirmed
<1>1. /\ order \in OrderRows /\ order' \in OrderRows
      /\ window \in G!Cycles /\ G!Cycles \subseteq Int
  BY DEF GateInv, G!TypeOK, OrderRows, G!Cycles, Dated
<1>2. c = window /\ order[window].status = "draft" /\ window' = window
  BY <1>1, OpenNow DEF G!Judge, GateInv
<1>3. PICK p \in G!Previews :
        \/ /\ order' = [order EXCEPT ![c] =
                          G!Row("awaiting_user",
                                G!SnapshotTotal(G!Snapshot(p[1], p[2])),
                                FALSE)]
           /\ UNCHANGED gate
        \/ /\ ~G!OverLimit(c, G!SnapshotTotal(G!Snapshot(p[1], p[2])))
           /\ gate' = [cycle |-> c, budget |-> budget,
                       total |-> G!SnapshotTotal(G!Snapshot(p[1], p[2]))]
           /\ UNCHANGED order
  BY DEF G!Judge
<1> DEFINE total == G!SnapshotTotal(G!Snapshot(p[1], p[2]))
<1>4. total \in Nat
  <2>1. G!SnapshotTotal(G!Snapshot(p[1], p[2])) \in 0 .. G!MaxTotal
    BY Previewed, LineTotals
  <2> QED
    BY <2>1
<1>5. CASE /\ UNCHANGED order /\ ~G!OverLimit(c, total)
           /\ gate' = [cycle |-> c, budget |-> budget, total |-> total]
  <2>1. ASSUME budget # G!Unlocked, total > 0
        PROVE  Charged(order, window) + total <= budget
    <3>1. budget \in Nat
      BY <2>1 DEF GateInv, G!TypeOK, G!Budgets, Budgeted
    <3>2. ~(total > G!CycleLimit(window))
      BY <1>2, <1>5, <2>1 DEF G!OverLimit
    <3> HIDE DEF total
    <3> QED
      BY <1>2, <1>4, <2>1, <3>1, <3>2, LimitCounts DEF GateInv
  <2>2. LetThrough(order', window', gate')
    <3>1. /\ gate'.cycle = c /\ gate'.budget = budget
          /\ gate'.total = total
      BY <1>5
    <3> HIDE DEF total
    <3> QED
      BY <1>2, <1>5, <2>1, <3>1 DEF LetThrough
  <2> QED
    BY <1>2, <1>5, <2>2 DEF GateInv, NoneConfirmed
<1>6. CASE /\ order' = [order EXCEPT ![c] =
                          G!Row("awaiting_user", total, FALSE)]
           /\ UNCHANGED gate
  <2>1. /\ \A d \in G!Cycles \ {c} : order'[d] = order[d]
        /\ order'[c].status = "awaiting_user"
    BY <1>1, <1>6 DEF OrderRows, G!Row
  <2>2. gate' = G!Free
    BY <1>6 DEF G!Judge
  <2>3. Past(order', window')
    BY <1>1, <1>2, <2>1 DEF Past, GateInv
  <2>4. NoneConfirmed
    BY <2>1 DEF NoneConfirmed
  <2> QED
    BY <2>2, <2>3, <2>4 DEF GateInv, LetThrough
<1> QED
  BY <1>3, <1>5, <1>6

(* And when it is confirmed it still does.                                 *)
LEMMA GateConfirms ==
    ASSUME Dated, Priced, Budgeted, GateInv, G!TypeOK', G!AutoConfirm
    PROVE  /\ GateInv'
           /\ \A c \in G!Cycles \ {window} : order'[c] = order[c]
           /\ order'[window].total > 0 /\ gate.budget # G!Unlocked
                => Charged(order', window) <= gate.budget
<1>1. /\ order \in OrderRows /\ order' \in OrderRows
      /\ window \in G!Cycles /\ gate.total \in Nat
      /\ gate.budget \in Int
  BY WholeBudgets DEF GateInv, G!TypeOK, OrderRows, G!Gate
<1> DEFINE total == gate.total
<1>2. /\ gate.cycle = window
      /\ gate' = G!Free /\ window' = window
      /\ order' = [order EXCEPT ![gate.cycle] =
                     G!Row("confirmed", total, TRUE)]
  BY DEF G!AutoConfirm, GateInv, LetThrough
<1>3. gate.budget # G!Unlocked /\ total > 0
        => Charged(order, window) + total <= gate.budget
  BY DEF G!AutoConfirm, GateInv, LetThrough
<1>4. /\ \A d \in G!Cycles \ {window} : order'[d] = order[d]
      /\ order'[window].total = total
      /\ order'[window].status = "confirmed"
  <2> HIDE DEF total
  <2> QED
    BY <1>1, <1>2 DEF OrderRows, G!Row
<1>5. order'[window].total > 0 /\ gate.budget # G!Unlocked
        => Charged(order', window) <= gate.budget
  <2>1. Charged(order', window) <= Charged(order, window) + total
    <3> HIDE DEF total
    <3> QED
      BY <1>1, <1>4, ChargesMore
  <2>2. /\ Charged(order', window) \in Nat /\ Charged(order, window) \in Nat
        /\ total \in Nat
    <3>1. total \in Nat
      BY <1>1
    <3> HIDE DEF total
    <3> QED
      BY <1>1, <3>1, Charges
  <2> HIDE DEF total
  <2> QED
    BY <1>1, <1>3, <1>4, <2>1, <2>2
<1>6. Past(order', window')
  <2>1. Past(order, window)
    BY DEF GateInv
  <2>2. \A d \in G!Cycles : order'[d] = order[d] \/ d = window
    BY <1>4
  <2>3. window' = window
    BY <1>2
  <2> HIDE DEF total
  <2> QED
    BY <1>1, <2>1, <2>2, <2>3, PastKept
<1> QED
  BY <1>2, <1>4, <1>5, <1>6 DEF GateInv, LetThrough

(* Every step keeps the invariant.                                         *)
LEMMA GateStep ==
    ASSUME Dated, Priced, Budgeted, GateInv, [G!Next]_(G!vars)
    PROVE  GateInv'
<1>1. G!TypeOK'
  BY GateTypeStep DEF GateInv
<1>2. CASE UNCHANGED G!vars
  BY <1>1, <1>2 DEF G!vars, GateInv
<1>3. CASE G!Next
  BY <1>1, <1>3, GateOthers, GateJudges, GateConfirms DEF G!Next
<1> QED
  BY <1>2, <1>3

(* No order that costs something is confirmed by the scheduler so that     *)
(* what it has confirmed by itself in the month exceeds the locked budget  *)
(* the order was judged by (auto_confirm_order, cycle_limit), for any      *)
(* prices, budgets, spacing of the cycles and length of the month,         *)
(* whatever users confirm, cancel and change between the judgement and the *)
(* commit.                                                                 *)
THEOREM GateWithinMonth ==
    ASSUME Dated, Priced, Budgeted
    PROVE  G!Spec => G!AutoSpendWithinMonth
<1> DEFINE Step ==
      \A c \in G!Cycles :
        (/\ order[c].status # "confirmed"
         /\ order'[c].status = "confirmed" /\ order'[c].auto
         /\ order'[c].total > 0
         /\ gate.budget # G!Unlocked)
        => G!AutoSpent(c)' <= gate.budget
<1>1. G!Init => GateInv
  BY GateStart
<1>2. GateInv /\ [G!Next]_(G!vars) => GateInv'
  BY GateStep
<1>3. GateInv /\ [G!Next]_(G!vars) => [Step]_(G!vars)
  <2> SUFFICES ASSUME GateInv, G!Next, NEW c \in G!Cycles,
                      order[c].status # "confirmed",
                      order'[c].status = "confirmed", order'[c].auto,
                      order'[c].total > 0, gate.budget # G!Unlocked
               PROVE  G!AutoSpent(c)' <= gate.budget
    OBVIOUS
  <2>1. G!TypeOK'
    BY GateTypeStep DEF GateInv
  <2>2. G!AutoSpent(c)' = Charged(order', c)
    BY GateSums DEF G!AutoSpent, G!Spent, Charged, Totals, Automatic
  <2>3. ~ NoneConfirmed
    BY DEF NoneConfirmed
  <2>4. G!AutoConfirm
    BY <2>1, <2>3, GateOthers, GateJudges DEF G!Next
  <2>5. c = window
    BY <2>1, <2>4, GateConfirms
  <2> QED
    BY <2>1, <2>2, <2>4, <2>5, GateConfirms
<1> HIDE DEF Step
<1>4. G!Spec => [][Step]_(G!vars)
  BY <1>1, <1>2, <1>3, PTL DEF G!Spec
<1> QED
  BY <1>4 DEF Step, G!AutoSpendWithinMonth
=============================================================================
