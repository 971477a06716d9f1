---------------------------- MODULE Ingredients -----------------------------
(***************************************************************************)
(* The dictionary of ingredient_requirements.py, with one ingredient or    *)
(* two of every kind that the repair of a meal tells apart.                *)
(***************************************************************************)

(* per_person, the least amount for one.                                  *)
PerPerson ==
    [curry |-> 25, doenjang |-> 15, oil |-> 5, sesame_oil |-> 3, butter |-> 5,
     water |-> 300, salt |-> 1, tofu |-> 150, spinach |-> 70, egg |-> 1,
     rice |-> 200]
Keys == DOMAIN PerPerson
Fats == {"oil", "sesame_oil", "butter"}
Salty == {"salt", "doenjang"}
Composites == {"curry", "doenjang", "oil"}
(* _ALLERGEN_NAMES, and the names that contain the allergy itself.         *)
MadeOf == [soy |-> {"tofu"}, milk |-> {"butter"}, egg |-> {}]
NameHas == [soy |-> {}, milk |-> {}, egg |-> {"egg"}]
(* Ingredients outside the dictionary.                                     *)
Others == {"raw_rice", "curry_sauce", "broth", "pasta"}
=============================================================================
