------------------------------ MODULE MCSession ------------------------------
(* Tokens and calls are interchangeable: Session names none of them.       *)
EXTENDS Session, Naturals, FiniteSets, TLC

Symmetry == Permutations(Tokens) \cup Permutations(Calls)

(* Keeps the run small: four tokens, or three of which one expires or is   *)
(* of an account that goes inactive, and so on.                            *)
FewExpire == Cardinality(issued) + Cardinality(expired) + Cardinality(inactive) <= 4
==============================================================================
