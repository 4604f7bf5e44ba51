--------------------------- MODULE MCCategoryRules ---------------------------
(* Constants for model checking CategoryRules: two pages in batches of one. *)
(* The assumptions of the modules it extends are evaluated with it.         *)
EXTENDS CategoryRules, MCDocumentWalk, MCCanonicalDocuments, TLC

CONSTANTS q1, r1, r2, r3, c1

TwoPages == {1, 2}

\* One that fits a page, and one that fits none and is negated.
TwoConditions == {[fits |-> {1}, negate |-> FALSE], [fits |-> {}, negate |-> TRUE]}
=============================================================================
