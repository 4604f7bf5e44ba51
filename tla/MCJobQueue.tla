----------------------------- MODULE MCJobQueue -----------------------------
(* Constants for model checking JobQueue: one slot per worker, unless named otherwise. *)
EXTENDS JobQueue, TLC

CONSTANTS j1, j2, s1, s2, w1, w2, c1

OneSlotEach == [s \in Slots |-> IF s = s1 THEN w1 ELSE w2]

AllTypes == JobTypes

\* One type of each kind of hook that a pair of jobs interferes through.
PairTypes == {"scan", "category_rule_evaluation"}

RecordTypes == JobTypes \ {"structured_content_build"}

ScanTypes == {"scan"}

StructuredTypes == {"structured_content_build"}

JobSymmetry == Permutations(Jobs)
=============================================================================
