---------------------------- MODULE MCCollection ----------------------------
(* Two pages, of which users select the second; one content.               *)
EXTENDS EvidenceRetention

MCPages == 1 .. 2
MCSelections == {{2}}
MCBatchSize == [d \in Domains |-> IF d = "performance" THEN 1 ELSE 2]
=============================================================================
