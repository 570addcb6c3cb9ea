---------------------------- MODULE MCRetention ----------------------------
(* The tiers and their readers, with retentions short enough to expire.    *)
EXTENDS Reports

ShortKeep == [t \in Tier |-> IF t = "raw" THEN 2 ELSE IF t = "minute" THEN 4 ELSE 6]
LongKeep == [t \in Tier |-> IF t = "raw" THEN 3 ELSE IF t = "minute" THEN 5 ELSE 8]
=============================================================================
