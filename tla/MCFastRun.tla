------------------------------- MODULE MCFastRun -------------------------------
(* Small instance of FastRun.                                              *)
EXTENDS FastRun

MCChecks == <<[id |-> "FAST-008", kind |-> "assertion"], [id |-> "FAST-003", kind |-> "static"],
              [id |-> "FAST-001", kind |-> "given"], [id |-> "FAST-006", kind |-> "paths"],
              [id |-> "FAST-013", kind |-> "canary"]>>
MCMaxOutput == [s \in Streams |-> IF s = "stdout" THEN 2 ELSE 1]
=============================================================================
