------------------------------- MODULE HostProbe -------------------------------
(***************************************************************************)
(* Broad preflight beside the producers of evidence: before `preflight` or *)
(* `evidence produce` goes on, _run_state lists reports/runs, looks at one *)
(* entry after the other and holds broad work back unless all of them are  *)
(* complete runs that verify.  Producers go on meanwhile.                  *)
(*                                                                         *)
(* The listing is read at once.  Results are cached in the process, which  *)
(* asks once: the cache is left out.                                       *)
(***************************************************************************)
EXTENDS EvidenceStore

VARIABLE probe

NoProbe == [step |-> "none", listed |-> {}, ended |-> {}, verifying |-> {},
            signature |-> <<{}, {}>>, state |-> "none", failed |-> FALSE, verdict |-> "none"]
States == {"idle", "staging", "unsealed"}
Kinds == {"infrastructure-invalid", "contract-invalid"}
probeVars == <<vars, probe>>

ProbeInit == Init /\ probe = NoProbe

Found(state) == [probe EXCEPT !.step = "evaluate", !.state = state, !.verifying = {}]

(* Entries are strings of the listing: what is renamed later keeps the     *)
(* name it was found under.  (ended: the runs that have come to their end, *)
(* for the properties.)                                                    *)
ListRuns ==
  /\ probe.step \in {"none", "answered"}
  /\ probe' = [NoProbe EXCEPT !.step = "visit",
                              !.ended = {r \in Runs : pc[r] \in {"idle", "returned", "failed"}},
                              !.listed = {<<r, name[r]>> : r \in {q \in Runs : name[q] # "none"}}]
  /\ UNCHANGED vars

(* Mutant: an entry that is gone again counts as one that is not sealed.   *)
VisitMarkedNow(r) ==
  /\ probe.step = "visit" /\ probe.verifying = {} /\ <<r, "staging">> \in probe.listed
  /\ probe' = Found(IF name[r] = "staging" THEN "staging" ELSE "unsealed")
  /\ UNCHANGED vars

(* _marker_state: the name of a staging directory is enough.               *)
VisitMarked(r) ==
  /\ probe.step = "visit" /\ probe.verifying = {} /\ <<r, "staging">> \in probe.listed
  /\ probe' = Found("staging")
  /\ UNCHANGED vars

(* _verify_complete_cached: the files are stated before and behind the     *)
(* verification, and must be the same.                                     *)
BeginVerify(r) ==
  /\ probe.step = "visit" /\ probe.verifying = {} /\ <<r, "complete">> \in probe.listed
  /\ probe' = [probe EXCEPT !.verifying = {r}, !.signature = <<whole[r], partial[r]>>]
  /\ UNCHANGED vars

EndVerify(r) ==
  /\ probe.step = "visit" /\ r \in probe.verifying
  /\ probe' = IF Closed(r) /\ <<whole[r], partial[r]>> = probe.signature
              THEN [probe EXCEPT !.verifying = {}, !.listed = @ \ {<<r, "complete">>}]
              ELSE Found("unsealed")
  /\ UNCHANGED vars

AllVisited ==
  /\ probe.step = "visit" /\ probe.listed = {}
  /\ probe' = Found("idle")
  /\ UNCHANGED vars

(* An OSError while listing, stating or verifying.                         *)
ProbeFault ==
  /\ probe.step # "evaluate" /\ faults < MaxFaults
  /\ faults' = faults + 1
  /\ probe' = [NoProbe EXCEPT !.step = "evaluate", !.state = "unsealed", !.failed = TRUE]
  /\ UNCHANGED <<directory, request, pc, answered, losses>>

(* evaluate: the checks of the host fail in either kind, PF-305 fails for  *)
(* whatever is not idle; the policy's kind comes first.                    *)
Evaluate(host) ==
  /\ probe.step = "evaluate"
  /\ LET failures == host \union (IF probe.state = "idle" THEN {} ELSE {"infrastructure-invalid"})
     IN probe' = [NoProbe EXCEPT !.step = "answered",
                    !.verdict = IF "contract-invalid" \in failures THEN "contract-invalid"
                                ELSE IF failures # {} THEN "infrastructure-invalid" ELSE "pass"]
  /\ UNCHANGED vars

ProbeStep ==
  \/ ListRuns \/ AllVisited \/ \E host \in SUBSET Kinds : Evaluate(host)
  \/ \E r \in Runs : VisitMarked(r) \/ BeginVerify(r) \/ EndVerify(r)

(* Losing the power ends the probe too.                                    *)
ProbeNext ==
  \/ ProbeStep \/ ProbeFault
  \/ Next /\ IF losses' = losses THEN UNCHANGED probe ELSE probe' = NoProbe
ProbeSpec == ProbeInit /\ [][ProbeNext]_probeVars /\ \A r \in Runs : WF_vars(Step(r))

-----------------------------------------------------------------------------
ProbeTypeOK ==
  /\ TypeOK
  /\ probe.step \in {"none", "visit", "evaluate", "answered"}
  /\ probe.listed \subseteq Runs \X {"staging", "complete"}
  /\ probe.verifying \subseteq Runs /\ Cardinality(probe.verifying) <= 1
  /\ probe.state \in States \union {"none"} /\ probe.verdict \in Kinds \union {"none", "pass"}
  /\ probe.step = "evaluate" <=> probe.state # "none"
  /\ probe.step = "answered" <=> probe.verdict # "none"

(* A probe finds an unsealed run only when it could not look: producers    *)
(* that publish, fail, are killed or lose the power never make one, not    *)
(* even between two looks of a probe.                                      *)
UnsealedIsAFault == probe.state = "unsealed" => probe.failed

(* Broad work is held back by a producer that is at work or was cut off,   *)
(* never by one that had come to its end before the probe began: not one   *)
(* of the entries that can have held it back is of such a run.             *)
EndedRunsDoNotBlock ==
  probe.state = "staging" /\ losses = 0 =>
    /\ \E r \in Runs : <<r, "staging">> \in probe.listed
    /\ \A r \in probe.ended : <<r, "staging">> \notin probe.listed
=============================================================================
