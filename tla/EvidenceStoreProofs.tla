-------------------------- MODULE EvidenceStoreProofs --------------------------
(***************************************************************************)
(* Proofs about EvidenceStore and the probe beside it, for every set of    *)
(* runs, attachments and requests, and for any number of faults and power  *)
(* losses: what is called complete verifies, a failing producer cleans up, *)
(* the store implements PublishOnce, and no probe is misled.               *)
(***************************************************************************)
EXTENDS HostProbe, FiniteSetTheorems, TLAPS

(* A run that may be found under its final name, now or when the power is  *)
(* lost, is closed, and a power loss cannot take any of its files.         *)
Secured(r) == Closed(r) /\ flushed[r] = whole[r]

(* What is known of a run at each step of its producer.                    *)
RunFacts(r) ==
  /\ "complete" \in maybe[r] => name[r] = "complete" /\ Secured(r)
  /\ pc[r] = "idle" => maybe[r] = {"none"} /\ whole[r] = {} /\ partial[r] = {}
  /\ pc[r] \in Working \ {"renamed"} => name[r] = "staging"
  /\ pc[r] = "open" => "report.md" \notin whole[r] \union partial[r]
  /\ pc[r] \in {"open", "sealed", "unmarked"} => "evidence.json" \notin whole[r] \union partial[r]
  /\ pc[r] = "rooted" /\ partial[r] = {} => flushed[r] = whole[r]
  /\ pc[r] = "verified" => Secured(r)
  /\ pc[r] = "cleared" => name[r] = "staging"
  /\ pc[r] = "removed" => name[r] = "none"
  /\ pc[r] = "renamed" => name[r] = "complete"
  /\ pc[r] \in Checking \union {"returned"} => maybe[r] = {"complete"}
  /\ r \in answered => pc[r] = "returned"
  /\ pc[r] = "failed" /\ losses = 0 => name[r] # "staging"

StoreInv == TypeOK /\ \A r \in Runs : RunFacts(r)

(* A step of one run leaves the others as they are.                        *)
Same(r) ==
  /\ name'[r] = name[r] /\ maybe'[r] = maybe[r] /\ whole'[r] = whole[r]
  /\ partial'[r] = partial[r] /\ flushed'[r] = flushed[r] /\ request'[r] = request[r]
  /\ pc'[r] = pc[r] /\ (r \in answered' <=> r \in answered)

LEMMA OtherRuns ==
  ASSUME NEW r, RunFacts(r), Same(r), losses' = losses
  PROVE  RunFacts(r)'
BY DEF Same, RunFacts, Secured, Closed

(* The invariant is kept by a step of run r when r keeps its own facts.    *)
LEMMA OneRun ==
  ASSUME StoreInv, NEW r \in Runs, TypeOK', RunFacts(r)', losses' = losses,
         \A q \in Runs \ {r} : Same(q)
  PROVE  StoreInv'
<1>1. ASSUME NEW q \in Runs PROVE RunFacts(q)'
  <2>1. CASE q = r
    BY <2>1
  <2>2. CASE q # r
    BY <2>2, OtherRuns DEF StoreInv
  <2> QED BY <2>1, <2>2
<1> QED BY <1>1 DEF StoreInv

LEMMA InitInv == Init => StoreInv
<1> SUFFICES ASSUME Init PROVE StoreInv
  OBVIOUS
<1>1. NoRequest \in Request
  BY DEF NoRequest, Request, Verdicts
<1>2. TypeOK
  BY <1>1, StoreAssumption DEF Init, TypeOK
<1>3. \A r \in Runs : RunFacts(r)
  BY DEF Init, RunFacts, Working, Checking
<1> QED BY <1>2, <1>3 DEF StoreInv

-----------------------------------------------------------------------------
LEMMA EndWriteStep ==
  ASSUME StoreInv, NEW r \in Runs, EndWrite(r)
  PROVE  StoreInv'
<1> USE DEF EndWrite, At, Goto, Becomes, BeginWrite, directory
<1>1. TypeOK'
  BY StoreAssumption DEF StoreInv, TypeOK, RunFacts, Secured, Closed, Files, Working, Aborting, Checking, Ended
<1>2. \A q \in Runs \ {r} : Same(q)
  BY DEF StoreInv, TypeOK, Same
<1>3. RunFacts(r)'
  BY DEF StoreInv, TypeOK, RunFacts, Secured, Closed, Working, Aborting, Checking, Ended
<1> QED BY <1>1, <1>2, <1>3, OneRun

LEMMA RemoveMarkerStep ==
  ASSUME StoreInv, NEW r \in Runs, RemoveMarker(r)
  PROVE  StoreInv'
<1> USE DEF RemoveMarker, At, Goto, Becomes, BeginWrite, directory
<1>1. TypeOK'
  BY StoreAssumption DEF StoreInv, TypeOK, RunFacts, Secured, Closed, Files, Working, Aborting, Checking, Ended
<1>2. \A q \in Runs \ {r} : Same(q)
  BY DEF StoreInv, TypeOK, Same
<1>3. RunFacts(r)'
  BY DEF StoreInv, TypeOK, RunFacts, Secured, Closed, Working, Aborting, Checking, Ended
<1> QED BY <1>1, <1>2, <1>3, OneRun

LEMMA WriteRootStep ==
  ASSUME StoreInv, NEW r \in Runs, WriteRoot(r)
  PROVE  StoreInv'
<1> USE DEF WriteRoot, At, Goto, Becomes, BeginWrite, directory
<1>1. TypeOK'
  BY StoreAssumption DEF StoreInv, TypeOK, RunFacts, Secured, Closed, Files, Working, Aborting, Checking, Ended
<1>2. \A q \in Runs \ {r} : Same(q)
  BY DEF StoreInv, TypeOK, Same
<1>3. RunFacts(r)'
  BY DEF StoreInv, TypeOK, RunFacts, Secured, Closed, Working, Aborting, Checking, Ended
<1> QED BY <1>1, <1>2, <1>3, OneRun

LEMMA VerifyStagedStep ==
  ASSUME StoreInv, NEW r \in Runs, VerifyStaged(r)
  PROVE  StoreInv'
<1> USE DEF VerifyStaged, At, Goto, Becomes, BeginWrite, directory
<1>1. TypeOK'
  BY StoreAssumption DEF StoreInv, TypeOK, RunFacts, Secured, Closed, Files, Working, Aborting, Checking, Ended
<1>2. \A q \in Runs \ {r} : Same(q)
  BY DEF StoreInv, TypeOK, Same
<1>3. RunFacts(r)'
  BY DEF StoreInv, TypeOK, RunFacts, Secured, Closed, Working, Aborting, Checking, Ended
<1> QED BY <1>1, <1>2, <1>3, OneRun

LEMMA PublishStep ==
  ASSUME StoreInv, NEW r \in Runs, Publish(r)
  PROVE  StoreInv'
<1> USE DEF Publish, At, Goto, Becomes, BeginWrite, directory
<1>1. TypeOK'
  BY StoreAssumption DEF StoreInv, TypeOK, RunFacts, Secured, Closed, Files, Working, Aborting, Checking, Ended
<1>2. \A q \in Runs \ {r} : Same(q)
  BY DEF StoreInv, TypeOK, Same
<1>3. RunFacts(r)'
  BY DEF StoreInv, TypeOK, RunFacts, Secured, Closed, Working, Aborting, Checking, Ended
<1> QED BY <1>1, <1>2, <1>3, OneRun

LEMMA SyncRunsStep ==
  ASSUME StoreInv, NEW r \in Runs, SyncRuns(r)
  PROVE  StoreInv'
<1> USE DEF SyncRuns, At, Goto, Becomes, BeginWrite, directory
<1>1. TypeOK'
  BY StoreAssumption DEF StoreInv, TypeOK, RunFacts, Secured, Closed, Files, Working, Aborting, Checking, Ended
<1>2. \A q \in Runs \ {r} : Same(q)
  BY DEF StoreInv, TypeOK, Same
<1>3. RunFacts(r)'
  BY DEF StoreInv, TypeOK, RunFacts, Secured, Closed, Working, Aborting, Checking, Ended
<1> QED BY <1>1, <1>2, <1>3, OneRun

LEMMA VerifyPublishedStep ==
  ASSUME StoreInv, NEW r \in Runs, VerifyPublished(r)
  PROVE  StoreInv'
<1> USE DEF VerifyPublished, At, Goto, Becomes, BeginWrite, directory
<1>1. TypeOK'
  BY StoreAssumption DEF StoreInv, TypeOK, RunFacts, Secured, Closed, Files, Working, Aborting, Checking, Ended
<1>2. \A q \in Runs \ {r} : Same(q)
  BY DEF StoreInv, TypeOK, Same
<1>3. RunFacts(r)'
  BY DEF StoreInv, TypeOK, RunFacts, Secured, Closed, Working, Aborting, Checking, Ended
<1> QED BY <1>1, <1>2, <1>3, OneRun

LEMMA RecheckCandidateStep ==
  ASSUME StoreInv, NEW r \in Runs, RecheckCandidate(r)
  PROVE  StoreInv'
<1> USE DEF RecheckCandidate, At, Goto, Becomes, BeginWrite, directory
<1>1. TypeOK'
  BY StoreAssumption DEF StoreInv, TypeOK, RunFacts, Secured, Closed, Files, Working, Aborting, Checking, Ended
<1>2. \A q \in Runs \ {r} : Same(q)
  BY DEF StoreInv, TypeOK, Same
<1>3. RunFacts(r)'
  BY DEF StoreInv, TypeOK, RunFacts, Secured, Closed, Working, Aborting, Checking, Ended
<1> QED BY <1>1, <1>2, <1>3, OneRun

LEMMA ClearStagingStep ==
  ASSUME StoreInv, NEW r \in Runs, ClearStaging(r)
  PROVE  StoreInv'
<1> USE DEF ClearStaging, At, Goto, Becomes, BeginWrite, directory
<1>1. TypeOK'
  BY StoreAssumption DEF StoreInv, TypeOK, RunFacts, Secured, Closed, Files, Working, Aborting, Checking, Ended
<1>2. \A q \in Runs \ {r} : Same(q)
  BY DEF StoreInv, TypeOK, Same
<1>3. RunFacts(r)'
  BY DEF StoreInv, TypeOK, RunFacts, Secured, Closed, Working, Aborting, Checking, Ended
<1> QED BY <1>1, <1>2, <1>3, OneRun

LEMMA RemoveStagingStep ==
  ASSUME StoreInv, NEW r \in Runs, RemoveStaging(r)
  PROVE  StoreInv'
<1> USE DEF RemoveStaging, At, Goto, Becomes, BeginWrite, directory
<1>1. TypeOK'
  BY StoreAssumption DEF StoreInv, TypeOK, RunFacts, Secured, Closed, Files, Working, Aborting, Checking, Ended
<1>2. \A q \in Runs \ {r} : Same(q)
  BY DEF StoreInv, TypeOK, Same
<1>3. RunFacts(r)'
  BY DEF StoreInv, TypeOK, RunFacts, Secured, Closed, Working, Aborting, Checking, Ended
<1> QED BY <1>1, <1>2, <1>3, OneRun

LEMMA SyncRemovalStep ==
  ASSUME StoreInv, NEW r \in Runs, SyncRemoval(r)
  PROVE  StoreInv'
<1> USE DEF SyncRemoval, At, Goto, Becomes, BeginWrite, directory
<1>1. TypeOK'
  BY StoreAssumption DEF StoreInv, TypeOK, RunFacts, Secured, Closed, Files, Working, Aborting, Checking, Ended
<1>2. \A q \in Runs \ {r} : Same(q)
  BY DEF StoreInv, TypeOK, Same
<1>3. RunFacts(r)'
  BY DEF StoreInv, TypeOK, RunFacts, Secured, Closed, Working, Aborting, Checking, Ended
<1> QED BY <1>1, <1>2, <1>3, OneRun

LEMMA CreateStep ==
  ASSUME StoreInv, NEW r \in Runs, Create(r)
  PROVE  StoreInv'
<1> USE DEF Create, At, Goto, Becomes, BeginWrite, directory
<1>1. TypeOK'
  BY StoreAssumption DEF StoreInv, TypeOK, RunFacts, Secured, Closed, Files, Working, Aborting, Checking, Ended
<1>2. \A q \in Runs \ {r} : Same(q)
  BY DEF StoreInv, TypeOK, Same
<1>3. RunFacts(r)'
  BY DEF StoreInv, TypeOK, RunFacts, Secured, Closed, Working, Aborting, Checking, Ended
<1> QED BY <1>1, <1>2, <1>3, OneRun
LEMMA SnapshotBytesStep ==
  ASSUME StoreInv, NEW r \in Runs, NEW l \in Leaves, SnapshotBytes(r, l)
  PROVE  StoreInv'
<1> USE DEF SnapshotBytes, At, Goto, Becomes, BeginWrite, directory
<1>1. TypeOK'
  BY StoreAssumption DEF StoreInv, TypeOK, RunFacts, Secured, Closed, Files, Working, Aborting, Checking, Ended
<1>2. \A q \in Runs \ {r} : Same(q)
  BY DEF StoreInv, TypeOK, Same
<1>3. RunFacts(r)'
  BY StoreAssumption DEF StoreInv, TypeOK, RunFacts, Secured, Closed, Working, Aborting, Checking, Ended
<1> QED BY <1>1, <1>2, <1>3, OneRun

LEMMA FinalizeStep ==
  ASSUME StoreInv, NEW r \in Runs, NEW q \in Requests, Finalize(r, q)
  PROVE  StoreInv'
<1> USE DEF Finalize, At, Goto, Becomes, BeginWrite, directory
<1>1. TypeOK'
  BY StoreAssumption DEF StoreInv, TypeOK, RunFacts, Secured, Closed, Files, Working, Aborting, Checking, Ended
<1>2. \A o \in Runs \ {r} : Same(o)
  BY DEF StoreInv, TypeOK, Same
<1>3. RunFacts(r)'
  BY StoreAssumption DEF StoreInv, TypeOK, RunFacts, Secured, Closed, Working, Aborting, Checking, Ended
<1> QED BY <1>1, <1>2, <1>3, OneRun

LEMMA FaultStep ==
  ASSUME StoreInv, NEW r \in Runs, Fault(r)
  PROVE  StoreInv'
<1> USE DEF Fault, At, Goto, Becomes, BeginWrite, directory
<1>1. TypeOK'
  BY StoreAssumption DEF StoreInv, TypeOK, RunFacts, Secured, Closed, Files, Working, Aborting, Checking, Ended
<1>2. \A q \in Runs \ {r} : Same(q)
  BY DEF StoreInv, TypeOK, Same
<1>3. RunFacts(r)'
  BY StoreAssumption DEF StoreInv, TypeOK, RunFacts, Secured, Closed, Working, Aborting, Checking, Ended
<1> QED BY <1>1, <1>2, <1>3, OneRun

LEMMA KillStep ==
  ASSUME StoreInv, NEW r \in Runs, Kill(r)
  PROVE  StoreInv'
<1> USE DEF Kill, At, Goto, Becomes, BeginWrite, directory
<1>1. TypeOK'
  BY StoreAssumption DEF StoreInv, TypeOK, RunFacts, Secured, Closed, Files, Working, Aborting, Checking, Ended
<1>2. \A q \in Runs \ {r} : Same(q)
  BY DEF StoreInv, TypeOK, Same
<1>3. RunFacts(r)'
  BY StoreAssumption DEF StoreInv, TypeOK, RunFacts, Secured, Closed, Working, Aborting, Checking, Ended
<1> QED BY <1>1, <1>2, <1>3, OneRun


(* Losing the power leaves of every run what its directory was synced      *)
(* with: nothing less of a run that may be complete.                       *)
LEMMA PowerLossStep ==
  ASSUME StoreInv, PowerLoss
  PROVE  StoreInv'
<1> USE DEF PowerLoss
<1>1. TypeOK'
  BY StoreAssumption DEF StoreInv, TypeOK, Ended
<1>2. ASSUME NEW r \in Runs PROVE RunFacts(r)'
  <2>1. /\ name'[r] \in maybe[r] /\ maybe'[r] = {name'[r]} /\ flushed'[r] = whole'[r]
        /\ whole'[r] \subseteq whole[r] \union flushed[r] /\ whole[r] \intersect flushed[r] \subseteq whole'[r]
        /\ partial'[r] \subseteq (whole[r] \ flushed[r]) \union partial[r]
        /\ name'[r] = "none" => whole'[r] = {} /\ partial'[r] = {}
    BY DEF StoreInv, TypeOK
  <2>2. /\ pc'[r] = IF pc[r] \in {"idle"} \union Ended THEN pc[r] ELSE "dead"
        /\ losses' # 0 /\ request'[r] = request[r] /\ answered' = answered
    BY StoreAssumption DEF StoreInv, TypeOK
  <2>3. "complete" \in maybe'[r] => name'[r] = "complete" /\ Secured(r)'
    BY <2>1, <2>2 DEF StoreInv, RunFacts, Secured, Closed
  <2> QED BY <2>1, <2>2, <2>3 DEF StoreInv, RunFacts, Working, Checking, Ended
<1> QED BY <1>1, <1>2 DEF StoreInv

LEMMA NextInv == StoreInv /\ [Next]_vars => StoreInv'
<1> SUFFICES ASSUME StoreInv, [Next]_vars PROVE StoreInv'
  OBVIOUS
<1>1. ASSUME NEW r \in Runs, Step(r) PROVE StoreInv'
  BY <1>1, EndWriteStep, RemoveMarkerStep, WriteRootStep, VerifyStagedStep, PublishStep, SyncRunsStep,
     VerifyPublishedStep, RecheckCandidateStep, ClearStagingStep, RemoveStagingStep, SyncRemovalStep,
     FinalizeStep DEF Step
<1>2. ASSUME NEW r \in Runs, Create(r) \/ (\E l \in Leaves : SnapshotBytes(r, l)) \/ Fault(r) \/ Kill(r)
      PROVE  StoreInv'
  BY <1>2, CreateStep, SnapshotBytesStep, FaultStep, KillStep
<1>3. CASE PowerLoss
  BY <1>3, PowerLossStep
<1>4. CASE UNCHANGED vars
  <2>1. \A r \in Runs : Same(r)
    BY <1>4 DEF vars, directory, Same
  <2>2. TypeOK'
    BY <1>4 DEF StoreInv, TypeOK, vars, directory
  <2> QED BY <1>4, <2>1, <2>2, OtherRuns DEF StoreInv, vars
<1> QED BY <1>1, <1>2, <1>3, <1>4 DEF Next

-----------------------------------------------------------------------------
(* The store keeps its types, and every run what is known of its step.     *)
THEOREM StoreInvariant == Spec => []StoreInv
<1> QED BY InitInv, NextInv, PTL DEF Spec

(* What has the name of a complete run verifies, whatever failed, was      *)
(* aborted, was killed or was lost (EvidenceWriter, verify_evidence).      *)
THEOREM PublishedAlwaysVerifies == Spec => []PublishedVerifies
<1>1. StoreInv => PublishedVerifies
  BY DEF StoreInv, TypeOK, RunFacts, Secured, PublishedVerifies
<1> QED BY <1>1, StoreInvariant, PTL

(* A producer that fails has removed its staging directory (abort), unless *)
(* that was cut off or the power was lost.                                 *)
THEOREM FailuresAlwaysCleanUp == Spec => []FailureCleansUp
<1>1. StoreInv => FailureCleansUp
  BY DEF StoreInv, RunFacts, FailureCleansUp
<1> QED BY <1>1, StoreInvariant, PTL

-----------------------------------------------------------------------------
(* What PublishOnce sees under the name of a run.                          *)
Published(r) == IF name[r] = "complete" THEN <<request[r], Closed(r)>> ELSE <<NoRequest, FALSE>>
StoreView == [r \in Runs |-> Published(r)]

(* Only publication and losing the power change what is seen.              *)
LEMMA SeenUnchanged ==
  ASSUME StoreInv, StoreInv', NEW r \in Runs, name'[r] = name[r],
         name[r] = "complete" => request'[r] = request[r]
  PROVE  Published(r)' = Published(r)
<1>1. name[r] = "complete" => Closed(r) /\ Closed(r)'
  BY DEF StoreInv, TypeOK, RunFacts, Secured
<1> QED BY <1>1 DEF Published

LEMMA StepView ==
  ASSUME StoreInv, StoreInv', NEW r \in Runs,
         Step(r) \/ Create(r) \/ (\E l \in Leaves : SnapshotBytes(r, l)) \/ Fault(r) \/ Kill(r),
         ~Publish(r), ~RecheckCandidate(r)
  PROVE  StoreView' = StoreView /\ answered' = answered
<1>1. answered' = answered
  BY DEF Step, EndWrite, RemoveMarker, WriteRoot, VerifyStaged, SyncRuns, VerifyPublished, ClearStaging,
         RemoveStaging, SyncRemoval, Finalize, Create, SnapshotBytes, Fault, Kill
<1>2. CASE UNCHANGED <<name, request>>
  <2>1. \A q \in Runs : Published(q)' = Published(q)
    BY <1>2, SeenUnchanged
  <2> QED BY <1>1, <2>1 DEF StoreView
<1>3. CASE Create(r) \/ RemoveStaging(r)
  <2>1. name[r] # "complete" /\ name'[r] # "complete" /\ \A q \in Runs \ {r} : name'[q] = name[q]
    BY <1>3 DEF Create, RemoveStaging, Becomes, StoreInv, TypeOK, RunFacts
  <2>2. request' = request
    BY <1>3 DEF Create, RemoveStaging
  <2>3. Published(r)' = Published(r)
    BY <2>1 DEF Published
  <2>4. ASSUME NEW q \in Runs \ {r} PROVE Published(q)' = Published(q)
    BY <2>1, <2>2, SeenUnchanged
  <2> QED BY <1>1, <2>3, <2>4 DEF StoreView
<1>4. ASSUME NEW o \in Requests, Finalize(r, o) PROVE StoreView' = StoreView
  <2>1. name' = name /\ name[r] # "complete" /\ \A q \in Runs \ {r} : request'[q] = request[q]
    BY <1>4 DEF Finalize, At, Working, StoreInv, TypeOK, RunFacts
  <2> QED BY <2>1, SeenUnchanged DEF StoreView
<1>5. UNCHANGED <<name, request>> \/ Create(r) \/ RemoveStaging(r) \/ \E o \in Requests : Finalize(r, o)
  BY DEF Step, EndWrite, RemoveMarker, WriteRoot, VerifyStaged, SyncRuns, VerifyPublished, ClearStaging,
         SyncRemoval, SnapshotBytes, Fault, Kill, directory
<1> QED BY <1>1, <1>2, <1>3, <1>4, <1>5

(* Renaming the staging directory publishes what finalize was given.       *)
LEMMA PublishView ==
  ASSUME StoreInv, StoreInv', NEW r \in Runs, Publish(r)
  PROVE  Store!Publish(r)
<1>1. name[r] = "staging" /\ name'[r] = "complete" /\ request' = request /\ answered' = answered
      /\ \A q \in Runs \ {r} : name'[q] = name[q]
  BY DEF Publish, At, Becomes, Working, StoreInv, TypeOK, RunFacts
<1>2. Published(r) = <<NoRequest, FALSE>>
  BY <1>1 DEF Published
<1>3. Closed(r)' /\ request[r] \in Request
  BY <1>1 DEF StoreInv, TypeOK, RunFacts, Secured
<1>4. Consistent(request[r]) /\ Published(r)' = <<request[r], TRUE>>
  BY <1>1, <1>3 DEF Published, Closed
<1>5. ASSUME NEW q \in Runs \ {r} PROVE Published(q)' = Published(q)
  BY <1>1, SeenUnchanged
<1>6. StoreView' = [StoreView EXCEPT ![r] = <<request[r], TRUE>>]
  BY <1>4, <1>5 DEF StoreView
<1>7. <<request[r], TRUE>> \in {q \in Request : Consistent(q)} \X {TRUE}
  BY <1>3, <1>4
<1> QED BY <1>1, <1>2, <1>6, <1>7 DEF Store!Publish, StoreView, Published

(* A run the caller is told of is there.                                   *)
LEMMA RecheckView ==
  ASSUME StoreInv, StoreInv', NEW r \in Runs, RecheckCandidate(r)
  PROVE  Store!Confirm(r) \/ (StoreView' = StoreView /\ answered' = answered)
<1>1. UNCHANGED <<name, request>> /\ pc[r] = "checked"
  BY DEF RecheckCandidate, directory
<1>2. StoreView' = StoreView
  BY <1>1, SeenUnchanged DEF StoreView
<1>3. name[r] = "complete" /\ Closed(r)
  BY <1>1 DEF StoreInv, TypeOK, RunFacts, Checking, Secured
<1>4. Published(r) # <<NoRequest, FALSE>>
  BY <1>3 DEF Published
<1> QED BY <1>2, <1>4 DEF RecheckCandidate, Store!Confirm, StoreView, Published

(* A power loss takes back only runs that no caller was told of.           *)
LEMMA LossView ==
  ASSUME StoreInv, StoreInv', PowerLoss
  PROVE  Store!Lose
<1> DEFINE lost == {r \in Runs : name[r] = "complete" /\ name'[r] # "complete"}
<1>1. request' = request /\ answered' = answered /\ \A r \in Runs : name'[r] \in maybe[r]
  BY DEF PowerLoss
<1>2. lost \in SUBSET (Runs \ answered)
  BY <1>1 DEF StoreInv, RunFacts, TypeOK
<1>3. ASSUME NEW r \in Runs
      PROVE  Published(r)' = IF r \in lost THEN <<NoRequest, FALSE>> ELSE Published(r)
  <2>1. CASE r \in lost
    BY <2>1 DEF Published
  <2>2. CASE name'[r] = "complete"
    <3>1. name[r] = "complete"
      BY <1>1, <2>2 DEF StoreInv, RunFacts
    <3> QED BY <1>1, <2>2, <3>1, SeenUnchanged
  <2>3. CASE name[r] # "complete" /\ name'[r] # "complete"
    BY <2>3 DEF Published
  <2> QED BY <2>1, <2>2, <2>3
<1>4. StoreView' = [r \in Runs |-> IF r \in lost THEN <<NoRequest, FALSE>> ELSE StoreView[r]]
  BY <1>3 DEF StoreView
<1> QED BY <1>1, <1>2, <1>4 DEF Store!Lose, StoreView, Published

(* No step does anything that PublishOnce does not allow.                  *)
LEMMA ViewStep ==
  StoreInv /\ StoreInv' /\ [Next]_vars => [Store!Next]_<<StoreView, answered>>
<1> SUFFICES ASSUME StoreInv, StoreInv', [Next]_vars PROVE [Store!Next]_<<StoreView, answered>>
  OBVIOUS
<1>1. ASSUME NEW r \in Runs, Publish(r) PROVE Store!Next
  BY <1>1, PublishView DEF Store!Next
<1>2. ASSUME NEW r \in Runs, RecheckCandidate(r) PROVE [Store!Next]_<<StoreView, answered>>
  BY <1>2, RecheckView DEF Store!Next
<1>3. CASE PowerLoss
  BY <1>3, LossView DEF Store!Next
<1>4. CASE UNCHANGED <<name, request, answered>>
  <2>1. \A r \in Runs : Published(r)' = Published(r)
    BY <1>4, SeenUnchanged
  <2> QED BY <1>4, <2>1 DEF StoreView
<1>5. ASSUME NEW r \in Runs, ~Publish(r), ~RecheckCandidate(r),
             Step(r) \/ Create(r) \/ (\E l \in Leaves : SnapshotBytes(r, l)) \/ Fault(r) \/ Kill(r)
      PROVE  [Store!Next]_<<StoreView, answered>>
  BY <1>5, StepView
<1> QED BY <1>1, <1>2, <1>3, <1>4, <1>5 DEF Next, vars, directory

(* Evidence runs are published once, whole and unchanging, and none that a *)
(* caller was told of is ever lost.                                        *)
THEOREM StoreImplementsPublishOnce == Spec => StoreSpec
<1>1. Init => Store!Init
  BY DEF Init, Store!Init
<1>2. StoreInv /\ StoreInv' /\ [Next]_vars =>
        [Store!Next]_<<[r \in Runs |-> IF name[r] = "complete" THEN <<request[r], Closed(r)>>
                                       ELSE <<NoRequest, FALSE>>], answered>>
  BY ViewStep DEF StoreView, Published
<1> QED BY <1>1, <1>2, StoreInvariant, PTL DEF Spec, StoreSpec, Store!Spec

-----------------------------------------------------------------------------
(***************************************************************************)
(* The probe.  What it found under the name of a complete run is still one *)
(* when it looks again, and what it found as a staging directory belonged  *)
(* to a run that had not ended.                                            *)
(***************************************************************************)
ProbeRecord ==
  [step : {"none", "visit", "evaluate", "answered"}, listed : SUBSET (Runs \X {"staging", "complete"}),
   ended : SUBSET Runs, verifying : SUBSET Runs, signature : (SUBSET Files) \X (SUBSET Files),
   state : States \union {"none"}, failed : BOOLEAN, verdict : Kinds \union {"none", "pass"}]

ListingFacts(p) ==
  \A r \in Runs : /\ <<r, "complete">> \in p.listed \/ r \in p.verifying => name[r] = "complete"
                  /\ <<r, "staging">> \in p.listed /\ losses = 0 => r \notin p.ended

VerifyFacts(p) ==
  /\ p.verifying = {} \/ \E r \in Runs : p.verifying = {r}
  /\ \A r \in p.verifying : p.signature = <<whole[r], partial[r]>>

AnswerFacts(p) ==
  /\ p.step = "evaluate" <=> p.state # "none"
  /\ p.step = "answered" <=> p.verdict # "none"
  /\ p.state = "unsealed" => p.failed
  /\ p.state = "staging" => \E r \in Runs : <<r, "staging">> \in p.listed

ProbeFacts(p) == p \in ProbeRecord /\ ListingFacts(p) /\ VerifyFacts(p) /\ AnswerFacts(p)
ProbeInv == StoreInv /\ ProbeFacts(probe)

LEMMA NoProbeFacts == ProbeFacts(NoProbe)
BY DEF ProbeFacts, NoProbe, ProbeRecord, ListingFacts, VerifyFacts, AnswerFacts, States, Kinds

(* A producer leaves what is published as it is.                           *)
LEMMA PublishedStays ==
  ASSUME StoreInv, [Next]_vars, losses' = losses, NEW r \in Runs, name[r] = "complete"
  PROVE  name'[r] = "complete" /\ whole'[r] = whole[r] /\ partial'[r] = partial[r]
<1>1. ~PowerLoss
  BY StoreAssumption DEF PowerLoss, StoreInv, TypeOK
<1>2. Closed(r)
  BY DEF StoreInv, TypeOK, RunFacts, Secured
<1>3. ASSUME NEW q \in Runs,
             Step(q) \/ Create(q) \/ (\E l \in Leaves : SnapshotBytes(q, l)) \/ Fault(q) \/ Kill(q)
      PROVE  name'[r] = "complete" /\ whole'[r] = whole[r] /\ partial'[r] = partial[r]
  <2>1. CASE q # r
    BY <1>3, <2>1
    DEF Step, EndWrite, RemoveMarker, WriteRoot, VerifyStaged, Publish, SyncRuns, VerifyPublished,
        RecheckCandidate, ClearStaging, RemoveStaging, SyncRemoval, Finalize, Create, SnapshotBytes,
        Fault, Kill, At, Becomes, BeginWrite, directory, StoreInv, TypeOK
  <2>2. CASE q = r
    <3>1. pc[r] \notin Working \ {"renamed"} /\ pc[r] \notin {"idle", "cleared", "removed"} /\ partial[r] = {}
      BY <1>2 DEF StoreInv, TypeOK, RunFacts, Closed
    <3> QED BY <1>3, <2>2, <3>1
        DEF Step, EndWrite, RemoveMarker, WriteRoot, VerifyStaged, Publish, SyncRuns, VerifyPublished,
            RecheckCandidate, ClearStaging, RemoveStaging, SyncRemoval, Finalize, Create, SnapshotBytes,
            Fault, Kill, At, Becomes, BeginWrite, directory, Working
  <2> QED BY <2>1, <2>2
<1>4. CASE UNCHANGED vars
  BY <1>4 DEF vars, directory
<1> QED BY <1>1, <1>3, <1>4 DEF Next

LEMMA ProducerStep ==
  ASSUME ProbeInv, Next, IF losses' = losses THEN UNCHANGED probe ELSE probe' = NoProbe
  PROVE  ProbeInv'
<1>1. StoreInv'
  BY NextInv DEF ProbeInv
<1>2. CASE losses' = losses
  <2>1. ASSUME NEW r \in Runs, name[r] = "complete"
        PROVE  name'[r] = "complete" /\ whole'[r] = whole[r] /\ partial'[r] = partial[r]
    BY <1>2, <2>1, PublishedStays DEF ProbeInv
  <2>2. probe' = probe /\ ListingFacts(probe) /\ VerifyFacts(probe) /\ probe.verifying \subseteq Runs
    BY <1>2 DEF ProbeInv, ProbeFacts, ProbeRecord
  <2>3. ListingFacts(probe)'
    BY <1>2, <2>1, <2>2 DEF ListingFacts
  <2>4. VerifyFacts(probe)'
    BY <2>1, <2>2 DEF VerifyFacts, ListingFacts
  <2>5. AnswerFacts(probe)' /\ (probe \in ProbeRecord)'
    BY <1>2, <2>2 DEF ProbeInv, ProbeFacts, AnswerFacts, ProbeRecord, Files, States, Kinds
  <2> QED BY <1>1, <2>3, <2>4, <2>5 DEF ProbeInv, ProbeFacts
<1>3. CASE losses' # losses
  <2>1. ListingFacts(probe)' /\ VerifyFacts(probe)' /\ AnswerFacts(probe)'
    BY <1>3, NoProbeFacts DEF ProbeFacts, NoProbe, ListingFacts, VerifyFacts, AnswerFacts
  <2> QED BY <1>1, <1>3, <2>1, NoProbeFacts DEF ProbeInv, ProbeFacts
<1> QED BY <1>2, <1>3

(* The probe's own steps leave the store alone.                            *)
LEMMA QuietStep ==
  ASSUME ProbeInv, UNCHANGED vars, ProbeFacts(probe')
  PROVE  ProbeInv'
<1>1. StoreInv'
  BY NextInv DEF ProbeInv
<1>2. ProbeFacts(probe)'
  BY DEF vars, directory, ProbeFacts, ListingFacts, VerifyFacts, AnswerFacts, ProbeRecord, Files, States, Kinds
<1> QED BY <1>1, <1>2 DEF ProbeInv

LEMMA ListRunsStep ==
  ASSUME ProbeInv, ListRuns
  PROVE  ProbeInv'
<1> DEFINE found == {<<r, name[r]>> : r \in {q \in Runs : name[q] # "none"}}
           over == {r \in Runs : pc[r] \in {"idle", "returned", "failed"}}
<1>1. probe' = [NoProbe EXCEPT !.step = "visit", !.ended = over, !.listed = found]
  BY DEF ListRuns
<1>2. found \subseteq Runs \X {"staging", "complete"} /\ over \subseteq Runs
  BY DEF ProbeInv, StoreInv, TypeOK
<1>3. ASSUME NEW r \in Runs
      PROVE  /\ <<r, "complete">> \in found => name[r] = "complete"
             /\ <<r, "staging">> \in found /\ losses = 0 => r \notin over
  BY DEF ProbeInv, StoreInv, TypeOK, RunFacts, Checking
<1> HIDE DEF found, over
<1>4. /\ probe' \in ProbeRecord /\ probe'.listed = found /\ probe'.ended = over /\ probe'.verifying = {}
      /\ probe'.step = "visit" /\ probe'.state = "none" /\ probe'.verdict = "none"
  BY <1>1, <1>2 DEF NoProbe, ProbeRecord, States, Kinds
<1>5. ProbeFacts(probe')
  BY <1>3, <1>4 DEF ProbeFacts, ListingFacts, VerifyFacts, AnswerFacts
<1> QED BY <1>5, QuietStep DEF ListRuns

(* A probe that is done with its entries has found what it was told.       *)
LEMMA FoundFacts ==
  ASSUME ProbeInv, probe.step = "visit", NEW state \in States,
         state # "unsealed", state = "staging" => \E r \in Runs : <<r, "staging">> \in probe.listed
  PROVE  ProbeFacts(Found(state))
<1>1. /\ Found(state) \in ProbeRecord /\ Found(state).listed = probe.listed
      /\ Found(state).ended = probe.ended /\ Found(state).verifying = {}
      /\ Found(state).step = "evaluate" /\ Found(state).state = state
      /\ Found(state).verdict = probe.verdict
  BY DEF Found, ProbeInv, ProbeFacts, ProbeRecord, States
<1> QED BY <1>1 DEF ProbeInv, ProbeFacts, ListingFacts, VerifyFacts, AnswerFacts, States

LEMMA VisitMarkedStep ==
  ASSUME ProbeInv, NEW r \in Runs, VisitMarked(r)
  PROVE  ProbeInv'
<1>1. ProbeFacts(Found("staging"))
  BY FoundFacts DEF VisitMarked, States
<1> QED BY <1>1, QuietStep DEF VisitMarked

LEMMA AllVisitedStep ==
  ASSUME ProbeInv, AllVisited
  PROVE  ProbeInv'
<1>1. ProbeFacts(Found("idle"))
  BY FoundFacts DEF AllVisited, States
<1> QED BY <1>1, QuietStep DEF AllVisited

LEMMA BeginVerifyStep ==
  ASSUME ProbeInv, NEW r \in Runs, BeginVerify(r)
  PROVE  ProbeInv'
<1>1. /\ probe' \in ProbeRecord /\ probe'.listed = probe.listed /\ probe'.ended = probe.ended
      /\ probe'.verifying = {r} /\ probe'.signature = <<whole[r], partial[r]>>
      /\ probe'.step = probe.step /\ probe'.state = probe.state /\ probe'.failed = probe.failed
      /\ probe'.verdict = probe.verdict
  BY DEF BeginVerify, ProbeInv, ProbeFacts, ProbeRecord, StoreInv, TypeOK
<1>2. ProbeFacts(probe')
  BY <1>1 DEF BeginVerify, ProbeInv, ProbeFacts, ListingFacts, VerifyFacts, AnswerFacts
<1> QED BY <1>2, QuietStep DEF BeginVerify

(* A run found complete verifies, and with the signature it had before.    *)
LEMMA EndVerifyStep ==
  ASSUME ProbeInv, NEW r \in Runs, EndVerify(r)
  PROVE  ProbeInv'
<1>1. Closed(r) /\ <<whole[r], partial[r]>> = probe.signature
  <2>1. name[r] = "complete" /\ <<whole[r], partial[r]>> = probe.signature
    BY DEF EndVerify, ProbeInv, ProbeFacts, ListingFacts, VerifyFacts
  <2> QED BY <2>1 DEF ProbeInv, StoreInv, TypeOK, RunFacts, Secured
<1>2. probe' = [probe EXCEPT !.verifying = {}, !.listed = @ \ {<<r, "complete">>}]
  BY <1>1 DEF EndVerify
<1>3. /\ probe' \in ProbeRecord /\ probe'.listed = probe.listed \ {<<r, "complete">>}
      /\ probe'.ended = probe.ended /\ probe'.verifying = {}
      /\ probe'.step = probe.step /\ probe'.state = probe.state /\ probe'.failed = probe.failed
      /\ probe'.verdict = probe.verdict
  BY <1>2 DEF ProbeInv, ProbeFacts, ProbeRecord
<1>4. ProbeFacts(probe')
  BY <1>3 DEF ProbeInv, ProbeFacts, ListingFacts, VerifyFacts, AnswerFacts
<1> QED BY <1>4, QuietStep DEF EndVerify

LEMMA EvaluateStep ==
  ASSUME ProbeInv, NEW host \in SUBSET Kinds, Evaluate(host)
  PROVE  ProbeInv'
<1>1. PICK verdict \in Kinds \union {"pass"} : probe' = [NoProbe EXCEPT !.step = "answered", !.verdict = verdict]
  BY DEF Evaluate, Kinds
<1>2. /\ probe' \in ProbeRecord /\ probe'.listed = {} /\ probe'.ended = {} /\ probe'.verifying = {}
      /\ probe'.step = "answered" /\ probe'.state = "none" /\ probe'.verdict # "none"
  BY <1>1 DEF NoProbe, ProbeRecord, States, Kinds
<1>3. ProbeFacts(probe')
  BY <1>2 DEF ProbeFacts, ListingFacts, VerifyFacts, AnswerFacts
<1> QED BY <1>3, QuietStep DEF Evaluate

(* A failing look of the probe counts as a fault of its own.               *)
LEMMA ProbeFaultStep ==
  ASSUME ProbeInv, ProbeFault
  PROVE  ProbeInv'
<1>1. TypeOK'
  BY StoreAssumption DEF ProbeFault, directory, ProbeInv, StoreInv, TypeOK
<1>2. StoreInv'
  BY <1>1, OtherRuns DEF ProbeFault, directory, Same, ProbeInv, StoreInv
<1>3. /\ probe' \in ProbeRecord /\ probe'.listed = {} /\ probe'.verifying = {}
      /\ probe'.step = "evaluate" /\ probe'.state = "unsealed" /\ probe'.failed
      /\ probe'.verdict = "none"
  BY DEF ProbeFault, NoProbe, ProbeRecord, States, Kinds
<1>4. ProbeFacts(probe)'
  BY <1>3 DEF ProbeFacts, ListingFacts, VerifyFacts, AnswerFacts
<1> QED BY <1>2, <1>4 DEF ProbeInv

LEMMA ProbeNextInv == ProbeInv /\ [ProbeNext]_probeVars => ProbeInv'
<1> SUFFICES ASSUME ProbeInv, [ProbeNext]_probeVars PROVE ProbeInv'
  OBVIOUS
<1>1. CASE ProbeStep
  BY <1>1, ListRunsStep, AllVisitedStep, EvaluateStep, VisitMarkedStep, BeginVerifyStep, EndVerifyStep
  DEF ProbeStep
<1>2. CASE ProbeFault
  BY <1>2, ProbeFaultStep
<1>3. CASE Next /\ IF losses' = losses THEN UNCHANGED probe ELSE probe' = NoProbe
  BY <1>3, ProducerStep
<1>4. CASE UNCHANGED probeVars
  BY <1>4, QuietStep DEF probeVars, ProbeInv
<1> QED BY <1>1, <1>2, <1>3, <1>4 DEF ProbeNext

-----------------------------------------------------------------------------
(* The facts about producers hold with a probe beside them too.            *)
THEOREM ProbeInvariant == ProbeSpec => []ProbeInv
<1>1. ProbeInit => ProbeInv
  BY InitInv, NoProbeFacts DEF ProbeInit, ProbeInv
<1> QED BY <1>1, ProbeNextInv, PTL DEF ProbeSpec

(* Producers and the probe keep their types; one entry is looked at at a   *)
(* time.                                                                   *)
THEOREM ProbeAlwaysTyped == ProbeSpec => []ProbeTypeOK
<1>1. ProbeInv => ProbeTypeOK
  <2> SUFFICES ASSUME ProbeInv PROVE ProbeTypeOK
    OBVIOUS
  <2>1. Cardinality(probe.verifying) <= 1
    <3>1. CASE probe.verifying = {}
      BY <3>1, FS_EmptySet
    <3>2. CASE \E r \in Runs : probe.verifying = {r}
      <4>1. PICK r \in Runs : probe.verifying = {r}
        BY <3>2
      <4>2. Cardinality({r}) = 1
        BY FS_Singleton
      <4> QED BY <4>1, <4>2
    <3> QED BY <3>1, <3>2 DEF ProbeInv, ProbeFacts, VerifyFacts
  <2> QED BY <2>1 DEF ProbeInv, StoreInv, ProbeFacts, ProbeRecord, AnswerFacts, ProbeTypeOK
<1> QED BY <1>1, ProbeInvariant, PTL

(* A probe finds a run that is not sealed only when it could not look: the *)
(* producers beside it never make one, not even between two of its looks   *)
(* (_run_state, _verify_complete_cached).                                  *)
THEOREM UnsealedAlwaysAFault == ProbeSpec => []UnsealedIsAFault
<1>1. ProbeInv => UnsealedIsAFault
  BY DEF ProbeInv, ProbeFacts, AnswerFacts, UnsealedIsAFault
<1> QED BY <1>1, ProbeInvariant, PTL

(* However many producers there are, broad work is never held back by the  *)
(* staging directory of one that had ended before the probe listed it.     *)
THEOREM EndedRunsNeverBlock == ProbeSpec => []EndedRunsDoNotBlock
<1>1. ProbeInv => EndedRunsDoNotBlock
  BY DEF ProbeInv, ProbeFacts, ProbeRecord, ListingFacts, AnswerFacts, EndedRunsDoNotBlock
<1> QED BY <1>1, ProbeInvariant, PTL

(* What was proved of the producers alone holds with a probe beside them.  *)
THEOREM PublishedVerifiesBesideAProbe == ProbeSpec => [](PublishedVerifies /\ FailureCleansUp)
<1>1. ProbeInv => PublishedVerifies /\ FailureCleansUp
  BY DEF ProbeInv, StoreInv, TypeOK, RunFacts, Secured, PublishedVerifies, FailureCleansUp
<1> QED BY <1>1, ProbeInvariant, PTL

(* A probe changes nothing of what is published.                           *)
THEOREM ProbedStoreImplementsPublishOnce == ProbeSpec => StoreSpec
<1>1. ProbeInit => Store!Init
  BY DEF ProbeInit, Init, Store!Init
<1>2. ProbeInv /\ ProbeInv' /\ [ProbeNext]_probeVars =>
        [Store!Next]_<<[r \in Runs |-> IF name[r] = "complete" THEN <<request[r], Closed(r)>>
                                       ELSE <<NoRequest, FALSE>>], answered>>
  <2> SUFFICES ASSUME ProbeInv, ProbeInv', [ProbeNext]_probeVars
               PROVE  [Store!Next]_<<StoreView, answered>>
    BY DEF StoreView, Published
  <2>1. CASE [Next]_vars
    BY <2>1, ViewStep DEF ProbeInv
  <2>2. CASE ProbeFault
    <3>1. UNCHANGED <<name, request, answered>>
      BY <2>2 DEF ProbeFault, directory
    <3>2. \A r \in Runs : Published(r)' = Published(r)
      BY <3>1, SeenUnchanged DEF ProbeInv
    <3> QED BY <3>1, <3>2 DEF StoreView
  <2>3. ProbeStep => UNCHANGED vars
    BY DEF ProbeStep, ListRuns, AllVisited, Evaluate, VisitMarked, BeginVerify, EndVerify
  <2> QED BY <2>1, <2>2, <2>3 DEF ProbeNext, probeVars
<1> QED BY <1>1, <1>2, ProbeInvariant, PTL DEF ProbeSpec, StoreSpec, Store!Spec
=============================================================================
