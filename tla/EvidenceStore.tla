---------------------------- MODULE EvidenceStore ----------------------------
(***************************************************************************)
(* Evidence runs below reports/runs, one system call at a time: a producer *)
(* (run_fast_validation, or evidence produce) creates <run>.staging with   *)
(* an EvidenceWriter, fills and finalizes it, and renames it to            *)
(* <run>.complete.  System calls fail, processes are killed and the power  *)
(* is lost.                                                                *)
(*                                                                         *)
(* The token a writer draws is its run, so that runs share nothing but     *)
(* the directory they are made in.  A directory is a set of files; digests *)
(* are abstracted to a file's being whole or cut short.                    *)
(***************************************************************************)
EXTENDS FiniteSets, Integers

CONSTANTS
  Runs,           \* runs, each of one process
  Leaves,         \* attachments
  Requests,       \* requests to publish that are considered
  MaxFaults,      \* failing system calls and killed processes
  MaxPowerLosses

Verdicts == {"pass", "product-fail", "infrastructure-invalid", "contract-invalid"}

(* What finalize is given: the verdict, whether every validation passed,   *)
(* whether the inventories are the declared ones and failures carry errors,*)
(* and the attachments, each of which a validation refers to.              *)
Request == [verdict : Verdicts, passed : BOOLEAN, declared : BOOLEAN, leaves : SUBSET Leaves]
NoRequest == [verdict |-> "contract-invalid", passed |-> FALSE, declared |-> FALSE, leaves |-> {}]

ASSUME StoreAssumption ==
  /\ Requests \subseteq Request
  /\ MaxFaults \in Nat /\ MaxPowerLosses \in Nat
  /\ Leaves \cap {"staging.json", "report.md", "evidence.json"} = {}

VARIABLES
  name,    \* of each run: the name its directory has, or "none"
  maybe,   \* the names it may have after a power loss
  whole,   \* the files of the directory whose content is complete
  partial, \* the files being written
  flushed, \* the files that were there when the directory was last synced
  request, \* what finalize was asked to publish
  pc,
  answered,\* runs whose publication the caller was told of
  faults, losses

directory == <<name, maybe, whole, partial, flushed>>
vars == <<directory, request, pc, answered, faults, losses>>

Files == Leaves \union {"staging.json", "report.md", "evidence.json"}

Working == {"open", "sealed", "unmarked", "rooted", "verified", "renamed"}
Aborting == {"aborting", "cleared", "removed"}
Checking == {"closed", "checked"}
Ended == {"returned", "failed", "littered", "dead"}

Init ==
  /\ name = [r \in Runs |-> "none"] /\ maybe = [r \in Runs |-> {"none"}]
  /\ whole = [r \in Runs |-> {}] /\ partial = [r \in Runs |-> {}]
  /\ flushed = [r \in Runs |-> {}] /\ request = [r \in Runs |-> NoRequest]
  /\ pc = [r \in Runs |-> "idle"]
  /\ answered = {}
  /\ faults = 0 /\ losses = 0

-----------------------------------------------------------------------------
Becomes(r, n) == /\ name' = [name EXCEPT ![r] = n]
                 /\ maybe' = [maybe EXCEPT ![r] = @ \union {n}]
Goto(r, step) == pc' = [pc EXCEPT ![r] = step]

(* _write: the file appears empty and is whole when file and directory are *)
(* synced; nothing else happens in between.                                *)
BeginWrite(r, f) == partial' = [partial EXCEPT ![r] = {f}]

EndWrite(r) ==
  /\ pc[r] \in Working /\ partial[r] # {}
  /\ whole' = [whole EXCEPT ![r] = @ \union partial[r]]
  /\ flushed' = [flushed EXCEPT ![r] = whole[r] \union partial[r]]
  /\ partial' = [partial EXCEPT ![r] = {}]
  /\ UNCHANGED <<name, maybe, request, pc, answered, faults, losses>>

At(r, step) == pc[r] = step /\ partial[r] = {}

(* The constructor makes the directory and starts to mark it.              *)
Create(r) ==
  /\ pc[r] = "idle"
  /\ Becomes(r, "staging")
  /\ BeginWrite(r, "staging.json")
  /\ Goto(r, "open")
  /\ UNCHANGED <<whole, flushed, request, answered, faults, losses>>
(* Mutant: an attachment may be written over.                              *)
OverwriteBytes(r, l) ==
  /\ At(r, "open")
  /\ BeginWrite(r, l)
  /\ UNCHANGED <<name, maybe, whole, flushed, request, pc, answered, faults, losses>>

SnapshotBytes(r, l) ==
  /\ At(r, "open") /\ l \notin whole[r]
  /\ BeginWrite(r, l)
  /\ UNCHANGED <<name, maybe, whole, flushed, request, pc, answered, faults, losses>>

Consistent(q) == q.declared /\ (q.verdict = "pass" <=> q.passed)

(* Mutant: a refused request is answered without cleaning up.              *)
FinalizeOrFail(r, q) ==
  /\ At(r, "open")
  /\ request' = [request EXCEPT ![r] = q]
  /\ IF Consistent(q)
     THEN BeginWrite(r, "report.md") /\ Goto(r, "sealed")
     ELSE Goto(r, "failed") /\ UNCHANGED partial
  /\ UNCHANGED <<name, maybe, whole, flushed, answered, faults, losses>>

(* The inventory checks of finalize; the report is rendered behind them.   *)
Finalize(r, q) ==
  /\ At(r, "open")
  /\ request' = [request EXCEPT ![r] = q]
  /\ IF Consistent(q)
     THEN BeginWrite(r, "report.md") /\ Goto(r, "sealed")
     ELSE Goto(r, "aborting") /\ UNCHANGED partial
  /\ UNCHANGED <<name, maybe, whole, flushed, answered, faults, losses>>

RemoveMarker(r) ==
  /\ At(r, "sealed")
  /\ whole' = [whole EXCEPT ![r] = @ \ {"staging.json"}]
  /\ Goto(r, "unmarked")
  /\ UNCHANGED <<name, maybe, partial, flushed, request, answered, faults, losses>>

WriteRoot(r) ==
  /\ At(r, "unmarked")
  /\ BeginWrite(r, "evidence.json")
  /\ Goto(r, "rooted")
  /\ UNCHANGED <<name, maybe, whole, flushed, request, answered, faults, losses>>

(* verify_evidence: the files are those the root names, and all are whole. *)
Closed(r) ==
  /\ whole[r] = {"evidence.json", "report.md"} \union request[r].leaves
  /\ partial[r] = {}
  /\ Consistent(request[r])
(* Mutant: the staged directory is not verified.                           *)
TrustStaged(r) ==
  /\ At(r, "rooted")
  /\ Goto(r, "verified")
  /\ UNCHANGED <<directory, request, answered, faults, losses>>

VerifyStaged(r) ==
  /\ At(r, "rooted")
  /\ Goto(r, IF Closed(r) THEN "verified" ELSE "aborting")
  /\ UNCHANGED <<directory, request, answered, faults, losses>>

Publish(r) ==
  /\ At(r, "verified")
  /\ Becomes(r, "complete")
  /\ Goto(r, "renamed")
  /\ UNCHANGED <<whole, partial, flushed, request, answered, faults, losses>>

SyncRuns(r) ==
  /\ pc[r] = "renamed"
  /\ maybe' = [maybe EXCEPT ![r] = {name[r]}]
  /\ Goto(r, "closed")
  /\ UNCHANGED <<name, whole, partial, flushed, request, answered, faults, losses>>

(* What the producer does behind finalize: the published directory is      *)
(* verified once more, and the candidate must still be the one checked out.*)
VerifyPublished(r) ==
  /\ pc[r] = "closed"
  /\ Goto(r, IF Closed(r) THEN "checked" ELSE "failed")
  /\ UNCHANGED <<directory, request, answered, faults, losses>>

RecheckCandidate(r) ==
  /\ pc[r] = "checked"
  /\ \/ Goto(r, "returned") /\ answered' = answered \union {r}
     \/ Goto(r, "failed") /\ UNCHANGED answered
  /\ UNCHANGED <<directory, request, faults, losses>>

-----------------------------------------------------------------------------
(* Mutant: abort clears the directory whatever it is called.               *)
ClearAny(r) ==
  /\ pc[r] = "aborting"
  /\ whole' = [whole EXCEPT ![r] = {}] /\ partial' = [partial EXCEPT ![r] = {}]
  /\ Goto(r, "cleared")
  /\ UNCHANGED <<name, maybe, flushed, request, answered, faults, losses>>

(* Mutant: abort waits for the staging directory to have its name.         *)
ClearNamed(r) ==
  /\ pc[r] = "aborting" /\ name[r] = "staging"
  /\ whole' = [whole EXCEPT ![r] = {}] /\ partial' = [partial EXCEPT ![r] = {}]
  /\ Goto(r, "cleared")
  /\ UNCHANGED <<name, maybe, flushed, request, answered, faults, losses>>

(* abort, from the finally block of the producer.  It insists on the name  *)
(* the directory had, so that what has been published is left alone.       *)
ClearStaging(r) ==
  /\ pc[r] = "aborting"
  /\ IF name[r] = "staging"
     THEN /\ whole' = [whole EXCEPT ![r] = {}] /\ partial' = [partial EXCEPT ![r] = {}]
          /\ Goto(r, "cleared")
     ELSE Goto(r, "failed") /\ UNCHANGED <<whole, partial>>
  /\ UNCHANGED <<name, maybe, flushed, request, answered, faults, losses>>

RemoveStaging(r) ==
  /\ pc[r] = "cleared"
  /\ Becomes(r, "none")
  /\ Goto(r, "removed")
  /\ UNCHANGED <<whole, partial, flushed, request, answered, faults, losses>>

SyncRemoval(r) ==
  /\ pc[r] = "removed"
  /\ maybe' = [maybe EXCEPT ![r] = {name[r]}]
  /\ Goto(r, "failed")
  /\ UNCHANGED <<name, whole, partial, flushed, request, answered, faults, losses>>

(* A system call fails.  Once the descriptors are closed there is nothing  *)
(* to abort; an abort that fails is given up.  The constructor does not    *)
(* abort when it cannot open the directory that it has just made.          *)
Fault(r) ==
  /\ pc[r] \in Working \union Aborting \union Checking /\ faults < MaxFaults
  /\ faults' = faults + 1
  /\ \/ pc[r] \in Working /\ Goto(r, "aborting")
     \/ pc[r] \in Checking /\ Goto(r, "failed")
     \/ pc[r] \in Aborting /\ Goto(r, "littered")
     \/ pc[r] = "open" /\ whole[r] = {} /\ Goto(r, "littered")
  /\ partial' = IF pc'[r] = "littered" /\ pc[r] = "open" THEN [partial EXCEPT ![r] = {}] ELSE partial
  /\ UNCHANGED <<name, maybe, whole, flushed, request, answered, losses>>

Kill(r) ==
  /\ pc[r] \in Working \union Aborting \union Checking /\ faults < MaxFaults
  /\ faults' = faults + 1
  /\ Goto(r, "dead")
  /\ UNCHANGED <<directory, request, answered, losses>>

(* Of a directory that is left, files changed since it was last synced may *)
(* be gone, cut short or, when they were unlinked, back.                   *)
PowerLoss ==
  /\ losses < MaxPowerLosses
  /\ losses' = losses + 1
  /\ name' \in {n \in [Runs -> {"none", "staging", "complete"}] : \A r \in Runs : n[r] \in maybe[r]}
  /\ maybe' = [r \in Runs |-> {name'[r]}]
  /\ whole' \in {w \in [Runs -> SUBSET Files] :
       \A r \in Runs : /\ w[r] \subseteq whole[r] \union flushed[r]
                       /\ whole[r] \cap flushed[r] \subseteq w[r]}
  /\ partial' \in {p \in [Runs -> SUBSET Files] :
       \A r \in Runs : p[r] \subseteq (whole[r] \ flushed[r]) \union partial[r]}
  /\ \A r \in Runs : whole'[r] \cap partial'[r] = {}
  /\ \A r \in Runs : name'[r] = "none" => whole'[r] = {} /\ partial'[r] = {}
  /\ flushed' = [r \in Runs |-> whole'[r]]
  /\ pc' = [r \in Runs |-> IF pc[r] \in {"idle"} \union Ended THEN pc[r] ELSE "dead"]
  /\ UNCHANGED <<request, answered, faults>>

-----------------------------------------------------------------------------
Step(r) ==
  \/ EndWrite(r) \/ RemoveMarker(r) \/ WriteRoot(r) \/ VerifyStaged(r)
  \/ Publish(r) \/ SyncRuns(r) \/ VerifyPublished(r) \/ RecheckCandidate(r)
  \/ ClearStaging(r) \/ RemoveStaging(r) \/ SyncRemoval(r)
  \/ \E q \in Requests : Finalize(r, q)

Next ==
  \/ \E r \in Runs : Create(r) \/ (\E l \in Leaves : SnapshotBytes(r, l)) \/ Step(r)
                     \/ Fault(r) \/ Kill(r)
  \/ PowerLoss
Spec == Init /\ [][Next]_vars
FairSpec == Spec /\ \A r \in Runs : WF_vars(Step(r))

-----------------------------------------------------------------------------
TypeOK ==
  /\ name \in [Runs -> {"none", "staging", "complete"}]
  /\ maybe \in [Runs -> SUBSET {"none", "staging", "complete"}]
  /\ \A r \in Runs : name[r] \in maybe[r] /\ whole[r] \cap partial[r] = {}
  /\ whole \in [Runs -> SUBSET Files] /\ partial \in [Runs -> SUBSET Files]
  /\ flushed \in [Runs -> SUBSET Files] /\ request \in [Runs -> Request]
  /\ pc \in [Runs -> {"idle"} \union Working \union Aborting \union Checking \union Ended]
  /\ answered \subseteq Runs
  /\ faults \in 0..MaxFaults /\ losses \in 0..MaxPowerLosses

(* "A .staging directory ... is non-consumable": what has the name of a    *)
(* complete run verifies, whatever failed, was aborted or was lost.        *)
PublishedVerifies == \A r \in Runs : name[r] = "complete" => Closed(r)

(* A producer that fails leaves no staging directory behind, unless its    *)
(* cleaning up was itself cut off or the power is lost later.              *)
FailureCleansUp == \A r \in Runs : pc[r] = "failed" /\ losses = 0 => name[r] # "staging"

(* Every producer that is not killed comes to an end.                      *)
ProducersEnd == \A r \in Runs : pc[r] # "idle" ~> pc[r] \in Ended

(* A store of runs that are published once, whole and unchanging.          *)
Store ==
  INSTANCE PublishOnce WITH
    Names <- Runs,
    Contents <- {q \in Request : Consistent(q)} \X {TRUE},
    Absent <- <<NoRequest, FALSE>>,
    store <- [r \in Runs |-> IF name[r] = "complete" THEN <<request[r], Closed(r)>>
                             ELSE <<NoRequest, FALSE>>],
    confirmed <- answered
StoreSpec == Store!Spec
=============================================================================
