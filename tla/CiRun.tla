--------------------------------- MODULE CiRun ---------------------------------
(***************************************************************************)
(* One run of continuous integration: a plan is made, by the trusted gate  *)
(* for a commit or by ci plan for the worktree, scripts/run_ci_plan.py     *)
(* executes it command by command, and with the receipt it writes the      *)
(* Foundation evidence is published.  The commands, or anybody else, may   *)
(* change the checkout at any time.                                        *)
(***************************************************************************)
EXTENDS TierPolicy

CONSTANTS
  Candidates, \* candidates considered; what of the controls they change is not in "changed"
  Bases,      \* trusted bases considered
  PolicyPath, RegistryPath \* the tier policy, the registry of required checks

ASSUME RunAssumption ==
  /\ Candidates \subseteq Candidate /\ Bases \subseteq TrustedBase
  /\ {PolicyPath, RegistryPath} \subseteq Paths

VARIABLES
  candidate, base, \* what is to be planned, and against which trusted base
  authorization,   \* what a human authorized: {} or one Authorization
  review,          \* protected_change_review of the plan
  identity,  \* "commit" or "worktree": identity_kind of the plan
  plan,      \* its executions
  step,      \* where the run is
  at,        \* the execution in progress
  completed, \* tiers whose command has completed
  head,      \* what is checked out: "planned" or "other"
  tracked, untracked, \* "clean", "changed", or changed "late": behind the last command
  receipt, published, \* BOOLEAN
  exit

input == <<candidate, base, authorization, review>>
checkout == <<head, tracked, untracked>>
vars == <<input, identity, plan, step, at, completed, checkout, receipt, published, exit>>

Steps == {"plan", "authenticate", "capacity", "before", "command", "result", "after",
          "receipt", "publish", "ended"}

Init ==
  /\ candidate \in Candidates /\ base \in Bases /\ authorization = {} /\ review = {}
  /\ identity = "none" /\ plan = <<>> /\ step = "plan" /\ at = 1 /\ completed = {}
  /\ head = "planned" /\ tracked = "clean" /\ untracked = "clean"
  /\ receipt = FALSE /\ published = FALSE /\ exit = -1

Leave(value) == step' = "ended" /\ exit' = value

-----------------------------------------------------------------------------
(* Before anything is planned, a human authorizes the protected change he  *)
(* is shown, all of it or what was changed by hand only; the base moves on *)
(* and the candidate is amended.  (Bound: in the paths it changes.)        *)
Affects(ps) == ProtectedPaths(base.assets, ps)

(* The difference between the base and the candidate, as both planners see *)
(* it: the controls are files like any other.                              *)
Changed ==
  candidate.changed
    \union (IF candidate.policy # base.policy THEN {PolicyPath} ELSE {})
    \union (IF <<candidate.active, candidate.registry>> # <<base.active, base.registry>>
            THEN {RegistryPath} ELSE {})
Submitted == [candidate EXCEPT !.changed = Changed]

Authorize ==
  /\ step = "plan" /\ authorization = {}
  /\ \E ps \in {Affects(Changed), Affects(Affected(base.assets, Changed))} :
       authorization' = {[identity |-> <<base, candidate>>, paths |-> ps]}
  /\ UNCHANGED <<candidate, base, review, identity, plan, step, at, completed, checkout, receipt, published, exit>>

MoveBase ==
  /\ step = "plan" /\ base' \in Bases \ {base}
  /\ UNCHANGED <<candidate, authorization, review, identity, plan, step, at, completed, checkout, receipt, published, exit>>

Amend ==
  /\ step = "plan"
  /\ \E c \in Candidates : c # candidate /\ candidate' = c /\ c = [candidate EXCEPT !.changed = c.changed]
  /\ UNCHANGED <<base, authorization, review, identity, plan, step, at, completed, checkout, receipt, published, exit>>

(* What else is refused, a path that is not canonical for one, is a choice.*)
(* Nobody reads the authorization again.                                   *)
PlanWith(p, kind, findings) ==
  /\ step = "plan"
  /\ \/ /\ p.verdict = "pass"
        /\ plan' = Ordered(p.tiers) /\ identity' = kind /\ step' = "authenticate"
        /\ review' = findings /\ UNCHANGED exit
     \/ Leave(3) /\ UNCHANGED <<plan, identity, review>>
  /\ authorization' = {}
  /\ UNCHANGED <<candidate, base, at, completed, checkout, receipt, published>>

(* inspect_repository_changes and evaluate_protected_changes come first;   *)
(* a finding without an authorization is for the reviewers, any other one  *)
(* refuses.  Tiers are chosen by all that is affected.                     *)
Decision == Evaluate(base.assets, Changed, <<base, candidate>>, authorization)
Widened == [candidate EXCEPT !.changed = Affected(base.assets, Changed)]
GatePlan ==
  IF ValidPolicy(base.assets) /\ Decision \subseteq {"PROT-003"}
  THEN Gate(Widened, base) ELSE Refused

RunGate == PlanWith(GatePlan, "commit", Decision)
PlanWorktree == PlanWith(PlanCi(Submitted), "worktree", {})

(* _worktree_identity, of a worktree plan.                                 *)
WorktreeFits == identity = "worktree" => tracked = "clean" /\ untracked = "clean"

(* main of the dispatcher up to its loop: the only look at what is checked *)
(* out.  A worktree plan is bound to the bytes of the worktree instead.    *)
(* The untracked files there now are those that have to stay.  What else   *)
(* it compares, the plan's digest and the trusted controls, may differ.    *)
Authenticate ==
  /\ step = "authenticate"
  /\ \/ /\ plan # <<>> /\ head = "planned"
        /\ WorktreeFits
        /\ step' = "capacity" /\ untracked' = "clean" /\ UNCHANGED exit
     \/ Leave(3) /\ UNCHANGED untracked
  /\ UNCHANGED <<input, identity, plan, at, completed, head, tracked, receipt, published>>

(* --foundation-already-ran goes with a worktree plan, --receipt with the  *)
(* plan of a commit.                                                       *)
SkipFoundation == identity = "worktree"
WantsReceipt == identity = "commit"

(* Mutant: one step too far.                                               *)
AdvanceBeyond ==
  IF at <= Len(plan) THEN at' = at + 1 /\ step' = "capacity" /\ UNCHANGED exit
  ELSE IF WantsReceipt THEN step' = "receipt" /\ UNCHANGED <<at, exit>>
  ELSE Leave(0) /\ UNCHANGED at

Advance ==
  IF at < Len(plan) THEN at' = at + 1 /\ step' = "capacity" /\ UNCHANGED exit
  ELSE IF WantsReceipt THEN step' = "receipt" /\ UNCHANGED <<at, exit>>
  ELSE Leave(0) /\ UNCHANGED at

CheckCapacity ==
  /\ step = "capacity"
  /\ \/ Leave(2) /\ UNCHANGED at
     \/ plan[at] = "fast" /\ SkipFoundation /\ Advance
     \/ ~(plan[at] = "fast" /\ SkipFoundation) /\ step' = "before" /\ UNCHANGED <<at, exit>>
  /\ UNCHANGED <<input, identity, plan, completed, checkout, receipt, published>>

(* _assert_candidate_unchanged: git diff with HEAD, whatever HEAD is now,  *)
(* and the untracked files.                                                *)
Unchanged == identity = "worktree" \/ (tracked = "clean" /\ untracked = "clean")

AssertBefore ==
  /\ step = "before"
  /\ IF Unchanged THEN step' = "command" /\ UNCHANGED exit ELSE Leave(3)
  /\ UNCHANGED <<input, identity, plan, at, completed, checkout, receipt, published>>

(* The command fails with an exit code that is passed on, or ends with 0;  *)
(* what a product command prints is verified.                              *)
RunCommand ==
  /\ step = "command"
  /\ \/ \E value \in {1, 2, 3, 64} : Leave(value)
     \/ step' = (IF plan[at] = "fast" THEN "after" ELSE "result") /\ UNCHANGED exit
  /\ UNCHANGED <<input, identity, plan, at, completed, checkout, receipt, published>>

VerifyProductResult ==
  /\ step = "result"
  /\ Leave(3) \/ (step' = "after" /\ UNCHANGED exit)
  /\ UNCHANGED <<input, identity, plan, at, completed, checkout, receipt, published>>

(* Mutant: the checkout is not compared behind a command.                  *)
AssertNothing ==
  /\ step = "after"
  /\ completed' = completed \union {plan[at]} /\ Advance
  /\ UNCHANGED <<input, identity, plan, checkout, receipt, published>>

AssertAfter ==
  /\ step = "after"
  /\ IF Unchanged THEN completed' = completed \union {plan[at]} /\ Advance
     ELSE Leave(3) /\ UNCHANGED <<at, completed>>
  /\ UNCHANGED <<input, identity, plan, checkout, receipt, published>>

WriteReceipt ==
  /\ step = "receipt"
  /\ \/ "fast" \in completed /\ receipt' = TRUE /\ step' = "publish" /\ UNCHANGED exit
     \/ Leave(3) /\ UNCHANGED receipt
  /\ UNCHANGED <<input, identity, plan, at, completed, checkout, published>>

(* load_foundation_receipt: there is one, of this plan.  A run writes its  *)
(* receipt to a file of its own.                                           *)
ReceiptFits == receipt

(* publish_foundation_evidence; governance, authority or storage may       *)
(* refuse.  What is published stays so when verifying it, or saying so,    *)
(* fails.                                                                  *)
Publish ==
  /\ step = "publish"
  /\ \/ ReceiptFits /\ published' = TRUE /\ (Leave(0) \/ Leave(3))
     \/ Leave(3) /\ UNCHANGED published
  /\ UNCHANGED <<input, identity, plan, at, completed, checkout, receipt>>

-----------------------------------------------------------------------------
Change == IF step \in {"receipt", "publish"} THEN "late" ELSE "changed"

ChangeTracked ==
  /\ step \notin {"plan", "ended"} /\ tracked = "clean" /\ tracked' = Change
  /\ UNCHANGED <<input, identity, plan, step, at, completed, head, untracked, receipt, published, exit>>

ChangeUntracked ==
  /\ step \notin {"plan", "ended"} /\ untracked = "clean" /\ untracked' = Change
  /\ UNCHANGED <<input, identity, plan, step, at, completed, head, tracked, receipt, published, exit>>

(* A commit, or another checkout: tracked files are those of HEAD again.   *)
(* (For a plan of the worktree: another checkout.)                         *)
MoveHead ==
  /\ step \notin {"plan", "ended"} /\ head = "planned"
  /\ head' = "other" /\ tracked' = "clean"
  /\ UNCHANGED <<input, identity, plan, step, at, completed, untracked, receipt, published, exit>>

Dispatch ==
  \/ Authenticate \/ CheckCapacity \/ AssertBefore \/ RunCommand \/ VerifyProductResult
  \/ AssertAfter \/ WriteReceipt \/ Publish
Next == Authorize \/ MoveBase \/ Amend \/ RunGate \/ PlanWorktree \/ Dispatch \/ ChangeTracked \/ ChangeUntracked \/ MoveHead
Spec == Init /\ [][Next]_vars

-----------------------------------------------------------------------------
CiTypeOK ==
  /\ candidate \in Candidates /\ base \in Bases /\ review \subseteq {"PROT-003"}
  /\ authorization \subseteq Authorization(Bases \X Candidates) /\ Cardinality(authorization) <= 1
  /\ identity \in {"none", "commit", "worktree"} /\ plan \in Seq(Tiers)
  /\ step \in Steps /\ at \in 1..(Len(plan) + 1)
  /\ completed \subseteq {plan[i] : i \in DOMAIN plan}
  /\ step \in {"capacity", "before", "command", "result", "after"} =>
       at <= Len(plan) /\ plan[at] \notin completed
  /\ head \in {"planned", "other"}
  /\ {tracked, untracked} \subseteq {"clean", "changed", "late"}
  /\ receipt \in BOOLEAN /\ published \in BOOLEAN /\ exit \in {-1, 0, 1, 2, 3, 64}

(* A candidate that keeps the tier policy of its base (and whose manifests *)
(* both read alike) gets no surprise from the gate that guards the branch: *)
(* it accepts nothing that the planner a developer runs refuses, and       *)
(* executes every tier that one does.  They are the same for a change that *)
(* generates nothing, unless the gate refuses the registry, the policy of  *)
(* protected assets or the authorization.                                  *)
SameControls ==
  candidate.policy = base.policy /\ candidate.gateReady = candidate.ready /\ ValidTiers(base.policy)
PlannersAgree ==
  step = "plan" /\ SameControls =>
  LET gate == GatePlan
      local == PlanCi(Submitted)
  IN /\ gate.verdict = "pass" => local.verdict = "pass" /\ local.tiers \subseteq gate.tiers
     /\ (/\ candidate.registry = base.registry /\ Affected(base.assets, Changed) = Changed
         /\ ValidPolicy(base.assets) /\ Decision \subseteq {"PROT-003"})
        => /\ gate.verdict = local.verdict
           /\ local.verdict = "pass" => gate.tiers = local.tiers

(* The gate plans a change of protected assets, those it generates by any  *)
(* chain of rules included, only when its plan says so or a human had      *)
(* authorized exactly this change to exactly this base.                    *)
ProtectedChangesReviewed ==
  [][step = "plan" /\ identity' = "commit" =>
       LET protected == NeedsHuman(base.assets, Changed)
       IN \/ protected = {} \/ review' = {"PROT-003"}
          \/ [identity |-> <<base, candidate>>, paths |-> protected] \in authorization]_vars

(* Foundation evidence is published only when every tier that runs on this *)
(* event and whose paths the candidate changed, precursors of a reserved   *)
(* tier excepted, and every tier one of them rests on, is active and has   *)
(* completed.  It is the base that says so, whatever the candidate makes   *)
(* of the policy.                                                          *)
PublishedCoversRequired ==
  LET p == base.policy IN
  published =>
    /\ \A t \in Tiers :
         (t \in candidate.active \/ ~PrecursorOnly(p, t, Submitted)) /\ EventAndPath(p, t, Submitted)
           => t \in completed
    /\ \A t \in completed : p[t].needs \subseteq completed
    /\ completed \subseteq candidate.active

(* A receipt is written only when no change of a file was left, committed  *)
(* ones excepted, when the last command was found to have completed.  (One *)
(* that is undone between two looks is not seen, nor is what lay untracked *)
(* in the worktree from the start.)                                        *)
ReceiptSawCandidate ==
  receipt => tracked # "changed" /\ untracked # "changed"

(* "After bootstrap, applicability comes from the trusted base, so         *)
(* candidate code cannot remove its own required tier"                     *)
(* (docs/governance.md:50-51).                                             *)
TrustedTiersKept ==
  identity = "commit" =>
    \A t \in Tiers : TrustedApplies(t, Submitted, base) => t \in {plan[i] : i \in DOMAIN plan}
=============================================================================
