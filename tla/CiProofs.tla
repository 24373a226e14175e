------------------------------- MODULE CiProofs -------------------------------
(* Facts about the runs of continuous integration, for every tier policy,  *)
(* candidate, trusted base and policy of protected assets.                 *)
EXTENDS CiRun, TierProofs

(* What is affected are paths; those that are protected need a human.      *)
LEMMA AffectedFacts ==
  ASSUME NEW policy \in AssetPolicy, NEW changed \in SUBSET Paths
  PROVE  /\ Affected(policy, changed) \subseteq Paths
         /\ ProtectedPaths(policy, Affected(policy, changed)) = NeedsHuman(policy, changed)
<1>1. Generating(policy, changed) \subseteq DOMAIN policy.rules
  BY DEF Generating
<1>2. Affected(policy, changed)
        = changed \union UNION {policy.rules[i].outputs : i \in Generating(policy, changed)}
  BY ActivatedIsGenerating DEF Affected
<1> QED BY <1>1, <1>2, PolicyTypes DEF NeedsHuman

Types ==
  /\ candidate \in Candidates /\ base \in Bases
  /\ review \subseteq {"PROT-003"} /\ step \in Steps
  /\ authorization \subseteq Authorization(Bases \X Candidates)
  /\ authorization = {} \/ \E a : authorization = {a}
  /\ identity \in {"none", "commit", "worktree"}
  /\ head \in {"planned", "other"}
  /\ {tracked, untracked} \subseteq {"clean", "changed", "late"}
  /\ receipt \in BOOLEAN /\ published \in BOOLEAN /\ exit \in {-1, 0, 1, 2, 3, 64}

(* The difference between a base and a candidate.                          *)
LEMMA ChangedFacts ==
  ASSUME candidate \in Candidates, base \in Bases
  PROVE  /\ candidate \in Candidate /\ base \in TrustedBase
         /\ base.assets \in AssetPolicy /\ base.policy \in TierPolicies
         /\ Changed \in SUBSET Paths /\ Changed \subseteq Affected(base.assets, Changed)
         /\ Submitted = [candidate EXCEPT !.changed = Changed]
         /\ Widened = [candidate EXCEPT !.changed = Affected(base.assets, Changed)]
<1>1. candidate \in Candidate /\ base \in TrustedBase
  BY RunAssumption
<1>2. base.assets \in AssetPolicy /\ base.policy \in TierPolicies
  BY <1>1 DEF TrustedBase
<1>3. candidate.changed \in SUBSET Paths
  BY <1>1 DEF Candidate
<1>4. Changed \in SUBSET Paths
  BY <1>3, RunAssumption DEF Changed
<1> QED BY <1>1, <1>2, <1>4 DEF Affected, Submitted, Widened

(* They are the candidate's but for the paths.                             *)
LEMMA DifferOnlyInPaths ==
  ASSUME NEW c \in Candidate, NEW ps
  PROVE  LET d == [c EXCEPT !.changed = ps] IN
         /\ d.active = c.active /\ d.registry = c.registry /\ d.policy = c.policy
         /\ d.ready = c.ready /\ d.gateReady = c.gateReady /\ d.event = c.event
         /\ d.changed = ps
BY DEF Candidate

(* What the dispatcher does to the run only.                               *)
LEMMA RunTypes ==
  ASSUME Types, UNCHANGED <<input, identity, checkout, receipt, published>>,
         \/ step' \in Steps /\ exit' = exit
         \/ \E value \in {0, 1, 2, 3, 64} : Leave(value)
  PROVE  Types'
<1>1. UNCHANGED <<candidate, base, authorization, review, identity, head, tracked, untracked, receipt, published>>
  BY DEF input, checkout
<1>2. step' \in Steps /\ exit' \in {-1, 0, 1, 2, 3, 64}
  BY DEF Leave, Steps, Types
<1> QED BY <1>1, <1>2 DEF Types

LEMMA TypesStep == Types /\ [Next]_vars => Types'
<1> SUFFICES ASSUME Types, [Next]_vars PROVE Types'
  OBVIOUS
<1> USE DEF Types
<1>1. CASE Authorize
  <2>1. /\ base.assets \in AssetPolicy /\ Changed \in SUBSET Paths
    BY ChangedFacts
  <2>2. \A ps \in {Affects(Changed), Affects(Affected(base.assets, Changed))} :
          ps \in SUBSET Paths
    BY <2>1, AffectedFacts DEF Affects, ProtectedPaths
  <2>3. PICK ps \in SUBSET Paths : authorization' = {[identity |-> <<base, candidate>>, paths |-> ps]}
    BY <1>1, <2>2 DEF Authorize
  <2>4. /\ authorization' \subseteq Authorization(Bases \X Candidates)
        /\ \E a : authorization' = {a}
    <3>1. <<base, candidate>> \in Bases \X Candidates
      OBVIOUS
    <3>2. [identity |-> <<base, candidate>>, paths |-> ps] \in Authorization(Bases \X Candidates)
      BY <3>1 DEF Authorization
    <3> HIDE DEF Types
    <3> QED BY <2>3, <3>2
  <2> QED BY <1>1, <2>4 DEF Authorize, checkout
<1>2. CASE MoveBase \/ Amend
  BY <1>2 DEF MoveBase, Amend, checkout
<1>3. CASE RunGate
  <2>1. GatePlan.verdict = "pass" => Decision \subseteq {"PROT-003"}
    BY DEF GatePlan, Refused
  <2> QED BY <1>3, <2>1 DEF RunGate, PlanWith, Leave, checkout, Steps
<1>4. CASE PlanWorktree
  BY <1>4 DEF PlanWorktree, PlanWith, Leave, checkout, Steps
<1>5. CASE Authenticate
  BY <1>5 DEF Authenticate, Leave, input, Steps
<1>6. CASE CheckCapacity
  <2>1. Advance => (step' \in Steps /\ exit' = exit) \/ Leave(0)
    BY DEF Advance, Steps
  <2>2. (step' \in Steps /\ exit' = exit) \/ Leave(0) \/ Leave(2)
    BY <1>6, <2>1 DEF CheckCapacity, Steps
  <2>3. UNCHANGED <<input, identity, checkout, receipt, published>>
    BY <1>6 DEF CheckCapacity
  <2> HIDE DEF Types
  <2> QED BY <2>2, <2>3, RunTypes
<1>7. CASE AssertBefore \/ RunCommand \/ VerifyProductResult
  <2>1. (step' \in Steps /\ exit' = exit) \/ \E value \in {0, 1, 2, 3, 64} : Leave(value)
    BY <1>7 DEF AssertBefore, RunCommand, VerifyProductResult, Steps
  <2>2. UNCHANGED <<input, identity, checkout, receipt, published>>
    BY <1>7 DEF AssertBefore, RunCommand, VerifyProductResult
  <2> HIDE DEF Types
  <2> QED BY <2>1, <2>2, RunTypes
<1>8. CASE AssertAfter
  <2>1. Advance => (step' \in Steps /\ exit' = exit) \/ Leave(0)
    BY DEF Advance, Steps
  <2>2. (step' \in Steps /\ exit' = exit) \/ Leave(0) \/ Leave(3)
    BY <1>8, <2>1 DEF AssertAfter
  <2>3. UNCHANGED <<input, identity, checkout, receipt, published>>
    BY <1>8 DEF AssertAfter
  <2> HIDE DEF Types
  <2> QED BY <2>2, <2>3, RunTypes
<1>9. CASE WriteReceipt \/ Publish
  BY <1>9 DEF WriteReceipt, Publish, Leave, input, checkout, Steps
<1>10. CASE ChangeTracked \/ ChangeUntracked \/ MoveHead
  <2>1. UNCHANGED <<candidate, base, authorization, review, identity, step, receipt, published, exit>>
    BY <1>10 DEF ChangeTracked, ChangeUntracked, MoveHead, input
  <2>2. head' \in {"planned", "other"} /\ {tracked', untracked'} \subseteq {"clean", "changed", "late"}
    BY <1>10 DEF ChangeTracked, ChangeUntracked, MoveHead, Change
  <2> QED BY <2>1, <2>2
<1>11. CASE UNCHANGED vars
  BY <1>11 DEF vars, input, checkout
<1> QED
  BY <1>1, <1>2, <1>3, <1>4, <1>5, <1>6, <1>7, <1>8, <1>9, <1>10, <1>11 DEF Next, Dispatch

-----------------------------------------------------------------------------
Going == {"capacity", "before", "command", "result", "after"}
Before(n) == {plan[i] : i \in 1..(n-1)}

(* The plan has each tier once.  What has completed are executions before  *)
(* the one in progress, for a commit all of them; behind the last one only *)
(* the plan of a commit goes on, to its receipt.                           *)
Progress ==
  /\ plan \in Seq(Tiers) /\ Distinct(plan) /\ at \in 1..(Len(plan) + 1)
  /\ step = "plan" => identity = "none" /\ plan = <<>>
  /\ step \in {"plan", "authenticate"} => at = 1 /\ completed = {}
  /\ step \in Going => /\ at <= Len(plan) /\ completed \subseteq Before(at)
                       /\ identity = "commit" => completed = Before(at)
  /\ step \in {"receipt", "publish"} \/ published => identity = "commit" /\ completed = Elements(plan)
  /\ completed \subseteq Elements(plan) /\ (published => step = "ended")

LEMMA BeforeFacts ==
  ASSUME NEW n \in 1..Len(plan), plan \in Seq(Tiers)
  PROVE  /\ Before(n + 1) = Before(n) \union {plan[n]} /\ Before(n + 1) \subseteq Elements(plan)
         /\ n = Len(plan) => Before(n + 1) = Elements(plan)
<1>1. 1..((n+1)-1) = 1..(n-1) \union {n} /\ Len(plan) \in Nat /\ DOMAIN plan = 1..Len(plan)
  OBVIOUS
<1>2. \A i \in 1..n : i \in DOMAIN plan
  BY <1>1
<1>3. n = Len(plan) => 1..((n+1)-1) = DOMAIN plan
  BY <1>1
<1>4. Before(n + 1) = Before(n) \union {plan[n]}
  BY <1>1 DEF Before
<1>5. Before(n + 1) \subseteq Elements(plan)
  <2>1. \A i \in 1..((n+1)-1) : i \in DOMAIN plan
    BY <1>2
  <2> QED BY <2>1 DEF Before, Elements
<1> QED BY <1>3, <1>4, <1>5 DEF Before, Elements

(* Going on behind execution `at`, or passing over it.                     *)
LEMMA AdvanceProgress ==
  ASSUME Progress, Advance, step \in Going, UNCHANGED <<plan, identity, published>>,
         completed' \subseteq Before(at + 1), identity = "commit" => completed' = Before(at + 1)
  PROVE  Progress'
<1>1. /\ plan \in Seq(Tiers) /\ Len(plan) \in Nat /\ at \in 1..Len(plan)
      /\ Before(at + 1) \subseteq Elements(plan)
      /\ at = Len(plan) => Before(at + 1) = Elements(plan)
  <2>1. plan \in Seq(Tiers) /\ at \in 1..Len(plan) /\ Len(plan) \in Nat
    BY DEF Progress
  <2> QED BY <2>1, BeforeFacts
<1>2. \A n : Before(n)' = {plan[i] : i \in 1..(n-1)}
  BY DEF Before
<1>3. Elements(plan)' = Elements(plan) /\ Distinct(plan)' = Distinct(plan) /\ Len(plan)' = Len(plan)
  OBVIOUS
<1>4. CASE at < Len(plan)
  <2>1. at' = at + 1 /\ step' = "capacity" /\ at + 1 \in 1..(Len(plan) + 1) /\ at + 1 <= Len(plan)
    BY <1>1, <1>4 DEF Advance
  <2>2. Before(at)' = Before(at + 1)
    BY <2>1 DEF Before
  <2>3. completed' \subseteq Elements(plan)
    BY <1>1
  <2>4. ~published'
    BY DEF Progress, Going
  <2>5. at' \in 1..(Len(plan)' + 1) /\ at' <= Len(plan)'
    BY <1>3, <2>1
  <2>6. completed' \subseteq Before(at)' /\ (identity' = "commit" => completed' = Before(at)')
    BY <2>2
  <2>7. plan' \in Seq(Tiers) /\ Distinct(plan)'
    BY <1>3 DEF Progress
  <2>8. step' = "capacity"
    BY <2>1
  <2>9. completed' \subseteq Elements(plan)'
    BY <1>3, <2>3
  <2> QED BY <2>4, <2>5, <2>6, <2>7, <2>8, <2>9 DEF Progress, Going
<1>5. CASE ~(at < Len(plan))
  <2>1. at = Len(plan) /\ at' = at
    BY <1>1, <1>5 DEF Advance, Leave
  <2>2. (step' = "receipt" /\ identity = "commit") \/ step' = "ended"
    BY <1>5 DEF Advance, Leave, WantsReceipt
  <2>3. ~published'
    BY DEF Progress, Going
  <2>4. completed' \subseteq Elements(plan)' /\ (identity = "commit" => completed' = Elements(plan)')
    BY <1>1, <1>3, <2>1
  <2>5. plan' \in Seq(Tiers) /\ Distinct(plan)' /\ at' \in 1..(Len(plan)' + 1) /\ identity' = identity
    BY <1>1, <1>3, <2>1 DEF Progress
  <2> QED BY <2>2, <2>3, <2>4, <2>5 DEF Progress, Going
<1> QED BY <1>1, <1>4, <1>5

(* Ways on that keep what has been executed.                               *)
LEMMA SameProgress ==
  ASSUME Progress, UNCHANGED <<plan, identity, at, completed, published>>,
         \/ step' = step
         \/ step \in Going /\ step' \in Going
         \/ ~published /\ step' = "ended"
         \/ step = "receipt" /\ step' = "publish"
  PROVE  Progress'
<1>1. /\ Elements(plan)' = Elements(plan) /\ Distinct(plan)' = Distinct(plan)
      /\ Len(plan)' = Len(plan) /\ Before(at)' = Before(at)
  BY DEF Before
<1> QED BY <1>1 DEF Progress, Going

LEMMA PlanTiers ==
  ASSUME NEW c
  PROVE  GatePlan.tiers \in SUBSET Tiers /\ PlanCi(c).tiers \in SUBSET Tiers
<1>1. \A p, d : Required(p, d) \subseteq Tiers
  BY DEF Required, AddPrerequisites
<1>2. GatePlan.tiers \in SUBSET Tiers
  BY <1>1, GateRequires DEF GatePlan, Gate, Refused
<1>3. PlanCi(c).tiers \in SUBSET Tiers
  BY <1>1 DEF PlanCi, Refused
<1> QED BY <1>2, <1>3

LEMMA PlanProgress ==
  ASSUME Progress, NEW p, NEW kind \in {"commit", "worktree"}, NEW findings,
         PlanWith(p, kind, findings), p.tiers \in SUBSET Tiers
  PROVE  Progress'
<1>1. /\ step = "plan" /\ at = 1 /\ completed = {} /\ identity = "none" /\ plan = <<>> /\ ~published
      /\ UNCHANGED <<at, completed, published>>
  BY DEF PlanWith, Progress
<1>2. CASE plan' = Ordered(p.tiers) /\ identity' = kind /\ step' = "authenticate"
  <2>1. plan' \in Seq(Tiers) /\ Distinct(plan')
    BY <1>2, OrderedFacts
  <2>2. Len(plan') \in Nat
    BY <2>1
  <2> QED BY <1>1, <1>2, <2>1, <2>2 DEF Progress, Going
<1>3. CASE Leave(3) /\ UNCHANGED <<plan, identity>>
  BY <1>1, <1>3, SameProgress DEF Leave
<1> QED BY <1>2, <1>3 DEF PlanWith

LEMMA ProgressStep == Progress /\ [Next]_vars => Progress'
<1> SUFFICES ASSUME Progress, [Next]_vars PROVE Progress'
  OBVIOUS
<1>1. CASE RunGate
  BY <1>1, PlanTiers, PlanProgress DEF RunGate
<1>2. CASE PlanWorktree
  BY <1>2, PlanTiers, PlanProgress DEF PlanWorktree
<1>3. CASE Authenticate
  <2>1. /\ step = "authenticate" /\ UNCHANGED <<plan, identity, at, completed, published>> /\ ~published
    BY <1>3 DEF Authenticate, Progress
  <2>2. CASE step' = "ended"
    BY <2>1, <2>2, SameProgress
  <2>3. CASE plan # <<>> /\ step' = "capacity"
    <3>1. at = 1 /\ completed = {} /\ plan \in Seq(Tiers)
      BY <2>1 DEF Progress
    <3>2. Len(plan) \in Nat /\ 1 <= Len(plan)
      BY <2>3, <3>1
    <3>3. 1..(1-1) = {}
      OBVIOUS
    <3>4. (Before(at))' = {}
      BY <2>1, <3>1, <3>3 DEF Before
    <3>5. /\ Elements(plan)' = Elements(plan) /\ Distinct(plan)' = Distinct(plan) /\ Len(plan)' = Len(plan)
      BY <2>1
    <3> QED BY <2>1, <2>3, <3>1, <3>2, <3>4, <3>5 DEF Progress, Going
  <2> QED BY <1>3, <2>2, <2>3 DEF Authenticate, Leave
<1>4. CASE CheckCapacity
  <2>1. /\ step = "capacity" /\ UNCHANGED <<plan, identity, completed, published>> /\ ~published
        /\ plan \in Seq(Tiers) /\ at \in 1..Len(plan)
        /\ completed \subseteq Before(at) /\ step \in Going
    BY <1>4 DEF CheckCapacity, Progress, Going
  <2>2. CASE SkipFoundation /\ Advance
    <3>1. completed \subseteq Before(at + 1) /\ identity # "commit"
      BY <2>1, <2>2, BeforeFacts DEF SkipFoundation
    <3> QED BY <2>1, <2>2, <3>1, AdvanceProgress
  <2>3. CASE UNCHANGED at /\ step' \in {"before", "ended"}
    BY <2>1, <2>3, SameProgress DEF Going
  <2> QED BY <1>4, <2>2, <2>3 DEF CheckCapacity, Leave
<1>5. CASE AssertBefore \/ RunCommand \/ VerifyProductResult
  <2>1. /\ step \in Going /\ UNCHANGED <<plan, identity, at, completed, published>>
        /\ step' \in Going \union {"ended"}
    BY <1>5 DEF AssertBefore, RunCommand, VerifyProductResult, Going, Leave
  <2>2. ~published
    BY <2>1 DEF Progress, Going
  <2> QED BY <2>1, <2>2, SameProgress
<1>6. CASE AssertAfter
  <2>1. /\ step \in Going /\ UNCHANGED <<plan, identity, published>> /\ ~published
        /\ plan \in Seq(Tiers) /\ at \in 1..Len(plan)
        /\ completed \subseteq Before(at) /\ (identity = "commit" => completed = Before(at))
    BY <1>6 DEF AssertAfter, Progress, Going
  <2>2. CASE completed' = completed \union {plan[at]} /\ Advance
    <3>1. /\ completed' \subseteq Before(at + 1) /\ (identity = "commit" => completed' = Before(at + 1))
      BY <2>1, <2>2, BeforeFacts
    <3> QED BY <2>1, <2>2, <3>1, AdvanceProgress
  <2>3. CASE Leave(3) /\ UNCHANGED <<at, completed>>
    BY <2>1, <2>3, SameProgress DEF Leave
  <2> QED BY <1>6, <2>2, <2>3 DEF AssertAfter
<1>7. CASE WriteReceipt
  BY <1>7, SameProgress DEF WriteReceipt, Leave, Progress
<1>8. CASE Publish
  <2>1. /\ step = "publish" /\ step' = "ended" /\ UNCHANGED <<plan, identity, at, completed>>
        /\ identity = "commit" /\ completed = Elements(plan)
    BY <1>8 DEF Publish, Leave, Progress
  <2>2. /\ Elements(plan)' = Elements(plan) /\ Distinct(plan)' = Distinct(plan) /\ Len(plan)' = Len(plan)
    BY <2>1
  <2> QED BY <2>1, <2>2 DEF Progress, Going
<1>9. CASE ChangeTracked \/ ChangeUntracked \/ MoveHead
  BY <1>9, SameProgress DEF ChangeTracked, ChangeUntracked, MoveHead
<1>10. CASE Authorize \/ MoveBase \/ Amend
  BY <1>10, SameProgress DEF Authorize, MoveBase, Amend
<1>11. CASE UNCHANGED vars
  BY <1>11, SameProgress DEF vars
<1> QED
  BY <1>1, <1>2, <1>3, <1>4, <1>5, <1>6, <1>7, <1>8, <1>9, <1>10, <1>11 DEF Next, Dispatch

-----------------------------------------------------------------------------
(* A commit's plan has what the base's policy says applies to the change,  *)
(* closed under prerequisites, all of it active.                           *)
Covers(executed) ==
  /\ \A t \in Tiers : Applies(base.policy, t, Submitted) => t \in executed
  /\ \A t \in executed : base.policy[t].needs \subseteq executed
  /\ executed \subseteq candidate.active
Covering == identity = "commit" => Covers(Elements(plan))

LEMMA GateCovers ==
  ASSUME Types, GatePlan.verdict = "pass"
  PROVE  Covers(GatePlan.tiers)
<1> DEFINE p == base.policy
           affected == Affected(base.assets, Changed)
<1>1. /\ candidate \in Candidate /\ p \in TierPolicies /\ Changed \subseteq affected
      /\ Submitted = [candidate EXCEPT !.changed = Changed]
      /\ Widened = [candidate EXCEPT !.changed = affected]
  BY ChangedFacts DEF Types
<1> HIDE DEF p, affected
<1>2. /\ Widened.active = candidate.active /\ Submitted.active = candidate.active
      /\ Widened.event = candidate.event /\ Submitted.event = candidate.event
      /\ Submitted.changed = Changed /\ Widened.changed = affected
  BY <1>1, DifferOnlyInPaths
<1>3. GatePlan = Gate(Widened, base)
  BY DEF GatePlan, Refused
<1>4. GatePlan.tiers = Required(p, Widened) /\ Required(p, Widened) \subseteq candidate.active
  BY <1>2, <1>3, GateFacts DEF p
<1> DEFINE ts == {t \in Tiers : Applies(p, t, Widened)}
<1>5. Required(p, Widened) = AddPrerequisites(p, ts) /\ ts \in SUBSET Tiers
  BY DEF Required
<1>6. \A t \in Tiers : Applies(p, t, Submitted) => t \in ts
  BY <1>1, <1>2, AppliesToMore
<1> HIDE DEF ts
<1>7. /\ ts \subseteq Required(p, Widened)
      /\ \A t \in Required(p, Widened) : p[t].needs \subseteq Required(p, Widened)
  BY <1>1, <1>5, PrerequisitesClosed
<1> QED BY <1>4, <1>6, <1>7 DEF Covers, p

LEMMA CoveringStep == Types /\ Progress /\ Covering /\ [Next]_vars => Covering'
<1> SUFFICES ASSUME Types, Progress, Covering, [Next]_vars PROVE Covering'
  OBVIOUS
<1>1. CASE UNCHANGED <<candidate, base, identity, plan>>
  <2>1. Elements(plan)' = Elements(plan)
    BY <1>1
  <2>2. Submitted' = Submitted
    BY <1>1 DEF Submitted, Changed
  <2> QED BY <1>1, <2>1, <2>2
        DEF Covering, Covers, Applies, ArtifactMatches, PrecursorOnly, EventAndPath, Matching
<1>2. CASE identity' # "commit"
  BY <1>2 DEF Covering
<1>3. CASE RunGate /\ identity' = "commit"
  <2>1. step = "plan" /\ identity # "commit" /\ candidate' = candidate /\ base' = base
    BY <1>3 DEF RunGate, PlanWith, Progress
  <2>2. GatePlan.verdict = "pass" /\ plan' = Ordered(GatePlan.tiers)
    BY <1>3, <2>1 DEF RunGate, PlanWith
  <2>3. Elements(Ordered(GatePlan.tiers)) = GatePlan.tiers
    BY PlanTiers, OrderedFacts
  <2>4. Elements(plan)' = GatePlan.tiers
    BY <2>2, <2>3
  <2>5. Covers(GatePlan.tiers)
    BY <2>2, GateCovers
  <2>6. Submitted' = Submitted
    BY <2>1 DEF Submitted, Changed
  <2> QED BY <2>1, <2>4, <2>5, <2>6
        DEF Covering, Covers, Applies, ArtifactMatches, PrecursorOnly, EventAndPath, Matching
<1>4. CASE PlanWorktree
  <2>1. identity' # "commit"
    BY <1>4 DEF PlanWorktree, PlanWith, Progress
  <2> QED BY <1>2, <2>1
<1>5. CASE Authorize \/ MoveBase \/ Amend
  BY <1>2, <1>5 DEF Authorize, MoveBase, Amend, Progress
<1>6. Next => \/ RunGate \/ PlanWorktree \/ Authorize \/ MoveBase \/ Amend
              \/ UNCHANGED <<candidate, base, identity, plan>>
  BY DEF Next, Dispatch, Authenticate, CheckCapacity, AssertBefore, RunCommand, VerifyProductResult,
         AssertAfter, WriteReceipt, Publish, ChangeTracked, ChangeUntracked, MoveHead, input
<1> QED BY <1>1, <1>2, <1>3, <1>4, <1>5, <1>6 DEF vars, input

-----------------------------------------------------------------------------
CiInv == Types /\ Progress /\ Covering

(* The inductive invariant of a run.                                       *)
THEOREM CiInvariant == Spec => []CiInv
<1>1. Init => CiInv
  <2> SUFFICES ASSUME Init PROVE CiInv
    OBVIOUS
  <2>1. Types
    BY DEF Init, Types, Steps
  <2>2. Len(<<>>) = 0 /\ <<>> \in Seq(Tiers) /\ Distinct(<<>>)
    BY DEF Distinct
  <2>3. Progress
    BY <2>2 DEF Init, Progress, Going
  <2>4. Covering
    BY DEF Init, Covering
  <2> QED BY <2>1, <2>3, <2>4 DEF CiInv
<1>2. CiInv /\ [Next]_vars => CiInv'
  BY TypesStep, ProgressStep, CoveringStep DEF CiInv
<1> QED BY <1>1, <1>2, PTL DEF Spec

(* The run's variables keep their types, and the tier whose command is in  *)
(* progress has not completed before.                                      *)
THEOREM CiAlwaysTyped == Spec => []CiTypeOK
<1>1. CiInv => CiTypeOK
  <2> SUFFICES ASSUME Types, Progress PROVE CiTypeOK
    BY DEF CiInv
  <2>1. Cardinality(authorization) <= 1
    <3>1. CASE authorization = {}
      BY <3>1, FS_EmptySet
    <3>2. CASE authorization # {}
      <4>1. PICK a : authorization = {a}
        BY <3>2 DEF Types
      <4>2. Cardinality({a}) = 1
        BY FS_Singleton
      <4> QED BY <4>1, <4>2
    <3> QED BY <3>1, <3>2
  <2>2. ASSUME step \in Going
        PROVE  at <= Len(plan) /\ plan[at] \notin completed
    <3>1. at \in 1..Len(plan) /\ Len(plan) \in Nat /\ DOMAIN plan = 1..Len(plan)
      BY <2>2 DEF Progress
    <3>2. \A i \in 1..(at-1) : i \in DOMAIN plan /\ at \in DOMAIN plan /\ i # at
      BY <3>1
    <3>3. plan[at] \notin Before(at)
      BY <3>2 DEF Progress, Distinct, Before
    <3> QED BY <2>2, <3>1, <3>3 DEF Progress
  <2>3. /\ candidate \in Candidates /\ base \in Bases /\ review \subseteq {"PROT-003"}
        /\ authorization \subseteq Authorization(Bases \X Candidates)
        /\ identity \in {"none", "commit", "worktree"} /\ step \in Steps
        /\ head \in {"planned", "other"}
        /\ {tracked, untracked} \subseteq {"clean", "changed", "late"}
        /\ receipt \in BOOLEAN /\ published \in BOOLEAN /\ exit \in {-1, 0, 1, 2, 3, 64}
    BY DEF Types
  <2>4. plan \in Seq(Tiers) /\ at \in 1..(Len(plan) + 1) /\ completed \subseteq {plan[i] : i \in DOMAIN plan}
    BY DEF Progress, Elements
  <2> QED BY <2>1, <2>2, <2>3, <2>4 DEF CiTypeOK, Going
<1> QED BY <1>1, CiInvariant, PTL

(* Foundation evidence is published only when every tier that applies to   *)
(* the candidate, and all it rests on, is active and has completed: the    *)
(* gate requires them, and nobody gets past the dispatcher's loop without. *)
THEOREM PublishedAlwaysCovers == Spec => []PublishedCoversRequired
<1>1. CiInv => PublishedCoversRequired
  <2> SUFFICES ASSUME Types, Progress, Covering, published PROVE PublishedCoversRequired
    BY DEF CiInv, PublishedCoversRequired
  <2>1. Covers(completed)
    BY DEF Progress, Covering
  <2> DEFINE p == base.policy
  <2>2. Submitted.active = candidate.active
    <3>1. candidate \in Candidate /\ Submitted = [candidate EXCEPT !.changed = Changed]
      BY ChangedFacts DEF Types
    <3> QED BY <3>1 DEF Candidate
  <2>3. ASSUME NEW t \in Tiers, t \in candidate.active \/ ~PrecursorOnly(p, t, Submitted),
               EventAndPath(p, t, Submitted)
        PROVE  Applies(p, t, Submitted)
    BY <2>2, <2>3 DEF Applies
  <2> QED BY <2>1, <2>3 DEF Covers, PublishedCoversRequired
<1> QED BY <1>1, CiInvariant, PTL

(* No plan for a commit changes protected assets, those generated by any   *)
(* chain of rules included, unseen: it says so, or the authorization that  *)
(* was given names exactly this base, this candidate and these assets.     *)
THEOREM ProtectedChangesAlwaysReviewed == Spec => ProtectedChangesReviewed
<1> DEFINE protected == NeedsHuman(base.assets, Changed)
           Reviewed == step = "plan" /\ identity' = "commit" =>
             \/ protected = {} \/ review' = {"PROT-003"}
             \/ [identity |-> <<base, candidate>>, paths |-> protected] \in authorization
<1>1. CiInv /\ [Next]_vars => [Reviewed]_vars
  <2> SUFFICES ASSUME Types, Progress, Next, step = "plan", identity' = "commit" PROVE Reviewed
    BY DEF CiInv, Progress, vars
  <2>1. identity # identity' /\ ~published
    BY DEF Progress
  <2>2. RunGate \/ PlanWorktree
    BY <2>1 DEF Next, Dispatch, Authenticate, CheckCapacity, AssertBefore, RunCommand,
         VerifyProductResult, AssertAfter, WriteReceipt, Publish, ChangeTracked, ChangeUntracked,
         MoveHead, Authorize, MoveBase, Amend
  <2>3. GatePlan.verdict = "pass" /\ review' = Decision
    BY <2>1, <2>2 DEF RunGate, PlanWorktree, PlanWith
  <2>4. Decision \subseteq {"PROT-003"}
    BY <2>3 DEF GatePlan, Refused
  <2>5. base.assets \in AssetPolicy /\ Changed \in SUBSET Paths
    BY ChangedFacts DEF Types
  <2>6. ProtectedPaths(base.assets, Affected(base.assets, Changed)) = protected
    BY <2>5, AffectedFacts
  <2>7. Decision = IF protected = {} THEN {}
                   ELSE IF authorization = {} THEN {"PROT-003"}
                   ELSE IF authorization = {[identity |-> <<base, candidate>>, paths |-> protected]}
                   THEN {} ELSE {"PROT-004"}
    BY <2>6 DEF Decision, Evaluate
  <2> HIDE DEF protected
  <2> QED BY <2>3, <2>4, <2>7
<1>2. [][Reviewed]_vars => ProtectedChangesReviewed
  BY PTL DEF ProtectedChangesReviewed
<1> QED BY <1>1, <1>2, CiInvariant, PTL DEF Spec

-----------------------------------------------------------------------------
(* For a candidate that keeps its base's tier policy, and whose manifests  *)
(* both read alike, the gate refuses whatever the planner a developer runs *)
(* refuses, and executes at least the same tiers; with the registry but    *)
(* for the activation kept too, and nothing generated, they are the same.  *)
THEOREM PlannersAlwaysAgree == Spec => []PlannersAgree
<1>1. candidate \in Candidates /\ base \in Bases => PlannersAgree
  <2> SUFFICES ASSUME candidate \in Candidates, base \in Bases, SameControls PROVE PlannersAgree
    BY DEF PlannersAgree
  <2> DEFINE p == base.policy
             gate == GatePlan
             local == PlanCi(Submitted)
             affected == Affected(base.assets, Changed)
             accepted == ValidPolicy(base.assets) /\ Decision \subseteq {"PROT-003"}
             Plannable(c) == Required(p, c) \subseteq candidate.active \intersect candidate.ready
  <2>1. /\ candidate \in Candidate /\ p \in TierPolicies /\ Changed \subseteq affected
        /\ Submitted = [candidate EXCEPT !.changed = Changed]
        /\ Widened = [candidate EXCEPT !.changed = affected]
    BY ChangedFacts
  <2>2. candidate.policy = p /\ candidate.gateReady = candidate.ready /\ ValidTiers(p)
    BY DEF SameControls
  <2>3. gate = IF accepted THEN Gate(Widened, base) ELSE Refused
    BY DEF GatePlan
  <2> HIDE DEF p, affected, accepted, gate
  <2>4. /\ Widened.active = candidate.active /\ Submitted.active = candidate.active
        /\ Widened.gateReady = candidate.ready /\ Submitted.ready = candidate.ready
        /\ Widened.event = candidate.event /\ Submitted.event = candidate.event
        /\ Widened.registry = candidate.registry /\ Submitted.policy = p
        /\ Submitted.changed = Changed /\ Widened.changed = affected
    BY <2>1, <2>2, DifferOnlyInPaths
  <2>5. /\ Gate(Widened, base).verdict = "pass"
              <=> candidate.registry = base.registry /\ Plannable(Widened)
        /\ Gate(Widened, base).verdict \in {"pass", "contract-invalid"}
        /\ Gate(Widened, base).verdict = "pass" => Gate(Widened, base).tiers = Required(p, Widened)
    BY <2>4, GateFacts DEF p
  <2>6. /\ local.verdict = "pass" <=> Plannable(Submitted)
        /\ local.verdict \in {"pass", "contract-invalid"}
        /\ local.verdict = "pass" => local.tiers = Required(p, Submitted)
    BY <2>2, <2>4, PlanFacts
  <2>7. Required(p, Submitted) \subseteq Required(p, Widened)
    BY <2>1, <2>4, MoreIsRequired
  <2> HIDE DEF local
  <2>8. gate.verdict = "pass" => local.verdict = "pass" /\ local.tiers \subseteq gate.tiers
    BY <2>3, <2>5, <2>6, <2>7 DEF Refused
  <2>9. ASSUME candidate.registry = base.registry, affected = Changed, accepted
        PROVE  /\ gate.verdict = local.verdict
               /\ local.verdict = "pass" => gate.tiers = local.tiers
    <3>1. Widened = Submitted
      BY <2>1, <2>9
    <3> QED BY <2>3, <2>5, <2>6, <2>9, <3>1
  <2> QED BY <2>8, <2>9 DEF PlannersAgree, gate, local, affected, accepted
<1>2. CiInv => candidate \in Candidates /\ base \in Bases
  BY DEF CiInv, Types
<1> QED BY <1>1, <1>2, CiInvariant, PTL

-----------------------------------------------------------------------------
Undisturbed == tracked # "changed" /\ untracked # "changed"

(* Nothing was changed when the dispatcher is past its last command, and   *)
(* only then is there a receipt.                                           *)
ReceiptInv ==
  /\ step \in {"receipt", "publish"} => Undisturbed
  /\ receipt => Undisturbed /\ step \in {"publish", "ended"}

(* A step of the dispatcher that goes on behind a command keeps it when    *)
(* the checkout was just found unchanged, or no receipt is wanted.         *)
LEMMA AdvanceKeeps ==
  ASSUME ReceiptInv, Advance, step \in {"capacity", "after"}, UNCHANGED <<checkout, receipt>>,
         WantsReceipt => Undisturbed
  PROVE  ReceiptInv'
BY DEF ReceiptInv, Advance, Leave, Undisturbed, checkout

LEMMA ReceiptStep == ReceiptInv /\ [Next]_vars => ReceiptInv'
<1> SUFFICES ASSUME ReceiptInv, [Next]_vars PROVE ReceiptInv'
  OBVIOUS
<1>1. CASE RunGate \/ PlanWorktree
  BY <1>1 DEF RunGate, PlanWorktree, PlanWith, Leave, ReceiptInv, Undisturbed, checkout
<1>2. CASE Authenticate
  BY <1>2 DEF Authenticate, Leave, ReceiptInv, Undisturbed
<1>3. CASE CheckCapacity
  <2>1. CASE Advance /\ SkipFoundation
    <3>1. ~WantsReceipt
      BY <2>1 DEF SkipFoundation, WantsReceipt
    <3> QED BY <1>3, <2>1, <3>1, AdvanceKeeps DEF CheckCapacity
  <2>2. CASE ~(Advance /\ SkipFoundation)
    BY <1>3, <2>2 DEF CheckCapacity, Leave, ReceiptInv, Undisturbed, checkout
  <2> QED BY <2>1, <2>2
<1>4. CASE AssertBefore \/ RunCommand \/ VerifyProductResult
  BY <1>4 DEF AssertBefore, RunCommand, VerifyProductResult, Leave, ReceiptInv, Undisturbed, checkout
<1>5. CASE AssertAfter
  <2>1. CASE Unchanged
    <3>1. WantsReceipt => Undisturbed
      BY <2>1 DEF Unchanged, WantsReceipt, Undisturbed
    <3>2. Advance /\ step = "after" /\ UNCHANGED <<checkout, receipt>>
      BY <1>5, <2>1 DEF AssertAfter
    <3> QED BY <3>1, <3>2, AdvanceKeeps
  <2>2. CASE ~Unchanged
    BY <1>5, <2>2 DEF AssertAfter, Leave, ReceiptInv, Undisturbed, checkout
  <2> QED BY <2>1, <2>2
<1>6. CASE WriteReceipt \/ Publish
  BY <1>6 DEF WriteReceipt, Publish, Leave, ReceiptInv, Undisturbed, checkout
<1>7. CASE ChangeTracked \/ ChangeUntracked
  BY <1>7 DEF ChangeTracked, ChangeUntracked, Change, ReceiptInv, Undisturbed
<1>8. CASE MoveHead
  BY <1>8 DEF MoveHead, ReceiptInv, Undisturbed
<1>9. CASE Authorize \/ MoveBase \/ Amend
  BY <1>9 DEF Authorize, MoveBase, Amend, ReceiptInv, Undisturbed, checkout
<1>10. CASE UNCHANGED vars
  BY <1>10 DEF vars, checkout, ReceiptInv, Undisturbed
<1> QED
  BY <1>1, <1>2, <1>3, <1>4, <1>5, <1>6, <1>7, <1>8, <1>9, <1>10 DEF Next, Dispatch

(* A receipt is written only when no change of a file was left, committed  *)
(* ones excepted, when the last command was found to have completed.       *)
THEOREM ReceiptsSeeCandidate == Spec => []ReceiptSawCandidate
<1>1. Init => ReceiptInv
  BY DEF Init, ReceiptInv, Undisturbed
<1>2. ReceiptInv => ReceiptSawCandidate
  BY DEF ReceiptInv, ReceiptSawCandidate, Undisturbed
<1> QED BY <1>1, <1>2, ReceiptStep, PTL DEF Spec
===============================================================================
