--------------------------- MODULE LoopDecisions ---------------------------
(***************************************************************************)
(* The decisions of the bounded agent loop: which journal may be extended  *)
(* by which event (replay_journal), when a repair may be retried           *)
(* (evaluate_retry) and what a repaired run is worth                       *)
(* (evaluate_post_repair).  Everything here is a constant operator over a  *)
(* chain of events; the modules AgentLoop and AgentLoopCli add the state.  *)
(*                                                                         *)
(* Data is abstracted to what the decisions tell apart.  An evidence       *)
(* directory is a name in Evidence, a failure signature or a path a model  *)
(* value, an observation a status and one optional integer metric.  The    *)
(* digest links of the chain are its order, and the fields an event must   *)
(* copy from the header (control binding, evidence identity) are one       *)
(* Boolean, "bound".                                                       *)
(***************************************************************************)
EXTENDS Integers, Sequences, FiniteSets

CONSTANTS
  Budget,         \* retry_budget of the immutable loop header
  Evidence,       \* identities (run_id, evidence_digest) of completed runs
  RequiredIds,    \* validation ids the contract requires of every run
  Cases,          \* case identities (case_id, config_digest)
  Signatures,     \* failure signatures
  Paths,          \* repository paths a diagnosis may name
  ProtectedPaths, \* paths authorize_write refuses as protected
  OutsidePaths,   \* paths outside the role, the contract or generated output
  Kinds,          \* failure kinds evidence errors carry
  Metrics,        \* integers a metric takes
  NULL            \* the JSON null

MaxAttempt == 5

Verdicts == {"pass", "product-fail", "infrastructure-invalid", "contract-invalid"}
Actors == {"agent", "validator", "system", "human"}
Terminal == {"awaiting-human-review", "stopped"}
Statuses == {"awaiting-validation", "validation-failed", "retry-authorized"} \union Terminal
Transitions == {"initialized", "validation-recorded", "retry-authorized"} \union Terminal

(* Stop reasons in the order in which Python sorts the strings.            *)
SortedReasons ==
  <<"causality", "human-escalation", "missing-routing", "non-improving-retry",
    "nondeterminism", "nonfinite", "protected-conflict", "retry-budget-exhausted",
    "scope-expansion", "unexpected-fallback", "unsupported-input", "validation-weakening">>
StopReasons == {SortedReasons[i] : i \in 1..12}

SemanticStopFailures == StopReasons \ {"human-escalation", "retry-budget-exhausted"}
HumanEscalationFailures ==
  {"protected-authorization-conflict", "contract-invalid",
   "authenticated-controls-unavailable", "toolchain-incompatibility",
   "stable-runner-only-failure", "unexplained-flakiness"}

ASSUME DecisionAssumptions ==
  /\ Budget \in 0..5
  /\ Metrics \subseteq Int
  /\ NULL \notin StopReasons /\ NULL \notin Statuses
  /\ ProtectedPaths \subseteq Paths /\ OutsidePaths \subseteq Paths
  /\ ProtectedPaths \cap OutsidePaths = {}

(***************************************************************************)
(* Records.  "shape" is the Python shape of the nested records: "json" for *)
(* lists and nested objects, "asdict" for what dataclasses.asdict leaves   *)
(* (tuples, and a flat improvement record).                                *)
(***************************************************************************)
Key == RequiredIds \X Cases
Observation == [st : {"pass", "fail"}, metric : Metrics \union {NULL}]
Observations == UNION {[K -> Observation] : K \in SUBSET Key}
Binding == [run : Evidence, verdict : Verdicts]
Validation == [id : RequiredIds, status : {"pass", "fail", "invalid"},
               kinds : SUBSET Kinds, paths : SUBSET Paths]
Diagnosis == [validation : RequiredIds, verdict : Verdicts \ {"pass"},
              signature : Signatures, evidence : Evidence, paths : Seq(Paths)]
Improvement == [key : Key, metric : {"status", "count"},
                direction : {"increase", "decrease"}, before : Int, after : Int]
LoopEvent ==
  [transition : Transitions, status : Statuses, attempt : 1..MaxAttempt,
   actor : Actors, binding : Binding \union {NULL},
   validation : Validation \union {NULL}, obs : Observations,
   diagnosis : Diagnosis \union {NULL}, improvement : Improvement \union {NULL},
   stop : StopReasons \union {NULL}, bound : BOOLEAN, time : Nat,
   shape : {"json", "asdict"}]

NoObservations == [k \in {} |-> NULL]

(* The event that AgentLoopJournal.start seals beside the header.          *)
Genesis ==
  [transition |-> "initialized", status |-> "awaiting-validation", attempt |-> 1,
   actor |-> "system", binding |-> NULL, validation |-> NULL,
   obs |-> NoObservations, diagnosis |-> NULL, improvement |-> NULL,
   stop |-> NULL, bound |-> TRUE, time |-> 0, shape |-> "json"]

(***************************************************************************)
(* The loop state that a chain of events replays to.                       *)
(***************************************************************************)
Status(evts) == IF evts = <<>> THEN NULL ELSE evts[Len(evts)].status
Attempt(evts) == IF evts = <<>> THEN 1 ELSE evts[Len(evts)].attempt
RetryIndices(evts) == {i \in DOMAIN evts : evts[i].transition = "retry-authorized"}
RetriesConsumed(evts) == Cardinality(RetryIndices(evts))
SeenEvidence(evts) == {evts[i].binding.run : i \in {j \in DOMAIN evts : evts[j].binding # NULL}}
LastTime(evts) == IF evts = <<>> THEN 0 ELSE evts[Len(evts)].time

ClassifyStopReason(kind) ==
  IF kind \in SemanticStopFailures THEN kind
  ELSE IF kind \in HumanEscalationFailures THEN "human-escalation" ELSE NULL

TypedStops(kinds) == {ClassifyStopReason(k) : k \in kinds} \ {NULL}
FirstReason(reasons) ==
  SortedReasons[CHOOSE i \in 1..12 :
    /\ SortedReasons[i] \in reasons
    /\ \A j \in 1..12 : SortedReasons[j] \in reasons => i <= j]

Better(direction, before, after) ==
  IF direction = "increase" THEN after > before ELSE after < before

(***************************************************************************)
(* evaluate_post_repair: NULL when the observations of a repaired run      *)
(* improve on those that led to the repair, otherwise the reason to stop.  *)
(***************************************************************************)
Regressed(previous, current) ==
  \E k \in DOMAIN previous : previous[k].st = "pass" /\ current[k].st = "fail"

Improves(proof, before, after) ==
  \/ before.st = "fail" /\ after.st = "pass"
  \/ /\ proof.metric = "count"
     /\ before.metric # NULL /\ after.metric # NULL
     /\ Better(proof.direction, before.metric, after.metric)

(* Mutant: a case that passed may fail after the repair.                   *)
ImprovesOnly(previous, current, proof) ==
  /\ DOMAIN previous = DOMAIN current
  /\ proof.key \in DOMAIN current
  /\ Improves(proof, previous[proof.key], current[proof.key])

KeepsAndImproves(previous, current, proof) ==
  /\ DOMAIN previous = DOMAIN current
  /\ ~Regressed(previous, current)
  /\ proof.key \in DOMAIN current
  /\ Improves(proof, previous[proof.key], current[proof.key])

EvaluatePostRepair(evts, obs, kinds) ==
  LET n == Len(evts) IN
  IF \/ n < 2
     \/ Status(evts) # "retry-authorized"
     \/ evts[n].improvement = NULL
     \/ DOMAIN evts[n-1].obs = {}
  THEN "human-escalation"
  ELSE IF TypedStops(kinds) # {} THEN FirstReason(TypedStops(kinds))
  ELSE IF KeepsAndImproves(evts[n-1].obs, obs, evts[n].improvement)
  THEN NULL ELSE "non-improving-retry"

(* Mutant: the limit of five attempts is left to the retry budget.         *)
SchemaWithoutMaximum(e) == e.shape = "json"

(***************************************************************************)
(* replay_journal.  Accepts(evts, e) is one round of its loop: event e may *)
(* follow the accepted chain evts.                                         *)
(***************************************************************************)
SchemaValid(e) == e.shape = "json" /\ e.attempt \in 1..MaxAttempt

(* Mutant: a failed loop may record another failure before a retry.        *)
TransitionsRepeatFailure(status) ==
  CASE status = NULL -> {<<"initialized", "awaiting-validation">>}
    [] status \in {"awaiting-validation", "validation-failed", "retry-authorized"} ->
         {<<"validation-recorded", "validation-failed">>,
          <<"awaiting-human-review", "awaiting-human-review">>,
          <<"retry-authorized", "retry-authorized">>, <<"stopped", "stopped">>}
    [] OTHER -> {}

(* Mutant: a loop that awaits review can still be stopped.                 *)
TransitionsReopenReview(status) ==
  CASE status = NULL -> {<<"initialized", "awaiting-validation">>}
    [] status \in {"validation-failed", "awaiting-human-review"} ->
         {<<"retry-authorized", "retry-authorized">>, <<"stopped", "stopped">>}
    [] status \in {"awaiting-validation", "retry-authorized"} ->
         {<<"validation-recorded", "validation-failed">>,
          <<"awaiting-human-review", "awaiting-human-review">>,
          <<"stopped", "stopped">>}
    [] OTHER -> {}

AllowedTransitions(status) ==
  CASE status = NULL -> {<<"initialized", "awaiting-validation">>}
    [] status = "validation-failed" ->
         {<<"retry-authorized", "retry-authorized">>, <<"stopped", "stopped">>}
    [] status \in {"awaiting-validation", "retry-authorized"} ->
         {<<"validation-recorded", "validation-failed">>,
          <<"awaiting-human-review", "awaiting-human-review">>,
          <<"stopped", "stopped">>}
    [] OTHER -> {}

(* Mutant: only a person moves a loop to its review.                       *)
ActorReviews(e) ==
  CASE e.transition = "initialized" -> e.actor = "system"
    [] e.transition = "retry-authorized" -> e.actor = "agent"
    [] e.transition = "stopped" -> e.actor \in {"system", "validator"}
    [] e.transition = "awaiting-human-review" -> e.actor = "human"
    [] OTHER -> e.actor = "validator"

ActorAllowed(e) ==
  CASE e.transition = "initialized" -> e.actor = "system"
    [] e.transition = "retry-authorized" -> e.actor = "agent"
    [] e.transition = "stopped" -> e.actor \in {"system", "validator"}
    [] OTHER -> e.actor = "validator"

(* Mutant: a retry may skip attempt numbers.                               *)
AttemptGrows(evts, e) ==
  IF e.transition = "retry-authorized"
  THEN e.attempt > Attempt(evts) /\ RetriesConsumed(evts) + 1 <= Budget
  ELSE e.attempt = Attempt(evts)

(* Mutant: the last retry of the budget is refused.                        *)
AttemptBelowBudget(evts, e) ==
  IF e.transition = "retry-authorized"
  THEN e.attempt = Attempt(evts) + 1 /\ RetriesConsumed(evts) + 1 < Budget
  ELSE e.attempt = Attempt(evts)

AttemptFollows(evts, e) ==
  IF e.transition = "retry-authorized"
  THEN e.attempt = Attempt(evts) + 1 /\ RetriesConsumed(evts) + 1 <= Budget
  ELSE e.attempt = Attempt(evts)

(* Mutant: only the last event is asked whether it used the evidence.      *)
EvidenceUnlikeLast(evts, e) ==
  /\ e.transition \in {"validation-recorded", "awaiting-human-review"} =>
       e.binding # NULL /\ DOMAIN e.obs # {}
  /\ e.transition \in {"initialized", "retry-authorized"} => DOMAIN e.obs = {}
  /\ e.binding # NULL /\ evts # <<>> => e.binding # evts[Len(evts)].binding

EvidenceFits(evts, e) ==
  /\ e.transition \in {"validation-recorded", "awaiting-human-review"} =>
       e.binding # NULL /\ DOMAIN e.obs # {}
  /\ e.transition \in {"initialized", "retry-authorized"} => DOMAIN e.obs = {}
  /\ e.binding # NULL => e.binding.run \notin SeenEvidence(evts)

ExpectedStatus(verdict) ==
  IF verdict = "pass" THEN "pass" ELSE IF verdict = "product-fail" THEN "fail" ELSE "invalid"

VerdictFits(e) ==
  /\ e.transition = "validation-recorded" =>
       /\ e.validation # NULL /\ e.validation.id \in RequiredIds
       /\ e.binding.verdict # "pass"
       /\ e.validation.status = ExpectedStatus(e.binding.verdict)
  /\ e.transition = "awaiting-human-review" =>
       /\ e.validation # NULL /\ e.validation.status = "pass"
       /\ e.binding.verdict = "pass"

RetryBindsFailure(prior, e) ==
  /\ e.diagnosis # NULL /\ e.improvement # NULL
  /\ prior.transition = "validation-recorded"
  /\ prior.binding # NULL /\ prior.validation # NULL
  /\ e.diagnosis.validation = prior.validation.id
  /\ e.diagnosis.evidence = prior.binding.run
  /\ e.improvement.key[1] \in RequiredIds

EventKinds(e) == IF e.validation = NULL THEN {} ELSE e.validation.kinds

(* Mutant: only a stop is compared with the outcome of the repair.         *)
PostRepairStopFits(evts, e) ==
  (/\ Status(evts) = "retry-authorized"
   /\ e.transition = "stopped"
   /\ e.binding # NULL) =>
     e.stop = EvaluatePostRepair(evts, e.obs, EventKinds(e))

PostRepairFits(evts, e) ==
  (/\ Status(evts) = "retry-authorized"
   /\ e.transition \in {"validation-recorded", "stopped"}
   /\ e.binding # NULL) =>
     LET expected == EvaluatePostRepair(evts, e.obs, EventKinds(e)) IN
     IF e.transition = "stopped" THEN e.stop = expected ELSE expected = NULL

Accepts(evts, e) ==
  /\ SchemaValid(e)
  /\ e.bound
  /\ e.time >= LastTime(evts)
  /\ <<e.transition, e.status>> \in AllowedTransitions(Status(evts))
  /\ ActorAllowed(e)
  /\ AttemptFollows(evts, e)
  /\ EvidenceFits(evts, e)
  /\ VerdictFits(e)
  /\ e.transition = "retry-authorized" => RetryBindsFailure(evts[Len(evts)], e)
  /\ (e.transition = "stopped") <=> (e.stop # NULL)
  /\ PostRepairFits(evts, e)

Replay(evts) ==
  /\ evts # <<>>
  /\ \A i \in 1..Len(evts) : Accepts(SubSeq(evts, 1, i-1), evts[i])

(***************************************************************************)
(* evaluate_retry: NULL when the request is allowed, otherwise the reason  *)
(* to stop.  The rules are tried in the order of the code.                 *)
(***************************************************************************)
DiagnosisBinds(prior, d) ==
  /\ prior.transition = "validation-recorded"
  /\ prior.validation.id = d.validation
  /\ prior.binding # NULL
  /\ prior.binding.run = d.evidence
  /\ prior.binding.verdict = d.verdict
  /\ d.paths # <<>>

(* Mutant: signatures are forgotten once the repaired run is recorded.     *)
UnansweredSignatures(evts) ==
  {evts[i].diagnosis.signature : i \in RetryIndices(evts) \cap {Len(evts)}}

AttemptedSignatures(evts) == {evts[i].diagnosis.signature : i \in RetryIndices(evts)}

RefusedPath(p) == p \in ProtectedPaths \union OutsidePaths
FirstRefused(paths) ==
  paths[CHOOSE i \in DOMAIN paths :
          RefusedPath(paths[i]) /\ \A j \in DOMAIN paths : RefusedPath(paths[j]) => i <= j]

ProposalValid(o, proof) ==
  IF proof.metric = "status"
  THEN o.st = "fail" /\ proof.direction = "increase" /\ proof.before = 0 /\ proof.after = 1
  ELSE o.metric # NULL /\ o.metric = proof.before /\ Better(proof.direction, proof.before, proof.after)

EvaluateRetry(evts, req) ==
  LET prior == evts[Len(evts)]
      d == req.diagnosis
      kinds == EventKinds(prior)
  IN
  IF Status(evts) # "validation-failed" THEN "human-escalation"
  ELSE IF RetriesConsumed(evts) >= Budget \/ Attempt(evts) >= MaxAttempt
  THEN "retry-budget-exhausted"
  ELSE IF ~DiagnosisBinds(prior, d) THEN "human-escalation"
  ELSE IF d.signature \in AttemptedSignatures(evts) \union req.previous
  THEN "non-improving-retry"
  ELSE IF kinds # {req.kind} THEN "human-escalation"
  ELSE IF ClassifyStopReason(req.kind) # NULL THEN ClassifyStopReason(req.kind)
  ELSE IF d.verdict = "contract-invalid" THEN "human-escalation"
  ELSE IF req.approval \/ req.actor # "agent" THEN "protected-conflict"
  ELSE IF d.paths # req.paths \/ {d.paths[i] : i \in DOMAIN d.paths} # prior.validation.paths
  THEN "scope-expansion"
  ELSE IF {k[1] : k \in DOMAIN prior.obs} # RequiredIds THEN "non-improving-retry"
  ELSE IF \E i \in DOMAIN req.paths : RefusedPath(req.paths[i])
  THEN IF FirstRefused(req.paths) \in ProtectedPaths THEN "protected-conflict" ELSE "scope-expansion"
  ELSE IF d.verdict = "infrastructure-invalid" /\ ~req.infrastructure THEN "human-escalation"
  ELSE IF req.improvement.key \notin DOMAIN prior.obs THEN "non-improving-retry"
  ELSE IF ~ProposalValid(prior.obs[req.improvement.key], req.improvement)
  THEN "non-improving-retry" ELSE NULL
=============================================================================
