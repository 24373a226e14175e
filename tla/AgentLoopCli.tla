----------------------------- MODULE AgentLoopCli -----------------------------
(***************************************************************************)
(* Processes that drive one loop by the decisions of the package: inspect  *)
(* the journal, decide on that snapshot what to record, and append it.     *)
(* Nothing is locked between the inspection and the append, so the journal *)
(* a decision is appended to need not be the one it was made on.           *)
(*                                                                         *)
(* A process is either the command "agent-loop evaluate", whose records    *)
(* are what dataclasses.asdict leaves (Shape "asdict"), or a client of the *)
(* library that makes the same decisions and writes its records as JSON    *)
(* lists and objects, as the tests do (Shape "json").                      *)
(***************************************************************************)
EXTENDS AgentLoop

CONSTANTS
  Callers,
  Shape,    \* [Callers -> {"json", "asdict"}]
  Requests, \* the repair requests callers make
  AskedStops \* the stop reasons callers record without evidence or request

RepairRequest ==
  [diagnosis : Diagnosis, improvement : Improvement, paths : Seq(Paths),
   kind : Kinds \union {NULL}, approval : BOOLEAN, actor : Actors,
   infrastructure : BOOLEAN, previous : SUBSET Signatures, newFailure : BOOLEAN]

(* A run whose verdict is a pass is published with every validation passed.*)
ASSUME CallerAssumption ==
  /\ Shape \in [Callers -> {"json", "asdict"}]
  /\ AskedStops \subseteq Reasons
  /\ Requests \subseteq RepairRequest
  /\ NULL \notin LoopEvent \union RepairRequest
  /\ NULL \notin Diagnosis \union Improvement \union Binding \union Validation
  /\ \A ev \in Evidence : Manifest[ev].verdict = "pass" =>
       \A i \in DOMAIN Manifest[ev].results : Manifest[ev].results[i].st = "pass"

VARIABLES
  pc,    \* "idle", "inspected", "recorded" or "refused", of each caller
  task,  \* what each caller was last asked to do
  snap,  \* the chain its last inspection read
  grants \* for each event, the request whose grant it records, or NULL

cliVars == <<events, pc, task, snap, grants>>

Task(kind, subject) == [kind |-> kind, subject |-> subject, bump |-> 0, actor |-> "system"]

(* The event file of a retry names an attempt and an actor of its own.     *)
Tasks ==
  {Task("evidence", ev) : ev \in Evidence} \union {Task("stop", r) : r \in AskedStops}
  \union {[kind |-> "retry", subject |-> req, bump |-> b, actor |-> x] :
            req \in Requests, b \in {0, 1}, x \in {"agent", "system"}}

AllKinds(ev) == UNION {Manifest[ev].results[i].kinds : i \in DOMAIN Manifest[ev].results}

-----------------------------------------------------------------------------
(* run_agent_loop_evaluate with --evidence: evidence the snapshot already  *)
(* binds is not admitted (LOOP-406).                                       *)
PostRepairStop(s, ev) ==
  IF Status(s) = "retry-authorized" THEN EvaluatePostRepair(s, ObservationsOf(ev), AllKinds(ev)) ELSE NULL

EvidenceDecision(s, ev) ==
  LET verdict == Manifest[ev].verdict
      stop == PostRepairStop(s, ev)
  IN
  CASE ev \in SeenEvidence(s) -> NULL
    [] ev \notin SeenEvidence(s) /\ verdict = "pass" ->
         EvidenceEvent(ev, "awaiting-human-review", "awaiting-human-review", NULL)
    [] ev \notin SeenEvidence(s) /\ verdict = "product-fail" /\ stop = NULL ->
         EvidenceEvent(ev, "validation-recorded", "validation-failed", NULL)
    [] ev \notin SeenEvidence(s) /\ verdict = "product-fail" /\ stop # NULL ->
         EvidenceEvent(ev, "stopped", "stopped", stop)
    [] OTHER -> EvidenceEvent(ev, "stopped", "stopped", "human-escalation")

(* ... with a repair request: the grant, or a stop for the denial.         *)
Granted(s, t) == t.kind = "retry" /\ EvaluateRetry(s, t.subject) = NULL

(* Mutant: the supplied retry event is appended whatever was decided.      *)
RetryUndecided(s, t) == RetryEvent(t.subject.diagnosis, t.subject.improvement, NULL)

RetryDecision(s, t) ==
  IF Granted(s, t)
  THEN RetryEvent(t.subject.diagnosis, t.subject.improvement, NULL)
  ELSE [StopEvent(EvaluateRetry(s, t.subject)) EXCEPT !.actor = t.actor]

(* Only the records of evidence and of grants pass through asdict.         *)
Decision(c) ==
  LET t == task[c]
      s == snap[c]
      decided == CASE t.kind = "evidence" -> EvidenceDecision(s, t.subject)
                   [] t.kind = "retry" -> RetryDecision(s, t)
                   [] t.kind = "stop" -> StopEvent(t.subject)
  IN IF decided = NULL THEN NULL
     ELSE [decided EXCEPT
             !.attempt = Attempt(s) + t.bump, !.time = LastTime(s),
             !.shape = IF t.kind = "evidence" \/ Granted(s, t) THEN Shape[c] ELSE "json"]

-----------------------------------------------------------------------------
Inspect(c) ==
  /\ pc[c] # "inspected"
  /\ Replay(events)
  /\ \E t \in Tasks : task' = [task EXCEPT ![c] = t]
  /\ snap' = [snap EXCEPT ![c] = events]
  /\ pc' = [pc EXCEPT ![c] = "inspected"]
  /\ UNCHANGED <<events, grants>>

(* Mutant: the event is put behind the chain that was inspected.           *)
AppendToSnapshot(c) ==
  /\ pc[c] = "inspected"
  /\ IF Decision(c) # NULL /\ Accepts(snap[c], Decision(c))
     THEN /\ events' = Append(snap[c], Decision(c))
          /\ grants' = Append(SubSeq(grants, 1, Len(snap[c])),
                              IF Granted(snap[c], task[c]) THEN task[c].subject ELSE NULL)
          /\ pc' = [pc EXCEPT ![c] = "recorded"]
     ELSE /\ pc' = [pc EXCEPT ![c] = "refused"]
          /\ UNCHANGED <<events, grants>>
  /\ UNCHANGED <<task, snap>>

AppendDecision(c) ==
  /\ pc[c] = "inspected"
  /\ IF Decision(c) # NULL /\ Accepts(events, Decision(c))
     THEN /\ events' = Append(events, Decision(c))
          /\ grants' = Append(grants, IF Granted(snap[c], task[c]) THEN task[c].subject ELSE NULL)
          /\ pc' = [pc EXCEPT ![c] = "recorded"]
     ELSE /\ pc' = [pc EXCEPT ![c] = "refused"]
          /\ UNCHANGED <<events, grants>>
  /\ UNCHANGED <<task, snap>>

CliInit ==
  /\ events = <<Genesis>> /\ grants = <<NULL>>
  /\ pc = [c \in Callers |-> "idle"]
  /\ task = [c \in Callers |-> NULL]
  /\ snap = [c \in Callers |-> <<>>]

CliNext == \E c \in Callers : Inspect(c) \/ AppendDecision(c)
CliSpec == CliInit /\ [][CliNext]_cliVars

-----------------------------------------------------------------------------
(* What a process has inspected stays part of the journal: no append of    *)
(* another process is lost.                                                *)
CliTypeOK ==
  /\ pc \in [Callers -> {"idle", "inspected", "recorded", "refused"}]
  /\ task \in [Callers -> Tasks \union {NULL}]
  /\ Len(grants) = Len(events)
  /\ \A c \in Callers :
       Len(snap[c]) <= Len(events) /\ snap[c] = SubSeq(events, 1, Len(snap[c]))

(* Every recorded retry would be granted on the very chain it was put      *)
(* behind: a grant decided on a stale snapshot is never recorded.          *)
GrantsAreFresh ==
  \A i \in RetryIndices(events) :
    /\ grants[i] # NULL
    /\ EvaluateRetry(SubSeq(events, 1, i - 1), grants[i]) = NULL
    /\ events[i].diagnosis = grants[i].diagnosis

(* No failure signature is repaired twice, whoever asks for it.            *)
SignaturesOnce ==
  \A i, j \in RetryIndices(events) :
    events[i].diagnosis.signature = events[j].diagnosis.signature => i = j

-----------------------------------------------------------------------------
(* What the documentation says of the command and of repair requests.  The *)
(* first two are also agreements between the decision functions and replay:*)
(* what the former decide on the current chain, the latter accepts.        *)
Undisturbed(c) == snap[c] = events /\ pc[c] = "refused"

(* "A valid pass moves to terminal awaiting-human-review": evidence that   *)
(* passed is not refused while the loop awaits it.                         *)
ValidPassIsRecorded ==
  \A c \in Callers :
    Undisturbed(c) /\ task[c].kind = "evidence" /\ task[c].bump = 0
    /\ Manifest[task[c].subject].verdict = "pass"
    => Status(events) \notin {"awaiting-validation", "retry-authorized"}

(* "... can authorize one bounded repair": a repair that evaluate_retry    *)
(* grants, with the next attempt number, is not refused.                   *)
GrantIsRecorded ==
  \A c \in Callers : Undisturbed(c) /\ task[c].bump = 1 => ~Granted(events, task[c])

(* "Causality, nonfinite, ... failures stop without retry": no repair is   *)
(* authorized on evidence that has such a failure.                         *)
MandatoryFailuresStop ==
  \A i \in RetryIndices(events) :
    AllKinds(events[i].diagnosis.evidence) \cap SemanticStopFailures = {}

(* "A ... new required failure ... is rejected as non-improving before a   *)
(* retry event can be appended".                                           *)
NewFailureIsRejected ==
  \A i \in RetryIndices(events) : ~grants[i].newFailure
=============================================================================
