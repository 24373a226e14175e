-------------------------- MODULE AgentLoopCliProofs --------------------------
(***************************************************************************)
(* Proofs about AgentLoopCli, for any number of processes, requests and    *)
(* runs of evidence.  Processes decide on a snapshot and append later; all *)
(* that the journal itself promises holds because every append is of an    *)
(* event replay accepted (lemma CliAppends).  What the processes promise   *)
(* needs the snapshots: a prefix of the journal each, and, since evidence  *)
(* is bound once, the whole of it when the grant of a retry is accepted.   *)
(***************************************************************************)
EXTENDS AgentLoopCli, AgentLoopProofs

-----------------------------------------------------------------------------
(* What a process decides is a typed event, whatever it decides upon.      *)
Asked(c) == pc[c] # "idle" => task[c] \in Tasks /\ snap[c] # <<>>

CliTypes ==
  /\ TypeOK /\ CliTypeOK /\ \A c \in Callers : Asked(c)
  /\ grants \in Seq(Requests \union {NULL}) /\ snap \in [Callers -> Seq(LoopEvent)]

(* Evidence is bound as its manifest reports it, by its own event only.    *)
HonestBinding(e) ==
  e.binding # NULL => /\ e.binding = BindingOf(e.binding.run)
                      /\ e.transition \in {"validation-recorded"} \union Terminal

(* The three outcomes of a decision.                                       *)
Decisions == {"evidence", "retry", "stop"}

LEMMA TaskFacts ==
  ASSUME NEW t \in Tasks
  PROVE  /\ t.kind \in Decisions /\ t.bump \in {0, 1} /\ t.actor \in Actors
         /\ t.kind = "evidence" => t.subject \in Evidence /\ t.bump = 0
         /\ t.kind = "stop" => t.subject \in StopReasons
         /\ t.kind = "retry" => t.subject \in Requests /\ t.subject \in RepairRequest
BY CallerAssumption, ManifestAssumption DEF Tasks, Task, Decisions, Actors

LEMMA ReasonTypes ==
  /\ \A kind : ClassifyStopReason(kind) \in StopReasons \union {NULL}
  /\ {"human-escalation", "retry-budget-exhausted", "non-improving-retry",
      "protected-conflict", "scope-expansion"} \subseteq StopReasons
BY DEF ClassifyStopReason, SemanticStopFailures, StopReasons, SortedReasons

LEMMA RetryReason ==
  ASSUME NEW s, NEW req
  PROVE  EvaluateRetry(s, req) \in StopReasons \union {NULL}
BY ReasonTypes, Zenon DEF EvaluateRetry

LEMMA PostRepairReason ==
  ASSUME NEW s, NEW obs, NEW kinds
  PROVE  EvaluatePostRepair(s, obs, kinds) \in StopReasons \union {NULL}
BY ReasonTypes, TypedStopReason DEF EvaluatePostRepair

(* A run is recorded as passed, as failed or as the reason to stop.        *)
EvidenceOutcomes ==
  {<<"awaiting-human-review", "awaiting-human-review">>,
   <<"validation-recorded", "validation-failed">>, <<"stopped", "stopped">>}

LEMMA EvidenceDecided ==
  ASSUME NEW s, NEW ev, EvidenceDecision(s, ev) # NULL
  PROVE  \E o \in EvidenceOutcomes, r \in StopReasons \union {NULL} :
           EvidenceDecision(s, ev) = EvidenceEvent(ev, o[1], o[2], r)
<1>1. PostRepairStop(s, ev) \in StopReasons \union {NULL}
  BY PostRepairReason DEF PostRepairStop
<1> QED BY <1>1, ReasonTypes DEF EvidenceDecision, EvidenceOutcomes

LEMMA SnapFacts ==
  ASSUME CliTypes, NEW c \in Callers, pc[c] # "idle"
  PROVE  /\ snap[c] \in Seq(LoopEvent) /\ Len(snap[c]) \in 1..Len(events)
         /\ snap[c] = SubSeq(events, 1, Len(snap[c]))
         /\ \A i \in 1..Len(snap[c]) : snap[c][i] = events[i]
         /\ Status(snap[c]) = events[Len(snap[c])].status
         /\ Attempt(snap[c]) \in 1..MaxAttempt /\ LastTime(snap[c]) \in Nat
<1>1. /\ snap[c] # <<>> /\ events \in Seq(LoopEvent)
      /\ Len(snap[c]) <= Len(events) /\ snap[c] = SubSeq(events, 1, Len(snap[c]))
  BY DEF CliTypes, CliTypeOK, Asked, TypeOK
<1> DEFINE s == snap[c]
           m == Len(s)
<1>2. s \in Seq(LoopEvent) /\ m \in Nat
  BY DEF CliTypes
<1>3. m \in 1..Len(events)
  BY <1>1, <1>2
<1>4. \A i \in 1..m : s[i] = events[i]
  <2> HIDE DEF m
  <2>1. s = SubSeq(events, 1, m)
    BY <1>1 DEF m
  <2> QED BY <1>1, <1>3, <2>1
<1>5. s[m] = events[m] /\ s[m] \in LoopEvent
  BY <1>2, <1>3, <1>4
<1>6. Status(s) = s[m].status /\ Attempt(s) = s[m].attempt /\ LastTime(s) = s[m].time
  BY <1>1 DEF Status, Attempt, LastTime
<1> HIDE DEF s, m
<1>7. s[m].attempt \in 1..MaxAttempt /\ s[m].time \in Nat
  BY <1>5 DEF LoopEvent
<1> QED BY <1>1, <1>2, <1>3, <1>4, <1>5, <1>6, <1>7 DEF s, m

(* The record that a process appends, before and after its fields are set. *)
Decided(c) ==
  LET t == task[c]  s == snap[c] IN
  CASE t.kind = "evidence" -> EvidenceDecision(s, t.subject)
    [] t.kind = "retry" -> RetryDecision(s, t)
    [] t.kind = "stop" -> StopEvent(t.subject)

Stamped(c, e) ==
  [e EXCEPT !.attempt = Attempt(snap[c]) + task[c].bump, !.time = LastTime(snap[c]),
            !.shape = IF task[c].kind = "evidence" \/ Granted(snap[c], task[c]) THEN Shape[c] ELSE "json"]

LEMMA DecisionForm ==
  ASSUME NEW c \in Callers
  PROVE  Decision(c) = IF Decided(c) = NULL THEN NULL ELSE Stamped(c, Decided(c))
BY Zenon DEF Decision, Decided, Stamped

LEMMA StampedTypes ==
  ASSUME CliTypes, NEW c \in Callers, pc[c] # "idle", NEW e \in OfferedEvent
  PROVE  /\ Stamped(c, e) \in OfferedEvent
         /\ Stamped(c, e).binding = e.binding /\ Stamped(c, e).transition = e.transition
         /\ Stamped(c, e).diagnosis = e.diagnosis
<1>1. task[c] \in Tasks
  BY DEF CliTypes, Asked
<1>2. Attempt(snap[c]) + task[c].bump \in Nat /\ LastTime(snap[c]) \in Nat
  BY <1>1, TaskFacts, SnapFacts DEF MaxAttempt
<1>3. (IF task[c].kind = "evidence" \/ Granted(snap[c], task[c]) THEN Shape[c] ELSE "json") \in {"json", "asdict"}
  BY CallerAssumption
<1> QED BY <1>2, <1>3 DEF Stamped, OfferedEvent

LEMMA DecidedTypes ==
  ASSUME CliTypes, NEW c \in Callers, pc[c] # "idle", Decided(c) # NULL
  PROVE  /\ Decided(c) \in OfferedEvent /\ HonestBinding(Decided(c))
         /\ Decided(c).transition = "retry-authorized" =>
              Granted(snap[c], task[c]) /\ Decided(c).diagnosis = task[c].subject.diagnosis
<1> DEFINE t == task[c]
           s == snap[c]
<1>1. t \in Tasks /\ TypeOK
  BY DEF CliTypes, Asked
<1>2. CASE t.kind = "evidence"
  <2>1. Decided(c) = EvidenceDecision(s, t.subject) /\ t.subject \in Evidence
    BY <1>1, <1>2, TaskFacts DEF Decided
  <2>2. PICK o \in EvidenceOutcomes, r \in StopReasons \union {NULL} :
          Decided(c) = EvidenceEvent(t.subject, o[1], o[2], r)
    BY <2>1, EvidenceDecided
  <2>3. o[1] \in {"validation-recorded"} \union Terminal /\ o[1] \in Transitions /\ o[2] \in Statuses
    BY DEF EvidenceOutcomes, Transitions, Statuses, Terminal
  <2>4. Decided(c) \in OfferedEvent
    BY <1>1, <2>1, <2>2, <2>3, EvidenceEventType
  <2>5. Decided(c).binding = BindingOf(t.subject) /\ Decided(c).transition = o[1]
    BY <2>2 DEF EvidenceEvent, Genesis
  <2> QED BY <2>3, <2>4, <2>5 DEF HonestBinding, BindingOf, Terminal
<1>3. CASE t.kind = "retry"
  <2>1. Decided(c) = RetryDecision(s, t) /\ t.subject \in RepairRequest
    BY <1>1, <1>3, TaskFacts DEF Decided
  <2>2. CASE Granted(s, t)
    <3>1. Decided(c) = RetryEvent(t.subject.diagnosis, t.subject.improvement, NULL)
      BY <2>1, <2>2 DEF RetryDecision
    <3>2. t.subject.diagnosis \in Diagnosis /\ t.subject.improvement \in Improvement
      BY <2>1 DEF RepairRequest
    <3>3. Decided(c).binding = NULL /\ Decided(c).diagnosis = t.subject.diagnosis
      BY <3>1 DEF RetryEvent, Genesis
    <3>4. Decided(c) \in OfferedEvent
      BY <1>1, <3>1, <3>2, RetryEventType
    <3> QED BY <2>2, <3>3, <3>4 DEF HonestBinding
  <2>3. CASE ~Granted(s, t)
    <3>1. Decided(c) = [StopEvent(EvaluateRetry(s, t.subject)) EXCEPT !.actor = t.actor]
      BY <2>1, <2>3 DEF RetryDecision
    <3>2. EvaluateRetry(s, t.subject) \in StopReasons
      BY <1>3, <2>3, RetryReason DEF Granted
    <3>3. StopEvent(EvaluateRetry(s, t.subject)) \in OfferedEvent
      BY <1>1, <3>2, StopEventType
    <3>4. Decided(c) \in OfferedEvent
      BY <1>1, <3>1, <3>3, TaskFacts DEF OfferedEvent
    <3>5. Decided(c).binding = NULL /\ Decided(c).transition = "stopped"
      BY <3>1 DEF StopEvent, Genesis
    <3> QED BY <3>4, <3>5 DEF HonestBinding
  <2> QED BY <2>2, <2>3
<1>4. CASE t.kind = "stop"
  <2>1. Decided(c) = StopEvent(t.subject) /\ t.subject \in StopReasons
    BY <1>1, <1>4, TaskFacts DEF Decided
  <2>2. Decided(c) \in OfferedEvent
    BY <1>1, <2>1, StopEventType
  <2>3. Decided(c).binding = NULL /\ Decided(c).transition = "stopped"
    BY <2>1 DEF StopEvent, Genesis
  <2> QED BY <2>2, <2>3 DEF HonestBinding
<1> QED BY <1>1, <1>2, <1>3, <1>4, TaskFacts DEF Decisions

-----------------------------------------------------------------------------
(***************************************************************************)
(* The journal: whatever the processes append is an accepted event.        *)
(***************************************************************************)
(* An append of a process, as far as the other processes see it.           *)
Records(c, e) ==
  /\ e = Decision(c) /\ e \in LoopEvent /\ Accepts(events, e) /\ HonestBinding(e)
  /\ e.transition = "retry-authorized" =>
       Granted(snap[c], task[c]) /\ e.diagnosis = task[c].subject.diagnosis
  /\ events' = Append(events, e)
  /\ grants' = Append(grants, IF Granted(snap[c], task[c]) THEN task[c].subject ELSE NULL)

LEMMA CliAppends ==
  ASSUME CliTypes, NEW c \in Callers, AppendDecision(c)
  PROVE  /\ pc[c] = "inspected" /\ UNCHANGED <<task, snap>>
         /\ \/ /\ \E e \in LoopEvent : Records(c, e)
               /\ pc' = [pc EXCEPT ![c] = "recorded"]
            \/ /\ Decision(c) = NULL \/ ~Accepts(events, Decision(c))
               /\ pc' = [pc EXCEPT ![c] = "refused"]
               /\ UNCHANGED <<events, grants>>
<1>1. CASE Decision(c) # NULL /\ Accepts(events, Decision(c))
  <2> DEFINE d == Decided(c)
             e == Decision(c)
  <2>1. pc[c] # "idle" /\ d # NULL /\ e = Stamped(c, d)
    BY <1>1, DecisionForm DEF AppendDecision
  <2>2. /\ d \in OfferedEvent /\ HonestBinding(d)
        /\ d.transition = "retry-authorized" =>
             Granted(snap[c], task[c]) /\ d.diagnosis = task[c].subject.diagnosis
    BY <2>1, DecidedTypes
  <2>3. /\ e \in OfferedEvent /\ e.binding = d.binding
        /\ e.transition = d.transition /\ e.diagnosis = d.diagnosis
    BY <2>1, <2>2, StampedTypes
  <2>4. e \in LoopEvent
    BY <1>1, <2>3 DEF Accepts, SchemaValid, OfferedEvent, LoopEvent
  <2>5. Records(c, e)
    <3>1. HonestBinding(e)
      BY <2>2, <2>3 DEF HonestBinding
    <3>2. /\ events' = Append(events, e)
          /\ grants' = Append(grants, IF Granted(snap[c], task[c]) THEN task[c].subject ELSE NULL)
      BY <1>1 DEF AppendDecision
    <3> HIDE DEF d, e
    <3> QED BY <1>1, <2>2, <2>3, <2>4, <3>1, <3>2 DEF Records, e
  <2>6. pc[c] = "inspected" /\ UNCHANGED <<task, snap>> /\ pc' = [pc EXCEPT ![c] = "recorded"]
    BY <1>1 DEF AppendDecision
  <2> QED BY <2>4, <2>5, <2>6
<1>2. CASE ~(Decision(c) # NULL /\ Accepts(events, Decision(c)))
  BY <1>2, Zenon DEF AppendDecision
<1> QED BY <1>1, <1>2

(* Appending to a journal takes no snapshot of it away.                    *)
LEMMA PrefixKept ==
  ASSUME NEW s \in Seq(LoopEvent), NEW e \in LoopEvent, NEW k \in Nat, k <= Len(s)
  PROVE  SubSeq(Append(s, e), 1, k) = SubSeq(s, 1, k)
OBVIOUS

LEMMA CliTypesInit == CliInit => CliTypes
<1> SUFFICES ASSUME CliInit PROVE CliTypes
  OBVIOUS
<1>1. TypeOK
  BY GenesisType DEF CliInit, TypeOK
<1>2. Len(events) = 1 /\ Len(grants) = 1 /\ grants \in Seq(Requests \union {NULL})
  BY DEF CliInit
<1>3. \A c \in Callers : /\ Len(snap[c]) = 0 /\ snap[c] \in Seq(LoopEvent) /\ pc[c] = "idle"
                         /\ snap[c] = SubSeq(events, 1, Len(snap[c]))
  BY DEF CliInit
<1>4. /\ pc \in [Callers -> {"idle", "inspected", "recorded", "refused"}]
      /\ task \in [Callers -> Tasks \union {NULL}] /\ snap \in [Callers -> Seq(LoopEvent)]
  BY DEF CliInit
<1>5. CliTypeOK
  BY <1>2, <1>3, <1>4 DEF CliTypeOK
<1> QED BY <1>1, <1>2, <1>3, <1>4, <1>5 DEF CliTypes, Asked

LEMMA CliTypesInspect ==
  ASSUME CliTypes, NEW c \in Callers, Inspect(c)
  PROVE  CliTypes'
<1>1. PICK t \in Tasks : /\ task' = [task EXCEPT ![c] = t] /\ snap' = [snap EXCEPT ![c] = events]
                         /\ pc' = [pc EXCEPT ![c] = "inspected"] /\ UNCHANGED <<events, grants>>
  BY DEF Inspect
<1>2. /\ pc \in [Callers -> {"idle", "inspected", "recorded", "refused"}]
      /\ task \in [Callers -> Tasks \union {NULL}] /\ snap \in [Callers -> Seq(LoopEvent)]
      /\ events \in Seq(LoopEvent) /\ events # <<>>
  BY DEF CliTypes, CliTypeOK, TypeOK
<1>3. /\ pc' \in [Callers -> {"idle", "inspected", "recorded", "refused"}]
      /\ task' \in [Callers -> Tasks \union {NULL}] /\ snap' \in [Callers -> Seq(LoopEvent)]
  BY <1>1, <1>2
<1>4. ASSUME NEW x \in Callers
      PROVE  /\ Len(snap'[x]) <= Len(events) /\ snap'[x] = SubSeq(events, 1, Len(snap'[x]))
             /\ Asked(x)'
  <2>1. CASE x = c
    <3>1. snap'[x] = events /\ task'[x] = t
      BY <1>1, <1>2, <2>1
    <3>2. events = SubSeq(events, 1, Len(events)) /\ Len(events) <= Len(events)
      BY <1>2
    <3> QED BY <1>2, <3>1, <3>2 DEF Asked
  <2>2. CASE x # c
    <3>1. snap'[x] = snap[x] /\ task'[x] = task[x] /\ pc'[x] = pc[x]
      BY <1>1, <1>2, <2>2
    <3> QED BY <3>1 DEF CliTypes, CliTypeOK, Asked
  <2> QED BY <2>1, <2>2
<1>5. CliTypeOK'
  BY <1>1, <1>3, <1>4 DEF CliTypes, CliTypeOK
<1> QED BY <1>1, <1>3, <1>4, <1>5 DEF CliTypes, TypeOK

LEMMA CliTypesAppend ==
  ASSUME CliTypes, NEW c \in Callers, AppendDecision(c)
  PROVE  CliTypes'
<1>1. /\ pc \in [Callers -> {"idle", "inspected", "recorded", "refused"}]
      /\ events \in Seq(LoopEvent) /\ events # <<>>
      /\ task[c] \in Tasks /\ pc[c] = "inspected" /\ UNCHANGED <<task, snap>>
  BY CliAppends DEF CliTypes, CliTypeOK, TypeOK, Asked
<1>2. /\ pc' \in [Callers -> {"idle", "inspected", "recorded", "refused"}]
      /\ \A x \in Callers : Asked(x)'
  <2>1. PICK p \in {"recorded", "refused"} : pc' = [pc EXCEPT ![c] = p]
    BY CliAppends
  <2>2. pc' \in [Callers -> {"idle", "inspected", "recorded", "refused"}]
    BY <1>1, <2>1
  <2>3. ASSUME NEW x \in Callers PROVE Asked(x)'
    <3>1. pc'[x] # "idle" => pc[x] # "idle"
      BY <1>1, <2>1
    <3> QED BY <1>1, <3>1 DEF CliTypes, Asked
  <2> QED BY <2>2, <2>3
<1>3. CASE \E e \in LoopEvent : Records(c, e)
  <2>1. PICK e \in LoopEvent : Records(c, e)
    BY <1>3
  <2> DEFINE g == IF Granted(snap[c], task[c]) THEN task[c].subject ELSE NULL
  <2>2. events' = Append(events, e) /\ grants' = Append(grants, g)
    BY <2>1 DEF Records
  <2>3. g \in Requests \union {NULL}
    BY <1>1, TaskFacts DEF Granted
  <2>4. events' \in Seq(LoopEvent) /\ Len(events') = Len(events) + 1 /\ events' # <<>>
    BY <1>1, <2>2
  <2>5. grants' \in Seq(Requests \union {NULL}) /\ Len(grants') = Len(grants) + 1
    <3> HIDE DEF g
    <3> QED BY <2>2, <2>3 DEF CliTypes
  <2>6. ASSUME NEW x \in Callers
        PROVE  Len(snap[x]) <= Len(events') /\ snap[x] = SubSeq(events', 1, Len(snap[x]))
    <3>1. Len(snap[x]) \in Nat /\ Len(events) \in Nat
      BY <1>1 DEF CliTypes
    <3>2. Len(snap[x]) <= Len(events) /\ snap[x] = SubSeq(events, 1, Len(snap[x]))
      BY DEF CliTypes, CliTypeOK
    <3>3. SubSeq(events', 1, Len(snap[x])) = SubSeq(events, 1, Len(snap[x]))
      BY <1>1, <2>2, <3>1, <3>2, PrefixKept
    <3> QED BY <2>4, <3>1, <3>2, <3>3
  <2>7. CliTypeOK'
    BY <1>1, <1>2, <2>4, <2>5, <2>6 DEF CliTypes, CliTypeOK
  <2> QED BY <1>1, <1>2, <2>4, <2>5, <2>7 DEF CliTypes, TypeOK
<1>4. CASE UNCHANGED <<events, grants>>
  BY <1>1, <1>2, <1>4 DEF CliTypes, CliTypeOK, TypeOK
<1> QED BY <1>3, <1>4, CliAppends

LEMMA CliTypesInvariant == CliSpec => []CliTypes
<1>1. CliTypes /\ [CliNext]_cliVars => CliTypes'
  <2> SUFFICES ASSUME CliTypes, [CliNext]_cliVars PROVE CliTypes'
    OBVIOUS
  <2>1. CASE CliNext
    BY <2>1, CliTypesInspect, CliTypesAppend DEF CliNext
  <2>2. CASE UNCHANGED cliVars
    BY <2>2 DEF cliVars, CliTypes, CliTypeOK, TypeOK, Asked
  <2> QED BY <2>1, <2>2
<1> QED BY <1>1, CliTypesInit, PTL DEF CliSpec

(* What processes inspected stays part of the journal, and every process   *)
(* is at a typed place.                                                    *)
THEOREM CliAlwaysTyped == CliSpec => []CliTypeOK
BY CliTypesInvariant, PTL DEF CliTypes

(* However processes interleave, the journal behaves as if its callers     *)
(* took turns: one accepted event after the other.                         *)
THEOREM CliKeepsJournal == CliSpec => JournalSpec
<1>1. CliInit => Init
  BY DEF CliInit, Init
<1>2. CliTypes /\ [CliNext]_cliVars => [Appends]_vars
  <2> SUFFICES ASSUME CliTypes, [CliNext]_cliVars PROVE [Appends]_vars
    OBVIOUS
  <2>1. ASSUME NEW c \in Callers, Inspect(c) PROVE UNCHANGED vars
    BY <2>1 DEF Inspect, vars
  <2>2. ASSUME NEW c \in Callers, AppendDecision(c) PROVE Appends \/ UNCHANGED vars
    BY <2>2, CliAppends DEF Appends, Records, vars
  <2>3. CASE UNCHANGED cliVars
    BY <2>3 DEF cliVars, vars
  <2> QED BY <2>1, <2>2, <2>3 DEF CliNext
<1> QED BY <1>1, <1>2, CliTypesInvariant, PTL DEF CliSpec, JournalSpec

-----------------------------------------------------------------------------
(***************************************************************************)
(* Grants are fresh.  A grant was decided on a snapshot that ends with the *)
(* failed run of its diagnosis, replay accepts it only behind that run, and*)
(* a run is bound once: the snapshot is the journal.                       *)
(***************************************************************************)
LEMMA GrantDemands ==
  ASSUME NEW s, NEW req, EvaluateRetry(s, req) = NULL
  PROVE  /\ Status(s) = "validation-failed"
         /\ ~(RetriesConsumed(s) >= Budget \/ Attempt(s) >= MaxAttempt)
         /\ DiagnosisBinds(s[Len(s)], req.diagnosis)
         /\ req.diagnosis.signature \notin AttemptedSignatures(s) \union req.previous
<1>1. NULL \notin {"human-escalation", "retry-budget-exhausted", "non-improving-retry"}
  BY ReasonTypes, DecisionAssumptions
<1> QED BY <1>1, Zenon DEF EvaluateRetry

LEMMA GrantIsFresh ==
  ASSUME CliTypes, EvidenceUsedOnce, NEW c \in Callers, pc[c] = "inspected",
         NEW e \in LoopEvent, Records(c, e), e.transition = "retry-authorized"
  PROVE  snap[c] = events
<1> DEFINE s == snap[c]
           m == Len(s)
           n == Len(events)
           d == task[c].subject.diagnosis
<1>1. EvaluateRetry(s, task[c].subject) = NULL /\ e.diagnosis = d
  BY DEF Records, Granted
<1>2. m \in 1..n /\ s = SubSeq(events, 1, m) /\ s[m] = events[m] /\ events \in Seq(LoopEvent)
  BY SnapFacts DEF CliTypes, TypeOK
<1>3. events[m].binding # NULL /\ events[m].binding.run = d.evidence
  BY <1>1, <1>2, GrantDemands DEF DiagnosisBinds
<1>4. events[n].binding # NULL /\ events[n].binding.run = d.evidence
  BY <1>1 DEF Records, Accepts, RetryBindsFailure
<1>5. n \in DOMAIN events /\ m \in DOMAIN events
  BY <1>2
<1>6. m = n
  <2> HIDE DEF m, n, d
  <2> QED BY <1>3, <1>4, <1>5 DEF EvidenceUsedOnce
<1> QED BY <1>2, <1>6

LEMMA FreshStep ==
  ASSUME CliTypes, EvidenceUsedOnce, GrantsAreFresh, NEW c \in Callers, AppendDecision(c)
  PROVE  GrantsAreFresh'
<1>1. CASE UNCHANGED <<events, grants>>
  BY <1>1 DEF GrantsAreFresh
<1>2. CASE \E e \in LoopEvent : Records(c, e)
  <2>1. PICK e \in LoopEvent : Records(c, e)
    BY <1>2
  <2> DEFINE n == Len(events)
             g == IF Granted(snap[c], task[c]) THEN task[c].subject ELSE NULL
  <2>2. /\ events \in Seq(LoopEvent) /\ grants \in Seq(Requests \union {NULL})
        /\ Len(grants) = n /\ n \in Nat /\ pc[c] = "inspected" /\ task[c] \in Tasks
    BY CliAppends DEF CliTypes, CliTypeOK, TypeOK, Asked
  <2>3. events' = Append(events, e) /\ grants' = Append(grants, g)
    BY <2>1 DEF Records
  <2>4. /\ DOMAIN events' = 1..(n+1) /\ events'[n+1] = e /\ grants'[n+1] = g
        /\ \A i \in 1..n : events'[i] = events[i] /\ grants'[i] = grants[i]
        /\ \A i \in 1..(n+1) : SubSeq(events', 1, i - 1) = SubSeq(events, 1, i - 1)
    <3>1. DOMAIN events' = 1..(n+1) /\ events'[n+1] = e /\ \A i \in 1..n : events'[i] = events[i]
      BY <2>2, <2>3
    <3>2. grants'[n+1] = g /\ \A i \in 1..n : grants'[i] = grants[i]
      <4> HIDE DEF g
      <4> QED BY <2>2, <2>3
    <3>3. ASSUME NEW i \in 1..(n+1) PROVE SubSeq(events', 1, i - 1) = SubSeq(events, 1, i - 1)
      <4>1. i - 1 \in Nat /\ i - 1 <= n
        BY <2>2
      <4> QED BY <2>2, <2>3, <4>1, PrefixKept
    <3> QED BY <3>1, <3>2, <3>3
  <2>5. ASSUME NEW i \in RetryIndices(events')
        PROVE  /\ grants'[i] # NULL
               /\ EvaluateRetry(SubSeq(events', 1, i - 1), grants'[i]) = NULL
               /\ events'[i].diagnosis = grants'[i].diagnosis
    <3>1. CASE i \in 1..n
      <4>1. i \in RetryIndices(events)
        BY <2>2, <2>4, <3>1 DEF RetryIndices
      <4>2. /\ grants[i] # NULL
            /\ EvaluateRetry(SubSeq(events, 1, i - 1), grants[i]) = NULL
            /\ events[i].diagnosis = grants[i].diagnosis
        BY <4>1 DEF GrantsAreFresh
      <4>3. SubSeq(events', 1, i - 1) = SubSeq(events, 1, i - 1) /\ i \in 1..(n+1)
        BY <2>4, <2>2, <3>1
      <4> QED BY <2>4, <3>1, <4>2, <4>3
    <3>2. CASE i = n + 1
      <4>1. e.transition = "retry-authorized"
        BY <2>4, <3>2 DEF RetryIndices
      <4>2. /\ Granted(snap[c], task[c]) /\ e.diagnosis = task[c].subject.diagnosis
            /\ EvaluateRetry(snap[c], task[c].subject) = NULL /\ task[c].subject \in Requests
        BY <2>1, <2>2, <4>1, TaskFacts DEF Records, Granted
      <4>3. SubSeq(events', 1, i - 1) = snap[c]
        <5>1. SubSeq(events', 1, n) = events
          BY <2>2, <2>3
        <5>2. snap[c] = events /\ i - 1 = n
          BY <2>1, <2>2, <3>2, <4>1, GrantIsFresh
        <5> QED BY <5>1, <5>2
      <4>4. grants'[i] = task[c].subject /\ events'[i] = e /\ grants'[i] # NULL
        BY <2>4, <3>2, <4>2, CallerAssumption
      <4> QED BY <4>2, <4>3, <4>4
    <3>3. i \in 1..n \/ i = n + 1
      BY <2>2, <2>4 DEF RetryIndices
    <3> QED BY <3>1, <3>2, <3>3
  <2> QED BY <2>5 DEF GrantsAreFresh
<1> QED BY <1>1, <1>2, CliAppends

LEMMA FreshInvariant == CliSpec => []GrantsAreFresh
<1>1. CliInit => GrantsAreFresh
  BY DEF CliInit, GrantsAreFresh, RetryIndices, Genesis
<1>2. CliTypes /\ EvidenceUsedOnce /\ GrantsAreFresh /\ [CliNext]_cliVars => GrantsAreFresh'
  <2> SUFFICES ASSUME CliTypes, EvidenceUsedOnce, GrantsAreFresh, [CliNext]_cliVars
               PROVE  GrantsAreFresh'
    OBVIOUS
  <2>1. ASSUME UNCHANGED <<events, grants>> PROVE GrantsAreFresh'
    BY <2>1 DEF GrantsAreFresh
  <2>2. ASSUME NEW c \in Callers, Inspect(c) PROVE GrantsAreFresh'
    BY <2>1, <2>2 DEF Inspect
  <2> QED BY <2>1, <2>2, FreshStep DEF CliNext, cliVars
<1> QED BY <1>1, <1>2, CliTypesInvariant, CliKeepsJournal, JournalEvidence, PTL DEF CliSpec

(* A grant decided on a stale snapshot is never recorded, however many     *)
(* processes decide at once.                                               *)
THEOREM GrantsAlwaysFresh == CliSpec => []GrantsAreFresh
BY FreshInvariant, PTL

(* No failure signature is repaired twice.                                 *)
THEOREM SignaturesNeverRepeat == CliSpec => []SignaturesOnce
<1>1. CliTypes /\ GrantsAreFresh => SignaturesOnce
  <2> SUFFICES ASSUME CliTypes, GrantsAreFresh,
                      NEW i \in RetryIndices(events), NEW j \in RetryIndices(events), i < j
               PROVE  events[i].diagnosis.signature # events[j].diagnosis.signature
    <3>1. ASSUME CliTypes PROVE RetryIndices(events) \subseteq 1..Len(events) /\ Len(events) \in Nat
      BY <3>1 DEF CliTypes, TypeOK, RetryIndices
    <3>2. ASSUME CliTypes, NEW a \in RetryIndices(events), NEW b \in RetryIndices(events)
          PROVE  a < b \/ b < a \/ a = b
      BY <3>1, <3>2
    <3> QED BY <3>2 DEF SignaturesOnce
  <2> DEFINE s == SubSeq(events, 1, j - 1)
  <2>1. i \in 1..(j-1) /\ j \in 1..Len(events) /\ events \in Seq(LoopEvent)
    BY DEF CliTypes, TypeOK, RetryIndices
  <2>2. i \in DOMAIN s /\ s[i] = events[i]
    BY <2>1
  <2>3. events[i].diagnosis.signature \in AttemptedSignatures(s)
    <3> HIDE DEF s
    <3> QED BY <2>2 DEF AttemptedSignatures, RetryIndices
  <2>4. EvaluateRetry(s, grants[j]) = NULL /\ events[j].diagnosis = grants[j].diagnosis
    BY DEF GrantsAreFresh
  <2>5. grants[j].diagnosis.signature \notin AttemptedSignatures(s)
    BY <2>4, GrantDemands
  <2> QED BY <2>3, <2>4, <2>5
<1> QED BY <1>1, CliTypesInvariant, FreshInvariant, PTL

-----------------------------------------------------------------------------
(***************************************************************************)
(* Decisions and replay agree.  What a process decides on the journal as   *)
(* it is, and writes as JSON, replay accepts: a process that was refused   *)
(* undisturbed had nothing to record or had no right to.                   *)
(***************************************************************************)
RefusedJustly(c) ==
  Undisturbed(c) => Decision(c) = NULL \/ ~Accepts(events, Decision(c))

RefusedInv == /\ \A i \in DOMAIN events : HonestBinding(events[i])
              /\ \A c \in Callers : RefusedJustly(c)

LEMMA RefusedInit == CliInit => RefusedInv
BY DEF CliInit, RefusedInv, RefusedJustly, Undisturbed, HonestBinding, Genesis

(* Decisions are made of the snapshot and the task, not of the journal.    *)
LEMMA DecisionKept ==
  ASSUME CliTypes, NEW c \in Callers, UNCHANGED <<events, pc[c], task[c], snap[c]>>, RefusedJustly(c)
  PROVE  RefusedJustly(c)'
<1>1. Decision(c)' = Decision(c)
  BY DEF Decision, EvidenceDecision, RetryDecision, EvidenceEvent, RetryEvent, StopEvent, Granted,
         PostRepairStop
<1> QED BY <1>1 DEF RefusedJustly, Undisturbed

LEMMA RefusedInspect ==
  ASSUME CliTypes, RefusedInv, NEW c \in Callers, Inspect(c)
  PROVE  RefusedInv'
<1>1. ASSUME NEW x \in Callers PROVE RefusedJustly(x)'
  <2>1. CASE x = c
    BY <2>1 DEF Inspect, RefusedJustly, Undisturbed, CliTypes, CliTypeOK
  <2>2. CASE x # c
    <3>1. UNCHANGED <<events, pc[x], task[x], snap[x]>>
      BY <2>2 DEF Inspect, CliTypes, CliTypeOK
    <3> QED BY <3>1, DecisionKept DEF RefusedInv
  <2> QED BY <2>1, <2>2
<1> QED BY <1>1 DEF RefusedInv, Inspect

LEMMA RefusedAppend ==
  ASSUME CliTypes, RefusedInv, NEW c \in Callers, AppendDecision(c)
  PROVE  RefusedInv'
<1>1. CASE \E e \in LoopEvent : Records(c, e)
  <2>1. PICK e \in LoopEvent : events' = Append(events, e) /\ HonestBinding(e)
    BY <1>1 DEF Records
  <2>2. \A i \in DOMAIN events' : HonestBinding(events'[i])
    BY <2>1, AppendFacts DEF RefusedInv, CliTypes, TypeOK
  <2>3. ASSUME NEW x \in Callers PROVE RefusedJustly(x)'
    <3>1. Len(snap[x]) <= Len(events) /\ Len(events') = Len(events) + 1 /\ UNCHANGED snap
      BY <2>1, CliAppends DEF CliTypes, CliTypeOK, TypeOK
    <3>2. Len(snap[x]) \in Nat /\ Len(events) \in Nat
      BY DEF CliTypes, TypeOK
    <3>3. snap'[x] # events'
      BY <3>1, <3>2
    <3> QED BY <3>3 DEF RefusedJustly, Undisturbed
  <2> QED BY <2>2, <2>3 DEF RefusedInv
<1>2. CASE /\ Decision(c) = NULL \/ ~Accepts(events, Decision(c))
           /\ pc' = [pc EXCEPT ![c] = "refused"] /\ UNCHANGED <<events, grants>>
  <2>1. UNCHANGED <<events, task, snap>> /\ pc' = [pc EXCEPT ![c] = "refused"]
    BY <1>2, CliAppends
  <2>2. ASSUME NEW x \in Callers PROVE RefusedJustly(x)'
    <3>1. CASE x = c
      <4>1. Decision(c)' = Decision(c)
        BY <2>1 DEF Decision, EvidenceDecision, RetryDecision, EvidenceEvent, RetryEvent, StopEvent,
                    Granted, PostRepairStop
      <4> QED BY <1>2, <2>1, <3>1, <4>1 DEF RefusedJustly
    <3>2. CASE x # c
      <4>1. UNCHANGED <<events, pc[x], task[x], snap[x]>>
        BY <2>1, <3>2 DEF CliTypes, CliTypeOK
      <4> QED BY <4>1, DecisionKept DEF RefusedInv
    <3> QED BY <3>1, <3>2
  <2> QED BY <2>1, <2>2 DEF RefusedInv
<1> QED BY <1>1, <1>2, CliAppends

LEMMA RefusedInvariant == CliSpec => []RefusedInv
<1>1. CliTypes /\ RefusedInv /\ [CliNext]_cliVars => RefusedInv'
  <2> SUFFICES ASSUME CliTypes, RefusedInv, [CliNext]_cliVars PROVE RefusedInv'
    OBVIOUS
  <2>1. CASE CliNext
    BY <2>1, RefusedInspect, RefusedAppend DEF CliNext
  <2>2. CASE UNCHANGED cliVars
    BY <2>2, DecisionKept DEF cliVars, RefusedInv
  <2> QED BY <2>1, <2>2
<1> QED BY <1>1, RefusedInit, CliTypesInvariant, PTL DEF CliSpec

(* An event that replay accepts moves the loop to the status it names.     *)
LEMMA AcceptedPairs ==
  ASSUME NEW s, NEW e, Accepts(s, e)
  PROVE  e.transition \in Terminal => e.status = e.transition
<1>1. <<e.transition, e.status>> \in AllowedTransitions(Status(s))
  BY DEF Accepts
<1> QED BY <1>1 DEF AllowedTransitions, Terminal

(* A run that passed is bound by the event that ends a loop, or by none.   *)
LEMMA PassEndsLoop ==
  ASSUME CliTypes, Replayable, Paired, RefusedInv, NEW ev \in SeenEvidence(events),
         Manifest[ev].verdict = "pass"
  PROVE  Status(events) \in Terminal
<1>1. PICK i \in DOMAIN events : events[i].binding # NULL /\ events[i].binding.run = ev
  BY DEF SeenEvidence
<1>2. events[i].binding.verdict = "pass" /\ events[i].transition \in {"validation-recorded"} \union Terminal
  <2>1. events[i].binding = BindingOf(ev) /\ events[i].transition \in {"validation-recorded"} \union Terminal
    BY <1>1 DEF RefusedInv, HonestBinding
  <2>2. BindingOf(ev).verdict = "pass"
    BY DEF BindingOf
  <2> QED BY <2>1, <2>2
<1>3. i \in 1..Len(events) /\ Len(events) \in Nat
  BY DEF CliTypes, TypeOK
<1>4. Accepts(SubSeq(events, 1, i - 1), events[i])
  BY <1>3 DEF Replayable, Replay
<1>5. events[i].transition \in Terminal
  BY <1>2, <1>4 DEF Accepts, VerdictFits
<1>6. events[i].status \in Terminal
  BY <1>4, <1>5, AcceptedPairs
<1>7. i = Len(events)
  BY <1>3, <1>6 DEF Paired
<1> QED BY <1>6, <1>7 DEF Status, CliTypes, TypeOK

(* The event for a run that passed is a pass in each of its fields.        *)
LEMMA PassBound ==
  ASSUME NEW ev \in Evidence, Manifest[ev].verdict = "pass"
  PROVE  /\ BindingOf(ev) # NULL /\ BindingOf(ev).run = ev /\ BindingOf(ev).verdict = "pass"
         /\ ValidationOf(ev) # NULL /\ ValidationOf(ev).status = "pass"
         /\ DOMAIN ObservationsOf(ev) # {}
<1> DEFINE rs == Manifest[ev].results
<1>1. rs \in Seq(Result) /\ rs # <<>> /\ \A i \in DOMAIN rs : rs[i].st = "pass"
  BY ManifestAssumption, CallerAssumption
<1>2. 1 \in DOMAIN rs
  BY <1>1
<1>3. FirstFailed(rs) = 1
  <2> HIDE DEF rs
  <2> QED BY <1>1 DEF FirstFailed
<1>4. SelectedResult(ev).st = "pass"
  BY <1>1, <1>2, <1>3 DEF SelectedResult
<1>5. ValidationOf(ev).status = "pass"
  BY <1>4 DEF ValidationOf
<1>6. rs[1].key \in DOMAIN ObservationsOf(ev)
  BY <1>2 DEF ObservationsOf
<1>7. BindingOf(ev) # NULL /\ ValidationOf(ev) # NULL
  BY EvidenceTypes, CallerAssumption
<1> QED BY <1>5, <1>6, <1>7 DEF BindingOf

(* Unless it is known already, such a run is accepted while one is awaited.*)
LEMMA PassAccepted ==
  ASSUME CliTypes, Replayable, Paired, RefusedInv,
         Shape \in [Callers -> {"json"}], NEW c \in Callers, Undisturbed(c),
         task[c].kind = "evidence", task[c].bump = 0, Manifest[task[c].subject].verdict = "pass",
         Status(events) \in {"awaiting-validation", "retry-authorized"}
  PROVE  Decision(c) # NULL /\ Accepts(events, Decision(c))
<1> DEFINE ev == task[c].subject
           d == EvidenceEvent(ev, "awaiting-human-review", "awaiting-human-review", NULL)
           e == Stamped(c, d)
<1>1. TypeOK /\ task[c] \in Tasks /\ ev \in Evidence /\ snap[c] = events
  BY TaskFacts DEF CliTypes, Asked, Undisturbed
<1>2. ev \notin SeenEvidence(events)
  BY PassEndsLoop DEF Terminal
<1>3. Decided(c) = d
  BY <1>1, <1>2 DEF Decided, EvidenceDecision
<1>4. d \in OfferedEvent
  BY <1>1, EvidenceEventType DEF Transitions, Statuses, Terminal
<1>5. d # NULL
  <2>1. d.attempt \in 1..MaxAttempt
    BY <1>1, StateTypes DEF EvidenceEvent, Genesis
  <2>2. d \in LoopEvent
    BY <1>4, <2>1 DEF OfferedEvent, LoopEvent
  <2> QED BY <2>2, CallerAssumption
<1>6. Decision(c) = e
  BY <1>3, <1>5, DecisionForm
<1>7. /\ e.transition = "awaiting-human-review" /\ e.status = "awaiting-human-review"
      /\ e.attempt = Attempt(events) + 0 /\ e.actor = "validator" /\ e.stop = NULL /\ e.bound = TRUE
      /\ e.time = LastTime(events) /\ e.shape = "json"
      /\ e.binding = BindingOf(ev) /\ e.validation = ValidationOf(ev) /\ e.obs = ObservationsOf(ev)
  BY <1>1 DEF Stamped, EvidenceEvent, Genesis
<1>8. e \in OfferedEvent
  BY <1>4, StampedTypes DEF Undisturbed
<1> HIDE DEF d, e
<1>9. SchemaValid(e) /\ e.bound /\ e.time >= LastTime(events) /\ e.attempt = Attempt(events)
  BY <1>1, <1>7, StateTypes DEF SchemaValid, MaxAttempt
<1>10. <<e.transition, e.status>> \in AllowedTransitions(Status(events))
  BY <1>7, DecisionAssumptions DEF AllowedTransitions, Statuses
<1>11. ActorAllowed(e) /\ AttemptFollows(events, e)
  BY <1>7, <1>9 DEF ActorAllowed, AttemptFollows
<1>12. EvidenceFits(events, e) /\ VerdictFits(e)
  BY <1>1, <1>2, <1>7, PassBound DEF EvidenceFits, VerdictFits
<1>13. PostRepairFits(events, e)
  BY <1>7 DEF PostRepairFits
<1>14. e # NULL
  <2>1. e \in LoopEvent
    BY <1>8, <1>9 DEF OfferedEvent, LoopEvent, SchemaValid
  <2> QED BY <2>1, CallerAssumption
<1> QED BY <1>6, <1>7, <1>9, <1>10, <1>11, <1>12, <1>13, <1>14 DEF Accepts

(* A repair that is granted on the journal is one that replay accepts.     *)
LEMMA GrantAccepted ==
  ASSUME CliTypes, Replayable, RefusedInv,
         Shape \in [Callers -> {"json"}], NEW c \in Callers, Undisturbed(c),
         task[c].bump = 1, Granted(events, task[c])
  PROVE  Decision(c) # NULL /\ Accepts(events, Decision(c))
<1> DEFINE req == task[c].subject
           d == RetryEvent(req.diagnosis, req.improvement, NULL)
           e == Stamped(c, d)
           n == Len(events)
<1>1. /\ TypeOK /\ task[c] \in Tasks /\ snap[c] = events /\ task[c].kind = "retry"
      /\ req \in RepairRequest /\ EvaluateRetry(events, req) = NULL
  BY TaskFacts DEF CliTypes, Asked, Undisturbed, Granted
<1>2. /\ Status(events) = "validation-failed" /\ RetriesConsumed(events) < Budget
      /\ Attempt(events) < MaxAttempt /\ DiagnosisBinds(events[n], req.diagnosis)
  <2>1. RetriesConsumed(events) \in Nat /\ Attempt(events) \in Nat
    BY <1>1, RetriesType, StateTypes DEF TypeOK, MaxAttempt
  <2> QED BY <1>1, <2>1, GrantDemands, DecisionAssumptions DEF MaxAttempt
<1>3. req.diagnosis \in Diagnosis /\ req.improvement \in Improvement
  BY <1>1 DEF RepairRequest
<1>4. d \in OfferedEvent
  BY <1>1, <1>3, RetryEventType
<1>5. Decided(c) = d
  BY <1>1 DEF Decided, RetryDecision, Granted
<1>6. d # NULL
  <2>1. d.attempt \in 1..MaxAttempt
    BY <1>1, <1>2, StateTypes DEF RetryEvent, Genesis, MaxAttempt
  <2>2. d \in LoopEvent
    BY <1>4, <2>1 DEF OfferedEvent, LoopEvent
  <2> QED BY <2>2, CallerAssumption
<1>7. Decision(c) = e
  BY <1>5, <1>6, DecisionForm
<1>8. /\ e.transition = "retry-authorized" /\ e.status = "retry-authorized"
      /\ e.attempt = Attempt(events) + 1 /\ e.actor = "agent" /\ e.stop = NULL /\ e.bound = TRUE
      /\ e.time = LastTime(events) /\ e.shape = "json" /\ e.binding = NULL
      /\ e.obs = NoObservations /\ e.diagnosis = req.diagnosis /\ e.improvement = req.improvement
  BY <1>1 DEF Stamped, RetryEvent, Genesis, Granted
<1>9. e \in OfferedEvent
  BY <1>4, StampedTypes DEF Undisturbed
<1>10. RetryBindsFailure(events[n], e)
  <2>1. n \in 1..Len(events)
    BY <1>1, StateTypes
  <2>2. Accepts(SubSeq(events, 1, n - 1), events[n])
    BY <2>1 DEF Replayable, Replay
  <2>3. events[n].validation # NULL
    BY <1>2, <2>2 DEF DiagnosisBinds, Accepts, VerdictFits
  <2>4. req.improvement.key[1] \in RequiredIds
    BY <1>3 DEF Improvement, Key
  <2>5. req.diagnosis # NULL /\ req.improvement # NULL
    BY <1>3, CallerAssumption
  <2> HIDE DEF e, d, req, n
  <2> QED BY <1>2, <1>8, <2>3, <2>4, <2>5 DEF RetryBindsFailure, DiagnosisBinds
<1> HIDE DEF d, e
<1>11. SchemaValid(e) /\ e.bound /\ e.time >= LastTime(events)
  BY <1>1, <1>2, <1>8, StateTypes DEF SchemaValid, MaxAttempt
<1>12. <<e.transition, e.status>> \in AllowedTransitions(Status(events))
  BY <1>2, <1>8, DecisionAssumptions DEF AllowedTransitions, Statuses
<1>13. ActorAllowed(e)
  BY <1>8 DEF ActorAllowed
<1>14. AttemptFollows(events, e)
  <2>1. RetriesConsumed(events) \in Nat
    BY <1>1, RetriesType DEF TypeOK
  <2> QED BY <1>2, <1>8, <2>1, DecisionAssumptions DEF AttemptFollows
<1>15. EvidenceFits(events, e) /\ VerdictFits(e) /\ PostRepairFits(events, e)
  BY <1>8 DEF EvidenceFits, VerdictFits, PostRepairFits, NoObservations
<1>16. e # NULL
  <2>1. e \in LoopEvent
    BY <1>9, <1>11 DEF OfferedEvent, LoopEvent, SchemaValid
  <2> QED BY <2>1, CallerAssumption
<1> QED BY <1>7, <1>8, <1>10, <1>11, <1>12, <1>13, <1>14, <1>15, <1>16 DEF Accepts

(* A run that passed is not refused while the loop awaits it, by a process *)
(* that writes its records as JSON: the command does not (run CliPass).    *)
THEOREM PassesAreRecorded ==
  ASSUME Shape \in [Callers -> {"json"}]
  PROVE  CliSpec => []ValidPassIsRecorded
<1>1. CliTypes /\ Replayable /\ RepairInv /\ RefusedInv => ValidPassIsRecorded
  BY PassAccepted DEF ValidPassIsRecorded, RepairInv, RefusedInv, RefusedJustly
<1> QED BY <1>1, CliTypesInvariant, RefusedInvariant, CliKeepsJournal, JournalAlwaysReplays,
           RepairInvariant, PTL

(* A repair that evaluate_retry grants is not refused, by such a process.  *)
THEOREM GrantsAreRecorded ==
  ASSUME Shape \in [Callers -> {"json"}]
  PROVE  CliSpec => []GrantIsRecorded
<1>1. CliTypes /\ Replayable /\ RefusedInv => GrantIsRecorded
  BY GrantAccepted DEF GrantIsRecorded, RefusedInv, RefusedJustly
<1> QED BY <1>1, CliTypesInvariant, RefusedInvariant, CliKeepsJournal, JournalAlwaysReplays, PTL

(* However processes interleave, no loop passes its budget, uses a run     *)
(* twice, or loses a case that passed in an earlier failed validation.     *)
THEOREM CliKeepsLoopPromises ==
  CliSpec => [](Replayable /\ AttemptCountsRetries /\ EvidenceUsedOnce /\ RepairsImprove /\ PassingCasesKept)
<1>1. CountersInv => AttemptCountsRetries
  BY DEF CountersInv
<1>2. RepairInv => RepairsImprove /\ PassingCasesKept
  BY DEF RepairInv
<1> QED BY <1>1, <1>2, CliKeepsJournal, JournalAlwaysReplays, CountersInvariant, JournalEvidence,
           RepairInvariant, PTL
=============================================================================
