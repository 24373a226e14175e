------------------------------ MODULE AgentLoop ------------------------------
(***************************************************************************)
(* The journal of one agent loop as its library callers see it: a sealed   *)
(* genesis event, then one appended event per successful call of           *)
(* AgentLoopJournal.append.  A call that replay_journal refuses raises and *)
(* leaves the journal alone, so only accepted events are steps.            *)
(*                                                                         *)
(* The callers are not trusted: they offer events with wrong attempts,     *)
(* actors, evidence and stop reasons, and whatever diagnosis and           *)
(* improvement they like.  LoopJournal models the same append one system   *)
(* call at a time, AgentLoopCli the command that decides what to append.   *)
(***************************************************************************)
EXTENDS LoopDecisions

CONSTANTS
  Manifest,    \* [Evidence -> what the run's manifest.json reports]
  Diagnoses,   \* diagnoses callers attach to a retry
  Improvements,\* improvement proofs callers attach to a retry
  RetryEvidence, \* evidence callers attach to a retry, which replay permits
  Reasons,     \* stop reasons callers record
  MaxTime      \* bound on timestamps

VARIABLE events

(***************************************************************************)
(* A manifest lists its validations in order.  The event of a run binds    *)
(* the first failed one, or the first one when none failed.                *)
(***************************************************************************)
Result == [key : Key, st : {"pass", "fail"}, metric : Metrics \union {NULL},
           kinds : SUBSET Kinds, paths : SUBSET Paths]

ASSUME ManifestAssumption ==
  /\ Manifest \in [Evidence -> [verdict : Verdicts, results : Seq(Result)]]
  /\ \A ev \in Evidence :
       /\ Manifest[ev].results # <<>>
       /\ \A i, j \in DOMAIN Manifest[ev].results :
            Manifest[ev].results[i].key = Manifest[ev].results[j].key => i = j
  /\ Diagnoses \subseteq Diagnosis /\ Improvements \subseteq Improvement
  /\ Reasons \subseteq StopReasons
  /\ RetryEvidence \subseteq Evidence
  /\ MaxTime \in Nat

ObservationsOf(ev) ==
  LET rs == Manifest[ev].results IN
  [k \in {rs[i].key : i \in DOMAIN rs} |->
     LET r == CHOOSE x \in {rs[i] : i \in DOMAIN rs} : x.key = k
     IN [st |-> r.st, metric |-> r.metric]]

FirstFailed(rs) ==
  IF \E i \in DOMAIN rs : rs[i].st = "fail"
  THEN CHOOSE i \in DOMAIN rs : rs[i].st = "fail" /\ \A j \in 1..(i-1) : rs[j].st # "fail"
  ELSE 1

SelectedResult(ev) == Manifest[ev].results[FirstFailed(Manifest[ev].results)]

ValidationOf(ev) ==
  LET r == SelectedResult(ev) IN
  [id |-> r.key[1],
   status |-> IF Manifest[ev].verdict \in {"pass", "product-fail"} THEN r.st ELSE "invalid",
   kinds |-> r.kinds, paths |-> r.paths]

BindingOf(ev) == [run |-> ev, verdict |-> Manifest[ev].verdict]

EvidenceEvent(ev, transition, status, stop) ==
  [Genesis EXCEPT !.transition = transition, !.status = status, !.stop = stop,
     !.attempt = Attempt(events), !.actor = "validator", !.time = LastTime(events),
     !.binding = BindingOf(ev), !.validation = ValidationOf(ev), !.obs = ObservationsOf(ev)]

RetryEvent(d, proof, b) ==
  [Genesis EXCEPT !.transition = "retry-authorized", !.status = "retry-authorized",
     !.attempt = Attempt(events) + 1, !.actor = "agent", !.time = LastTime(events),
     !.diagnosis = d, !.improvement = proof, !.binding = b]

StopEvent(stop) ==
  [Genesis EXCEPT !.transition = "stopped", !.status = "stopped", !.stop = stop,
     !.attempt = Attempt(events), !.time = LastTime(events)]

(* The mistakes callers make on an otherwise plausible event.              *)
Careless(e) ==
  {e} \union {[e EXCEPT !.attempt = a] : a \in {e.attempt - 1, e.attempt + 1} \cap 1..MaxAttempt}
      \union {[e EXCEPT !.actor = x] : x \in Actors}
      \union {[e EXCEPT !.time = t] : t \in {e.time - 1, e.time + 1} \cap 0..MaxTime}
      \union {[e EXCEPT !.bound = FALSE], [e EXCEPT !.status = "validation-failed"],
              [e EXCEPT !.stop = NULL], [e EXCEPT !.obs = NoObservations]}

(***************************************************************************)
(* AgentLoopJournal.append: the chain on disk is replayed, the new event   *)
(* is sealed behind it, and the extended chain must replay too, which adds *)
(* that the chain accepts the event.                                       *)
(***************************************************************************)
AppendEvent(e) ==
  /\ Accepts(events, e)
  /\ events' = Append(events, e)

RecordValidation ==
  /\ Replay(events)
  /\ \E ev \in Evidence :
       \E e \in Careless(EvidenceEvent(ev, "validation-recorded", "validation-failed", NULL)) :
         AppendEvent(e)

AwaitReview ==
  /\ Replay(events)
  /\ \E ev \in Evidence :
       \E e \in Careless(EvidenceEvent(ev, "awaiting-human-review", "awaiting-human-review", NULL)) :
         AppendEvent(e)

AuthorizeRetry ==
  /\ Replay(events)
  /\ \E d \in Diagnoses, proof \in Improvements :
       \E b \in {NULL} \union {BindingOf(ev) : ev \in RetryEvidence} :
         \E e \in Careless(RetryEvent(d, proof, b)) : AppendEvent(e)

Stop ==
  /\ Replay(events)
  /\ \E stop \in Reasons :
       \E offered \in {StopEvent(stop)} \union
           {EvidenceEvent(ev, "stopped", "stopped", stop) : ev \in Evidence} :
         \E e \in Careless(offered) : AppendEvent(e)

Init == events = <<Genesis>>
Next == RecordValidation \/ AwaitReview \/ AuthorizeRetry \/ Stop
vars == <<events>>
Spec == Init /\ [][Next]_vars

-----------------------------------------------------------------------------
(* Every recorded event is a schema-valid record.                          *)
TypeOK == events \in Seq(LoopEvent) /\ events # <<>>

(* Whatever callers did, the journal on disk replays: inspect and the next *)
(* append never refuse a chain that append itself has built.               *)
Replayable == Replay(events)

(* The attempt number stored in events and the retries counted by replay   *)
(* are two counters of one thing: attempt n means n-1 retries, and neither *)
(* the budget nor the limit of five attempts is ever passed.               *)
AttemptCountsRetries ==
  /\ Attempt(events) = 1 + RetriesConsumed(events)
  /\ RetriesConsumed(events) <= Budget
  /\ RetriesConsumed(events) < MaxAttempt

(* A loop cannot be kept alive: between two retries there is exactly one   *)
(* failed validation, so the journal is at most two events per retry, plus *)
(* genesis, a last failed validation and a terminal event.                 *)
BoundedHistory == Len(events) <= 2 * RetriesConsumed(events) + 3

(* A run's evidence supports one event only, however calls interleave.     *)
EvidenceUsedOnce ==
  \A i, j \in DOMAIN events :
    /\ events[i].binding # NULL /\ events[j].binding # NULL
    /\ events[i].binding.run = events[j].binding.run
    => i = j

FailedValidations == {i \in DOMAIN events : events[i].transition = "validation-recorded"}
Passing(e) == {k \in DOMAIN e.obs : e.obs[k].st = "pass"}

(* Across any number of repairs the failed validations of a loop observe   *)
(* the same cases, and a case that once passed passes in all later ones.   *)
PassingCasesKept ==
  \A i, j \in FailedValidations : i < j =>
    /\ DOMAIN events[i].obs = DOMAIN events[j].obs
    /\ Passing(events[i]) \subseteq Passing(events[j])

(* A repair that is followed by another failed validation has improved the *)
(* case its authorization named, over the evidence it was authorized from, *)
(* and showed none of the failures that forbid automated repair.           *)
RepairsImprove ==
  \A i \in FailedValidations : events[i-1].transition = "retry-authorized" =>
    /\ i - 2 \in FailedValidations
    /\ events[i-1].diagnosis.evidence = events[i-2].binding.run
    /\ KeepsAndImproves(events[i-2].obs, events[i].obs, events[i-1].improvement)
    /\ TypedStops(events[i].validation.kinds) = {}

(* The journal only grows at its end, one event at a time, and not at all  *)
(* once a terminal event is its last.                                      *)
AppendOnly ==
  [][/\ Status(events) \notin Terminal
     /\ Len(events') = Len(events) + 1
     /\ SubSeq(events', 1, Len(events)) = events]_events
=============================================================================
