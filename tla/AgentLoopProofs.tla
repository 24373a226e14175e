--------------------------- MODULE AgentLoopProofs ---------------------------
(***************************************************************************)
(* Proofs about AgentLoop for every retry budget, set of evidence, manifest*)
(* and offered diagnosis.  Each step of the loop appends one event that    *)
(* replay accepted (lemma StepAppends); the invariants follow from what    *)
(* Accepts demands of that event, so they are proved of JournalSpec, where *)
(* anybody appends any accepted event, and hold of whatever implements it: *)
(* AgentLoop here, the processes of AgentLoopCli in AgentLoopCliProofs.    *)
(***************************************************************************)
EXTENDS AgentLoop, FiniteSetTheorems, WellFoundedInduction, TLAPS

(* What appending does to a sequence, read backwards.                      *)
LEMMA AppendFacts ==
  ASSUME NEW S, NEW s \in Seq(S), NEW e
  PROVE  /\ Len(Append(s, e)) = Len(s) + 1
         /\ DOMAIN Append(s, e) = DOMAIN s \union {Len(s) + 1}
         /\ Len(s) + 1 \notin DOMAIN s
         /\ \A i \in DOMAIN s : Append(s, e)[i] = s[i]
         /\ Append(s, e)[Len(s) + 1] = e
         /\ SubSeq(Append(s, e), 1, Len(s)) = s
  OBVIOUS

(* A non-empty set of naturals has a least element.                        *)
LEMMA LeastElement ==
  ASSUME NEW S \in SUBSET Nat, S # {}
  PROVE  \E i \in S : \A j \in S : i <= j
<1> DEFINE R == OpToRel(<, Nat)
<1>1. IsWellFoundedOn(R, Nat)
  BY NatLessThanWellFounded
<1>2. \E i \in S : \A j \in S : ~ (<<j, i>> \in R)
  <2> HIDE DEF R
  <2> QED BY <1>1, WFMin
<1>3. PICK i \in S : \A j \in S : ~ (<<j, i>> \in R)
  BY <1>2
<1>4. \A j \in S : ~ (j < i)
  BY <1>3 DEF OpToRel
<1> QED BY <1>4

(* The manifest gives every run a well-typed observation map and binding.  *)
LEMMA EvidenceTypes ==
  ASSUME NEW ev \in Evidence
  PROVE  /\ ObservationsOf(ev) \in Observations
         /\ ValidationOf(ev) \in Validation
         /\ BindingOf(ev) \in Binding
<1> DEFINE rs == Manifest[ev].results
<1>1. /\ rs \in Seq(Result) /\ rs # <<>>
      /\ Manifest[ev].verdict \in Verdicts
  BY ManifestAssumption
<1>a. \A i \in DOMAIN rs : rs[i] \in Result
  BY <1>1
<1> HIDE DEF rs
<1>2. ObservationsOf(ev) \in Observations
  <2> DEFINE K == {rs[i].key : i \in DOMAIN rs}
  <2>1. K \in SUBSET Key
    BY <1>a DEF Result
  <2>2. ASSUME NEW k \in K
        PROVE  LET r == CHOOSE x \in {rs[i] : i \in DOMAIN rs} : x.key = k
               IN [st |-> r.st, metric |-> r.metric] \in Observation
    <3> DEFINE r == CHOOSE x \in {rs[i] : i \in DOMAIN rs} : x.key = k
    <3>1. \E x \in {rs[i] : i \in DOMAIN rs} : x.key = k
      OBVIOUS
    <3>2. r \in {rs[i] : i \in DOMAIN rs}
      BY <3>1
    <3>3. r \in Result
      BY <3>2, <1>a
    <3> QED BY <3>3 DEF Result, Observation
  <2>3. ObservationsOf(ev) \in [K -> Observation]
    BY <2>2 DEF ObservationsOf, rs
  <2> QED BY <2>1, <2>3 DEF Observations
<1>3. SelectedResult(ev) \in Result
  <2> DEFINE Failed == {i \in DOMAIN rs : rs[i].st = "fail"}
             First(i) == i \in Failed /\ \A j \in 1..(i-1) : rs[j].st # "fail"
  <2>1. Failed # {} => \E i \in DOMAIN rs : First(i)
    <3>1. Failed \subseteq Nat
      BY <1>1
    <3>2. Failed # {} => \E i \in Failed : \A j \in Failed : i <= j
      BY <3>1, LeastElement
    <3>3. SUFFICES ASSUME NEW i \in Failed, \A j \in Failed : i <= j
                   PROVE  First(i)
      BY <3>2
    <3>4. ASSUME NEW j \in 1..(i-1)
          PROVE  rs[j].st # "fail"
      <4>1. i \in DOMAIN rs /\ j \in DOMAIN rs /\ j < i
        BY <1>1, <3>1
      <4>2. j \notin Failed
        <5>1. i \in Nat /\ j \in Nat /\ ~ (i <= j)
          BY <4>1, <3>1
        <5> HIDE DEF Failed
        <5> QED BY <5>1, <3>3
      <4> QED BY <4>1, <4>2
    <3> QED BY <3>4
  <2>2. FirstFailed(rs) \in DOMAIN rs
    BY <1>1, <2>1 DEF FirstFailed
  <2> QED BY <2>2, <1>a DEF SelectedResult, rs
<1>4. ValidationOf(ev) \in Validation
  BY <1>1, <1>3 DEF ValidationOf, Validation, Result, Key
<1>5. BindingOf(ev) \in Binding
  BY <1>1 DEF BindingOf, Binding
<1> QED BY <1>2, <1>4, <1>5

(* What callers offer is typed except for its attempt, which replay bounds.*)
OfferedEvent ==
  [transition : Transitions, status : Statuses, attempt : Nat,
   actor : Actors, binding : Binding \union {NULL},
   validation : Validation \union {NULL}, obs : Observations,
   diagnosis : Diagnosis \union {NULL}, improvement : Improvement \union {NULL},
   stop : StopReasons \union {NULL}, bound : BOOLEAN, time : Nat,
   shape : {"json", "asdict"}]

LEMMA EmptyObservations == NoObservations \in Observations
<1>1. NoObservations \in [{} -> Observation]
  BY DEF NoObservations
<1> QED BY <1>1 DEF Observations

LEMMA GenesisType == Genesis \in LoopEvent
BY EmptyObservations DEF Genesis, LoopEvent, Transitions, Statuses, Terminal, MaxAttempt, Actors

LEMMA CarelessTypes ==
  ASSUME NEW e \in OfferedEvent, NEW x \in Careless(e)
  PROVE  x \in OfferedEvent
<1>1. CASE x = e
  BY <1>1
<1>2. CASE \E a \in 1..MaxAttempt : x = [e EXCEPT !.attempt = a]
  BY <1>2 DEF OfferedEvent, MaxAttempt
<1>3. CASE \E a \in Actors : x = [e EXCEPT !.actor = a]
  BY <1>3 DEF OfferedEvent
<1>4. CASE \E t \in 0..MaxTime : x = [e EXCEPT !.time = t]
  <2>1. 0..MaxTime \subseteq Nat
    BY ManifestAssumption
  <2> QED BY <1>4, <2>1 DEF OfferedEvent
<1>5. CASE x \in {[e EXCEPT !.bound = FALSE], [e EXCEPT !.status = "validation-failed"],
                  [e EXCEPT !.stop = NULL], [e EXCEPT !.obs = NoObservations]}
  <2>1. "validation-failed" \in Statuses
    BY DEF Statuses
  <2>2. [e EXCEPT !.bound = FALSE] \in OfferedEvent
    BY DEF OfferedEvent
  <2>3. [e EXCEPT !.status = "validation-failed"] \in OfferedEvent
    BY <2>1 DEF OfferedEvent
  <2>4. [e EXCEPT !.stop = NULL] \in OfferedEvent
    BY DEF OfferedEvent
  <2>5. [e EXCEPT !.obs = NoObservations] \in OfferedEvent
    BY EmptyObservations DEF OfferedEvent
  <2> QED BY <1>5, <2>2, <2>3, <2>4, <2>5
<1> QED BY <1>1, <1>2, <1>3, <1>4, <1>5 DEF Careless

LEMMA StateTypes ==
  ASSUME TypeOK
  PROVE  /\ Attempt(events) \in 1..MaxAttempt
         /\ LastTime(events) \in Nat
         /\ Status(events) \in Statuses
         /\ Len(events) \in Nat \ {0}
         /\ events[Len(events)] \in LoopEvent
<1>1. Len(events) \in Nat \ {0} /\ events[Len(events)] \in LoopEvent
  BY DEF TypeOK
<1> QED BY <1>1 DEF Attempt, LastTime, Status, LoopEvent, TypeOK

LEMMA EvidenceEventType ==
  ASSUME TypeOK, NEW ev \in Evidence, NEW t \in Transitions, NEW st \in Statuses,
         NEW r \in StopReasons \union {NULL}
  PROVE  EvidenceEvent(ev, t, st, r) \in OfferedEvent
<1>1. Genesis \in OfferedEvent
  BY GenesisType DEF LoopEvent, OfferedEvent, MaxAttempt
<1>2. /\ Attempt(events) \in Nat /\ LastTime(events) \in Nat
      /\ ObservationsOf(ev) \in Observations
      /\ ValidationOf(ev) \in Validation /\ BindingOf(ev) \in Binding
      /\ "validator" \in Actors
  BY EvidenceTypes, StateTypes DEF MaxAttempt, Actors
<1> QED BY <1>1, <1>2 DEF EvidenceEvent, OfferedEvent

LEMMA RetryEventType ==
  ASSUME TypeOK, NEW d \in Diagnosis, NEW proof \in Improvement, NEW b \in Binding \union {NULL}
  PROVE  RetryEvent(d, proof, b) \in OfferedEvent
<1>1. Genesis \in OfferedEvent
  BY GenesisType DEF LoopEvent, OfferedEvent, MaxAttempt
<1>2. /\ Attempt(events) + 1 \in Nat /\ LastTime(events) \in Nat
      /\ "agent" \in Actors
      /\ "retry-authorized" \in Transitions /\ "retry-authorized" \in Statuses
  BY StateTypes DEF MaxAttempt, Actors, Transitions, Statuses
<1> QED BY <1>1, <1>2 DEF RetryEvent, OfferedEvent

LEMMA StopEventType ==
  ASSUME TypeOK, NEW r \in StopReasons
  PROVE  StopEvent(r) \in OfferedEvent
<1>1. Genesis \in OfferedEvent
  BY GenesisType DEF LoopEvent, OfferedEvent, MaxAttempt
<1>2. /\ Attempt(events) \in Nat /\ LastTime(events) \in Nat
      /\ "stopped" \in Transitions /\ "stopped" \in Statuses
  BY StateTypes DEF MaxAttempt, Transitions, Statuses, Terminal
<1> QED BY <1>1, <1>2 DEF StopEvent, OfferedEvent

(* A chain replays when its front does and its last event is accepted.     *)
LEMMA ReplayAppend ==
  ASSUME NEW evts \in Seq(LoopEvent), NEW e, Replay(evts), Accepts(evts, e)
  PROVE  Replay(Append(evts, e))
<1> DEFINE ext == Append(evts, e)
<1>1. ASSUME NEW i \in 1..Len(ext)
      PROVE  Accepts(SubSeq(ext, 1, i - 1), ext[i])
  <2>1. CASE i = Len(evts) + 1
    <3>1. ext[i] = e /\ i - 1 = Len(evts) /\ SubSeq(ext, 1, Len(evts)) = evts
      BY <2>1, AppendFacts
    <3> QED BY <3>1
  <2>2. CASE i \in 1..Len(evts)
    <3>1. ext[i] = evts[i] /\ SubSeq(ext, 1, i - 1) = SubSeq(evts, 1, i - 1)
      BY <2>2, AppendFacts
    <3>2. Accepts(SubSeq(evts, 1, i - 1), evts[i])
      BY <2>2 DEF Replay
    <3> QED BY <3>1, <3>2
  <2> QED BY <2>1, <2>2, AppendFacts
<1>2. ext # <<>>
  BY AppendFacts, Len(ext) # 0
<1> QED BY <1>1, <1>2 DEF Replay

(* All that the invariants need of a step.                                 *)
Appends == \E e \in LoopEvent : Accepts(events, e) /\ events' = Append(events, e)
JournalSpec == Init /\ [][Appends]_vars

(* Every step of AgentLoop is one: a typed event that replay accepts.      *)
LEMMA StepAppends ==
  ASSUME TypeOK, Next
  PROVE  Appends
<1>1. \E e \in OfferedEvent : AppendEvent(e)
  <2>1. CASE RecordValidation
    BY <2>1, EvidenceEventType, CarelessTypes DEF RecordValidation, Transitions, Statuses
  <2>2. CASE AwaitReview
    BY <2>2, EvidenceEventType, CarelessTypes DEF AwaitReview, Transitions, Statuses, Terminal
  <2>3. CASE AuthorizeRetry
    BY <2>3, RetryEventType, CarelessTypes, EvidenceTypes, ManifestAssumption DEF AuthorizeRetry
  <2>4. CASE Stop
    BY <2>4, EvidenceEventType, StopEventType, CarelessTypes, ManifestAssumption
       DEF Stop, Transitions, Statuses, Terminal
  <2> QED BY <2>1, <2>2, <2>3, <2>4 DEF Next
<1>2. PICK e \in OfferedEvent : AppendEvent(e)
  BY <1>1
<1>3. Accepts(events, e)
  BY <1>2 DEF AppendEvent
<1>4. e \in LoopEvent
  BY <1>3 DEF Accepts, SchemaValid, OfferedEvent, LoopEvent
<1> QED BY <1>2, <1>3, <1>4 DEF AppendEvent, Appends

-----------------------------------------------------------------------------
(***************************************************************************)
(* Types, and the replay of whatever is on disk.                           *)
(***************************************************************************)
LEMMA TypeInit == Init => TypeOK
BY GenesisType DEF Init, TypeOK

LEMMA TypeStep == TypeOK /\ [Appends]_vars => TypeOK'
<1> SUFFICES ASSUME TypeOK, [Appends]_vars
             PROVE  TypeOK'
  OBVIOUS
<1>1. CASE Appends
  <2>1. PICK e \in LoopEvent : events' = Append(events, e)
    BY <1>1 DEF Appends
  <2> QED BY <2>1 DEF TypeOK
<1>2. CASE UNCHANGED vars
  BY <1>2 DEF vars, TypeOK
<1> QED BY <1>1, <1>2

LEMMA JournalTypes == JournalSpec => []TypeOK
BY TypeInit, TypeStep, PTL DEF JournalSpec

(* What AgentLoop does to the journal, anybody may do.                     *)
LEMMA LoopAppends == Spec => JournalSpec
<1>1. TypeOK /\ [Next]_vars => [Appends]_vars
  BY StepAppends
<1> QED BY <1>1, TypeInit, TypeStep, PTL DEF Spec, JournalSpec

(* The journal only ever holds well-typed, schema-valid events.            *)
THEOREM TypeCorrect == Spec => []TypeOK
BY LoopAppends, JournalTypes, PTL

LEMMA JournalAlwaysReplays == JournalSpec => []Replayable
<1>1. Init => Replayable
  <2> SUFFICES ASSUME Init PROVE Accepts(SubSeq(events, 1, 0), events[1])
    BY DEF Init, Replayable, Replay
  <2>1. SubSeq(events, 1, 0) = <<>> /\ events[1] = Genesis
    BY DEF Init
  <2>2. Accepts(<<>>, Genesis)
    <3>1. /\ Status(<<>>) = NULL /\ LastTime(<<>>) = 0 /\ Attempt(<<>>) = 1
          /\ DOMAIN Genesis.obs = {}
      BY DEF Status, LastTime, Attempt, Genesis, NoObservations
    <3>2. SchemaValid(Genesis) /\ ActorAllowed(Genesis) /\ VerdictFits(Genesis)
      BY DEF SchemaValid, MaxAttempt, ActorAllowed, VerdictFits, Genesis
    <3>3. AttemptFollows(<<>>, Genesis) /\ EvidenceFits(<<>>, Genesis) /\ PostRepairFits(<<>>, Genesis)
      BY <3>1 DEF AttemptFollows, EvidenceFits, PostRepairFits, Genesis
    <3>4. <<Genesis.transition, Genesis.status>> \in AllowedTransitions(NULL)
      BY DecisionAssumptions DEF Genesis, AllowedTransitions, Statuses
    <3> QED BY <3>1, <3>2, <3>3, <3>4 DEF Accepts, Genesis
  <2> QED BY <2>1, <2>2
<1>2. TypeOK /\ Replayable /\ [Appends]_vars => Replayable'
  BY ReplayAppend DEF Replayable, vars, Appends, TypeOK
<1> QED BY <1>1, <1>2, JournalTypes, PTL DEF JournalSpec

(* Whatever callers offer, the chain append leaves behind replays.         *)
THEOREM JournalReplays == Spec => []Replayable
BY LoopAppends, JournalAlwaysReplays, PTL

-----------------------------------------------------------------------------
(***************************************************************************)
(* The two counters.  HistoryShape ties the length of the journal to its   *)
(* status and its retries; it is what makes the bound inductive.           *)
(***************************************************************************)
HistoryShape ==
  LET n == Len(events)  r == RetriesConsumed(events) IN
  /\ Status(events) = "awaiting-validation" => n = 2 * r + 1
  /\ Status(events) = "validation-failed" => n = 2 * r + 2
  /\ Status(events) = "retry-authorized" => n = 2 * r + 1
  /\ Status(events) \in Terminal => n <= 2 * r + 3

CountersInv == TypeOK /\ AttemptCountsRetries /\ HistoryShape

LEMMA RetriesType ==
  ASSUME NEW evts \in Seq(LoopEvent)
  PROVE  IsFiniteSet(RetryIndices(evts)) /\ RetriesConsumed(evts) \in Nat
<1>1. RetryIndices(evts) \in SUBSET (1..Len(evts)) /\ Len(evts) \in Int
  BY DEF RetryIndices
<1>2. IsFiniteSet(1..Len(evts))
  BY <1>1, FS_Interval
<1>3. IsFiniteSet(RetryIndices(evts))
  BY <1>1, <1>2, FS_Subset
<1> QED BY <1>3, FS_CardinalityType DEF RetriesConsumed

LEMMA RetriesAppend ==
  ASSUME NEW evts \in Seq(LoopEvent), NEW e \in LoopEvent
  PROVE  RetriesConsumed(Append(evts, e)) =
           IF e.transition = "retry-authorized"
           THEN RetriesConsumed(evts) + 1 ELSE RetriesConsumed(evts)
<1> DEFINE n == Len(evts) + 1
<1>1. CASE e.transition = "retry-authorized"
  <2>1. RetryIndices(Append(evts, e)) = RetryIndices(evts) \union {n}
    BY <1>1, AppendFacts DEF RetryIndices
  <2>2. n \notin RetryIndices(evts)
    BY AppendFacts DEF RetryIndices
  <2> QED BY <1>1, <2>1, <2>2, RetriesType, FS_AddElement DEF RetriesConsumed
<1>2. CASE e.transition # "retry-authorized"
  <2>1. RetryIndices(Append(evts, e)) = RetryIndices(evts)
    BY <1>2, AppendFacts DEF RetryIndices
  <2> QED BY <1>2, <2>1 DEF RetriesConsumed
<1> QED BY <1>1, <1>2

LEMMA LastOfAppend ==
  ASSUME NEW evts \in Seq(LoopEvent), NEW e \in LoopEvent
  PROVE  /\ Status(Append(evts, e)) = e.status
         /\ Attempt(Append(evts, e)) = e.attempt
         /\ Len(Append(evts, e)) = Len(evts) + 1
<1>1. Append(evts, e) # <<>>
  BY AppendFacts, Len(Append(evts, e)) # 0
<1> QED BY <1>1, AppendFacts DEF Status, Attempt

LEMMA CountersInit == Init => CountersInv
<1> SUFFICES ASSUME Init PROVE CountersInv
  OBVIOUS
<1>1. TypeOK
  BY TypeInit
<1>2. RetryIndices(events) = {}
  BY DEF Init, RetryIndices, Genesis
<1>3. RetriesConsumed(events) = 0
  BY <1>2, FS_EmptySet DEF RetriesConsumed
<1>4. Status(events) = "awaiting-validation" /\ Attempt(events) = 1 /\ Len(events) = 1
  BY DEF Init, Genesis, Status, Attempt
<1> QED
  BY <1>1, <1>3, <1>4, DecisionAssumptions
     DEF CountersInv, AttemptCountsRetries, HistoryShape, MaxAttempt, Terminal

LEMMA CountersStep == CountersInv /\ [Appends]_vars => CountersInv'
<1> SUFFICES ASSUME CountersInv, [Appends]_vars
             PROVE  CountersInv'
  OBVIOUS
<1>1. CASE UNCHANGED vars
  BY <1>1 DEF vars, CountersInv, TypeOK, AttemptCountsRetries, HistoryShape
<1>2. CASE Appends
  <2>1. TypeOK
    BY DEF CountersInv
  <2>2. PICK e \in LoopEvent : events' = Append(events, e) /\ Accepts(events, e)
    BY <1>2 DEF Appends
  <2> DEFINE r == RetriesConsumed(events)
             retry == e.transition = "retry-authorized"
  <2>3. events \in Seq(LoopEvent) /\ r \in Nat /\ Len(events) \in Nat
    BY <2>1, RetriesType DEF TypeOK
  <2>4. RetriesConsumed(events') = IF retry THEN r + 1 ELSE r
    BY <2>2, <2>3, RetriesAppend
  <2>5. /\ Status(events') = e.status
        /\ Attempt(events') = e.attempt
        /\ Len(events') = Len(events) + 1
    BY <2>2, <2>3, LastOfAppend
  <2>6. TypeOK'
    BY <1>2, <2>1, TypeStep
  <2>7. AttemptCountsRetries'
    <3>1. e.attempt = 1 + RetriesConsumed(events')
      BY <2>2, <2>3, <2>4 DEF CountersInv, AttemptCountsRetries, Accepts, AttemptFollows
    <3>2. RetriesConsumed(events') <= Budget
      BY <2>2, <2>3, <2>4 DEF CountersInv, AttemptCountsRetries, Accepts, AttemptFollows
    <3>3. e.attempt \in 1..MaxAttempt
      BY DEF LoopEvent
    <3>4. RetriesConsumed(events') < MaxAttempt
      BY <3>1, <3>3, <2>3, <2>4 DEF MaxAttempt
    <3> QED BY <2>5, <3>1, <3>2, <3>4 DEF AttemptCountsRetries
  <2>8. HistoryShape'
    <3>1. <<e.transition, e.status>> \in AllowedTransitions(Status(events))
      BY <2>2 DEF Accepts
    <3>2. Status(events) \in Statuses /\ NULL \notin Statuses
      BY <2>1, StateTypes, DecisionAssumptions
    <3>3. CASE Status(events) = "awaiting-validation"
      BY <3>1, <3>2, <3>3, <2>3, <2>4, <2>5
         DEF AllowedTransitions, CountersInv, HistoryShape, Terminal
    <3>4. CASE Status(events) = "validation-failed"
      BY <3>1, <3>2, <3>4, <2>3, <2>4, <2>5
         DEF AllowedTransitions, CountersInv, HistoryShape, Terminal
    <3>5. CASE Status(events) = "retry-authorized"
      BY <3>1, <3>2, <3>5, <2>3, <2>4, <2>5
         DEF AllowedTransitions, CountersInv, HistoryShape, Terminal
    <3>6. Status(events) \notin Terminal
      BY <3>1, <3>2 DEF AllowedTransitions, Terminal
    <3> QED BY <3>2, <3>3, <3>4, <3>5, <3>6 DEF Statuses
  <2> QED BY <2>6, <2>7, <2>8 DEF CountersInv
<1> QED BY <1>1, <1>2

LEMMA CountersInvariant == JournalSpec => []CountersInv
BY CountersInit, CountersStep, PTL DEF JournalSpec

(* Stored attempts and counted retries agree, within budget and limit.     *)
THEOREM AttemptsBounded == Spec => []AttemptCountsRetries
BY LoopAppends, CountersInvariant, PTL DEF CountersInv

(* A loop's journal is finite: two events per retry and three more.        *)
THEOREM HistoryBounded == Spec => []BoundedHistory
<1>1. CountersInv => BoundedHistory
  <2> SUFFICES ASSUME CountersInv PROVE BoundedHistory
    OBVIOUS
  <2>1. Status(events) \in Statuses /\ Len(events) \in Nat /\ RetriesConsumed(events) \in Nat
    BY StateTypes, RetriesType DEF CountersInv, TypeOK
  <2> QED BY <2>1 DEF CountersInv, HistoryShape, BoundedHistory, Statuses
<1> QED BY <1>1, LoopAppends, CountersInvariant, PTL

-----------------------------------------------------------------------------
(***************************************************************************)
(* Evidence is used once.                                                  *)
(***************************************************************************)
LEMMA EvidenceStep ==
  TypeOK /\ EvidenceUsedOnce /\ [Appends]_vars => EvidenceUsedOnce'
<1> SUFFICES ASSUME TypeOK, EvidenceUsedOnce, [Appends]_vars
             PROVE  EvidenceUsedOnce'
  OBVIOUS
<1>1. CASE UNCHANGED vars
  BY <1>1 DEF vars, EvidenceUsedOnce
<1>2. CASE Appends
  <2>1. PICK e \in LoopEvent : events' = Append(events, e) /\ Accepts(events, e)
    BY <1>2 DEF Appends
  <2>2. e.binding # NULL => e.binding.run \notin SeenEvidence(events)
    BY <2>1 DEF Accepts, EvidenceFits
  <2>3. \A i \in DOMAIN events : events[i].binding # NULL =>
          events[i].binding.run \in SeenEvidence(events)
    BY DEF SeenEvidence
  <2>4. /\ DOMAIN events' = DOMAIN events \union {Len(events) + 1}
        /\ \A i \in DOMAIN events : events'[i] = events[i]
        /\ events'[Len(events) + 1] = e
    BY <2>1, AppendFacts DEF TypeOK
  <2> QED BY <2>2, <2>3, <2>4 DEF EvidenceUsedOnce
<1> QED BY <1>1, <1>2

LEMMA JournalEvidence == JournalSpec => []EvidenceUsedOnce
<1>1. Init => EvidenceUsedOnce
  BY DEF Init, EvidenceUsedOnce
<1> QED BY <1>1, EvidenceStep, JournalTypes, PTL DEF JournalSpec

(* No run's evidence is bound by two events of a loop.                     *)
THEOREM EvidenceNeverReused == Spec => []EvidenceUsedOnce
BY LoopAppends, JournalEvidence, PTL

-----------------------------------------------------------------------------
(***************************************************************************)
(* Repairs never lose a passing case.  Paired says how transitions and     *)
(* statuses follow each other in an accepted chain, so that the failed     *)
(* validation before a retry is the latest one and the induction over      *)
(* PassingCasesKept can go through it.                                     *)
(***************************************************************************)
Paired ==
  \A i \in DOMAIN events :
    /\ events[i].status = "awaiting-validation" <=> i = 1
    /\ events[i].status = "validation-failed" <=> events[i].transition = "validation-recorded"
    /\ events[i].status = "retry-authorized" <=> events[i].transition = "retry-authorized"
    /\ events[i].status = "retry-authorized" =>
         /\ i - 1 \in FailedValidations
         /\ events[i].improvement # NULL
         /\ events[i].diagnosis.evidence = events[i-1].binding.run
    /\ i \in FailedValidations => i > 1 /\ DOMAIN events[i].obs # {}
    /\ i < Len(events) => events[i].status \notin Terminal
    /\ i \in FailedValidations /\ i < Len(events) =>
         events[i+1].status \in {"retry-authorized"} \union Terminal

RepairInv == TypeOK /\ Paired /\ RepairsImprove /\ PassingCasesKept

LEMMA TypedStopReason ==
  ASSUME NEW kinds, TypedStops(kinds) # {}
  PROVE  FirstReason(TypedStops(kinds)) \in StopReasons \ {NULL}
<1> DEFINE I == {i \in 1..12 : SortedReasons[i] \in TypedStops(kinds)}
<1>1. TypedStops(kinds) \subseteq StopReasons
  BY DEF TypedStops, ClassifyStopReason, SemanticStopFailures, StopReasons, SortedReasons
<1>2. I # {} /\ I \in SUBSET Nat
  BY <1>1 DEF StopReasons
<1>3. \E i \in I : \A j \in I : i <= j
  BY <1>2, LeastElement
<1>4. FirstReason(TypedStops(kinds)) \in StopReasons
  BY <1>3 DEF FirstReason, StopReasons
<1> QED BY <1>4, DecisionAssumptions

(* What acceptance says of a new event's place in the chain.               *)
LEMMA AcceptedPlace ==
  ASSUME TypeOK, Paired, NEW e \in LoopEvent, Accepts(events, e)
  PROVE  LET n == Len(events) IN
         /\ n \in Nat \ {0} /\ events[n].status \notin Terminal
         /\ e.status # "awaiting-validation"
         /\ e.status = "validation-failed" <=> e.transition = "validation-recorded"
         /\ e.status = "retry-authorized" <=> e.transition = "retry-authorized"
         /\ e.transition = "validation-recorded" =>
              /\ events[n].status \in {"awaiting-validation", "retry-authorized"}
              /\ e.binding # NULL /\ e.validation # NULL /\ DOMAIN e.obs # {}
         /\ e.transition = "retry-authorized" =>
              /\ events[n].transition = "validation-recorded" /\ e.improvement # NULL
              /\ e.diagnosis.evidence = events[n].binding.run
         /\ events[n].status = "validation-failed" =>
              e.status \in {"retry-authorized", "stopped"}
<1> DEFINE n == Len(events)
<1>1. n \in Nat \ {0} /\ n \in DOMAIN events /\ events[n].status \in Statuses /\ Status(events) = events[n].status
  BY StateTypes DEF TypeOK, LoopEvent, Status
<1>2. <<e.transition, e.status>> \in AllowedTransitions(events[n].status)
  BY <1>1 DEF Accepts
<1>3. events[n].status # NULL
  BY <1>1, DecisionAssumptions
<1>4. events[n].status \notin Terminal
  BY <1>1, <1>2, <1>3 DEF AllowedTransitions, Terminal
<1>5. CASE events[n].status = "validation-failed"
  <2>1. <<e.transition, e.status>> \in {<<"retry-authorized", "retry-authorized">>, <<"stopped", "stopped">>}
    BY <1>2, <1>3, <1>5 DEF AllowedTransitions
  <2>2. e.transition = "retry-authorized" => RetryBindsFailure(events[n], e)
    BY DEF Accepts
  <2> QED BY <1>1, <1>4, <1>5, <2>1, <2>2 DEF RetryBindsFailure
<1>6. CASE events[n].status \in {"awaiting-validation", "retry-authorized"}
  <2>1. <<e.transition, e.status>> \in {<<"validation-recorded", "validation-failed">>,
          <<"awaiting-human-review", "awaiting-human-review">>, <<"stopped", "stopped">>}
    BY <1>2, <1>3, <1>6 DEF AllowedTransitions
  <2>2. e.transition = "validation-recorded" =>
          e.binding # NULL /\ e.validation # NULL /\ DOMAIN e.obs # {}
    BY DEF Accepts, EvidenceFits, VerdictFits
  <2> QED BY <1>1, <1>4, <1>6, <2>1, <2>2
<1> QED BY <1>1, <1>4, <1>5, <1>6 DEF Statuses, Terminal

LEMMA PairedStep ==
  ASSUME TypeOK, Paired, NEW e \in LoopEvent, Accepts(events, e), events' = Append(events, e)
  PROVE  Paired'
<1> DEFINE n == Len(events)
<1>1. /\ DOMAIN events' = 1..(n+1) /\ DOMAIN events = 1..n /\ Len(events') = n + 1
      /\ \A i \in 1..n : events'[i] = events[i]
      /\ events'[n+1] = e /\ n \in Nat \ {0}
  BY AppendFacts, AcceptedPlace DEF TypeOK
<1>2. \A i \in 1..n : i \in FailedValidations' <=> i \in FailedValidations
  BY <1>1 DEF FailedValidations
<1>3. n + 1 \in FailedValidations' <=> e.transition = "validation-recorded"
  BY <1>1 DEF FailedValidations
<1>4. n \in FailedValidations <=> events[n].transition = "validation-recorded"
  BY <1>1 DEF FailedValidations
<1>5. e.status = "retry-authorized" =>
        n \in FailedValidations' /\ e.improvement # NULL /\ e.diagnosis.evidence = events[n].binding.run
  BY <1>1, <1>2, <1>4, AcceptedPlace
<1>6. ASSUME NEW i \in 1..n
      PROVE  /\ events'[i].status = "awaiting-validation" <=> i = 1
             /\ events'[i].status = "validation-failed" <=> events'[i].transition = "validation-recorded"
             /\ events'[i].status = "retry-authorized" <=> events'[i].transition = "retry-authorized"
             /\ events'[i].status = "retry-authorized" =>
                  /\ i - 1 \in FailedValidations'
                  /\ events'[i].improvement # NULL
                  /\ events'[i].diagnosis.evidence = events'[i-1].binding.run
             /\ i \in FailedValidations' => i > 1 /\ DOMAIN events'[i].obs # {}
  <2>1. events'[i] = events[i] BY <1>1
  <2>2. i - 1 \in FailedValidations => i - 1 \in 1..n
    BY <1>1 DEF FailedValidations
  <2> QED BY <1>1, <1>2, <2>1, <2>2 DEF Paired
<1>7. \A i \in 1..n : events'[i].status \notin Terminal
  BY <1>1, AcceptedPlace DEF Paired
<1>8. ASSUME NEW i \in 1..n, i \in FailedValidations'
      PROVE  events'[i+1].status \in {"retry-authorized"} \union Terminal
  <2>1. CASE i < n
    BY <1>1, <1>2, <1>8, <2>1 DEF Paired
  <2>2. CASE i = n
    <3>1. events[n].status = "validation-failed"
      BY <1>1, <1>2, <1>4, <1>8, <2>2 DEF Paired
    <3> QED BY <1>1, <2>2, <3>1, AcceptedPlace DEF Terminal
  <2> QED BY <1>1, <2>1, <2>2
<1>9. /\ e.status = "awaiting-validation" <=> n + 1 = 1
      /\ e.status = "validation-failed" <=> e.transition = "validation-recorded"
      /\ e.status = "retry-authorized" <=> e.transition = "retry-authorized"
      /\ e.transition = "validation-recorded" => n + 1 > 1 /\ DOMAIN e.obs # {}
  BY <1>1, AcceptedPlace
<1>10. \A i \in 1..(n+1) : i \in 1..n \/ i = n + 1
  BY <1>1
<1> HIDE DEF n
<1> QED BY <1>1, <1>3, <1>5, <1>6, <1>7, <1>8, <1>9, <1>10 DEF Paired

(* A recorded failure of a repaired run improves on the run before it.     *)
LEMMA AcceptedRepair ==
  ASSUME TypeOK, Paired, NEW e \in LoopEvent, Accepts(events, e),
         e.transition = "validation-recorded", events[Len(events)].transition = "retry-authorized"
  PROVE  LET n == Len(events) IN
         /\ n - 1 \in FailedValidations
         /\ events[n].diagnosis.evidence = events[n-1].binding.run
         /\ KeepsAndImproves(events[n-1].obs, e.obs, events[n].improvement)
         /\ TypedStops(e.validation.kinds) = {}
<1> DEFINE n == Len(events)
<1>1. n \in DOMAIN events /\ n \in Nat \ {0} /\ Status(events) = "retry-authorized"
  BY StateTypes DEF TypeOK, Paired, Status
<1>2. n - 1 \in FailedValidations /\ events[n].diagnosis.evidence = events[n-1].binding.run
  BY <1>1 DEF Paired
<1>3. e.binding # NULL /\ e.validation # NULL
  BY AcceptedPlace
<1>4. EvaluatePostRepair(events, e.obs, EventKinds(e)) = NULL
  BY <1>1, <1>3 DEF Accepts, PostRepairFits
<1>5. NULL \notin {"human-escalation", "non-improving-retry"}
  BY DecisionAssumptions DEF StopReasons, SortedReasons
<1>6. EventKinds(e) = e.validation.kinds
  BY <1>3 DEF EventKinds
<1>7. TypedStops(EventKinds(e)) = {}
  BY <1>4, <1>5, TypedStopReason DEF EvaluatePostRepair
<1>8. KeepsAndImproves(events[n-1].obs, e.obs, events[n].improvement)
  BY <1>4, <1>5, <1>7 DEF EvaluatePostRepair
<1> QED BY <1>2, <1>6, <1>7, <1>8

LEMMA RepairsStep ==
  ASSUME RepairInv, NEW e \in LoopEvent, Accepts(events, e), events' = Append(events, e)
  PROVE  RepairsImprove'
<1> DEFINE n == Len(events)
<1>1. /\ DOMAIN events' = 1..(n+1) /\ DOMAIN events = 1..n
      /\ \A i \in 1..n : events'[i] = events[i]
      /\ events'[n+1] = e /\ n \in Nat \ {0}
  BY AppendFacts, AcceptedPlace DEF TypeOK, RepairInv
<1>2. FailedValidations' \subseteq 1..n \union {n + 1}
  BY <1>1 DEF FailedValidations
<1>3. ASSUME NEW i \in FailedValidations', events'[i-1].transition = "retry-authorized"
      PROVE  /\ i - 2 \in FailedValidations'
             /\ events'[i-1].diagnosis.evidence = events'[i-2].binding.run
             /\ KeepsAndImproves(events'[i-2].obs, events'[i].obs, events'[i-1].improvement)
             /\ TypedStops(events'[i].validation.kinds) = {}
  <2>1. CASE i \in 1..n
    <3>1. i \in FailedValidations /\ i > 1
      BY <1>1, <2>1 DEF FailedValidations, Paired, RepairInv
    <3>2. events'[i] = events[i] /\ events'[i-1] = events[i-1]
      BY <1>1, <2>1, <3>1
    <3>3. /\ i - 2 \in FailedValidations
          /\ events[i-1].diagnosis.evidence = events[i-2].binding.run
          /\ KeepsAndImproves(events[i-2].obs, events[i].obs, events[i-1].improvement)
          /\ TypedStops(events[i].validation.kinds) = {}
      BY <1>3, <3>1, <3>2 DEF RepairsImprove, RepairInv
    <3>4. i - 2 \in 1..n
      BY <1>1, <3>3 DEF FailedValidations
    <3>5. events'[i-2] = events[i-2] /\ i - 2 \in FailedValidations'
      BY <1>1, <3>3, <3>4 DEF FailedValidations
    <3> QED BY <3>2, <3>3, <3>5
  <2>2. CASE i = n + 1
    <3>1. e.transition = "validation-recorded" /\ i - 1 = n
      BY <1>1, <2>2 DEF FailedValidations
    <3>2. events'[i-1] = events[n] /\ events'[i] = e
      <4>1. n \in 1..n
        BY <1>1
      <4> QED BY <1>1, <2>2, <3>1, <4>1
    <3>3. /\ n - 1 \in FailedValidations
          /\ events[n].diagnosis.evidence = events[n-1].binding.run
          /\ KeepsAndImproves(events[n-1].obs, e.obs, events[n].improvement)
          /\ TypedStops(e.validation.kinds) = {}
      BY <1>3, <3>1, <3>2, AcceptedRepair DEF RepairInv
    <3>4. n - 1 \in 1..n /\ i - 2 = n - 1
      BY <1>1, <2>2, <3>3 DEF FailedValidations
    <3>5. events'[i-2] = events[n-1] /\ i - 2 \in FailedValidations'
      BY <1>1, <3>3, <3>4 DEF FailedValidations
    <3> QED BY <3>2, <3>3, <3>5
  <2> QED BY <1>2, <2>1, <2>2
<1> QED BY <1>3 DEF RepairsImprove

(* What KeepsAndImproves preserves: the cases, and those that pass.        *)
LEMMA PassingKept ==
  ASSUME NEW a \in LoopEvent, NEW b \in LoopEvent, NEW proof,
         KeepsAndImproves(a.obs, b.obs, proof)
  PROVE  DOMAIN a.obs = DOMAIN b.obs /\ Passing(a) \subseteq Passing(b)
<1>1. DOMAIN a.obs = DOMAIN b.obs /\ ~Regressed(a.obs, b.obs)
  BY DEF KeepsAndImproves
<1>2. b.obs \in Observations
  BY DEF LoopEvent
<1>3. \A k \in DOMAIN b.obs : b.obs[k] \in Observation
  BY <1>2 DEF Observations
<1>4. \A k \in DOMAIN b.obs : b.obs[k].st \in {"pass", "fail"}
  BY <1>3 DEF Observation
<1> QED BY <1>1, <1>4 DEF Regressed, Passing

LEMMA CasesStep ==
  ASSUME RepairInv, NEW e \in LoopEvent, Accepts(events, e), events' = Append(events, e)
  PROVE  PassingCasesKept'
<1> DEFINE n == Len(events)
<1>1. /\ DOMAIN events' = 1..(n+1) /\ DOMAIN events = 1..n
      /\ \A i \in 1..n : events'[i] = events[i]
      /\ events'[n+1] = e /\ n \in Nat \ {0}
  BY AppendFacts, AcceptedPlace DEF TypeOK, RepairInv
<1>2. \A i \in 1..n : events[i] \in LoopEvent
  BY <1>1 DEF TypeOK, RepairInv
<1>3. FailedValidations' \subseteq 1..n \union {n + 1}
  BY <1>1 DEF FailedValidations
<1>4. ASSUME NEW i \in FailedValidations', NEW j \in FailedValidations', i < j
      PROVE  /\ DOMAIN events'[i].obs = DOMAIN events'[j].obs
             /\ Passing(events'[i]) \subseteq Passing(events'[j])
  <2>1. i \in 1..n /\ i \in FailedValidations /\ events'[i] = events[i] /\ i > 1
    BY <1>1, <1>4 DEF FailedValidations, Paired, RepairInv
  <2>2. CASE j \in 1..n
    <3>1. j \in FailedValidations /\ events'[j] = events[j]
      BY <1>1, <2>2 DEF FailedValidations
    <3> QED BY <1>4, <2>1, <3>1 DEF PassingCasesKept, RepairInv
  <2>3. CASE j = n + 1
    <3>1. e.transition = "validation-recorded" /\ events'[j] = e
      BY <1>1, <2>3 DEF FailedValidations
    <3>2. n # 1
      BY <2>1
    <3>3. events[n].transition = "retry-authorized"
      <4>1. events[n].status \in {"awaiting-validation", "retry-authorized"}
        BY <3>1, AcceptedPlace DEF RepairInv
      <4> QED BY <1>1, <3>2, <4>1 DEF Paired, RepairInv
    <3>4. n - 1 \in FailedValidations /\ KeepsAndImproves(events[n-1].obs, e.obs, events[n].improvement)
      BY <3>1, <3>3, AcceptedRepair DEF RepairInv
    <3>5. i # n
      BY <2>1, <3>3 DEF FailedValidations
    <3>6. n - 1 \in 1..n /\ events[n-1] \in LoopEvent
      BY <1>2, <3>4 DEF FailedValidations
    <3>7. DOMAIN events[n-1].obs = DOMAIN e.obs /\ Passing(events[n-1]) \subseteq Passing(e)
      <4> DEFINE a == events[n-1]
                 proof == events[n].improvement
      <4>1. a \in LoopEvent /\ KeepsAndImproves(a.obs, e.obs, proof)
        BY <3>4, <3>6
      <4>2. DOMAIN a.obs = DOMAIN e.obs /\ Passing(a) \subseteq Passing(e)
        <5> HIDE DEF a, proof
        <5> QED BY <4>1, PassingKept
      <4> QED BY <4>2
    <3>8. i < n - 1 \/ i = n - 1
      <4>1. n \in Nat /\ i \in Nat /\ i <= n
        BY <2>1
      <4> HIDE DEF n
      <4> QED BY <4>1, <3>5
    <3>9. /\ DOMAIN events[i].obs = DOMAIN events[n-1].obs
          /\ Passing(events[i]) \subseteq Passing(events[n-1])
      BY <2>1, <3>4, <3>8 DEF PassingCasesKept, RepairInv
    <3> QED BY <2>1, <3>1, <3>7, <3>9
  <2> QED BY <1>3, <2>2, <2>3
<1> QED BY <1>4 DEF PassingCasesKept

LEMMA RepairInvariant == JournalSpec => []RepairInv
<1>1. Init => RepairInv
  <2> SUFFICES ASSUME Init PROVE RepairInv
    OBVIOUS
  <2>1. TypeOK
    BY GenesisType DEF Init, TypeOK
  <2>2. DOMAIN events = {1} /\ Len(events) = 1 /\ events[1] = Genesis
    BY DEF Init
  <2>3. FailedValidations = {}
    BY <2>2 DEF FailedValidations, Genesis
  <2>4. Paired
    BY <2>2, <2>3 DEF Paired, Genesis, Terminal
  <2> QED BY <2>1, <2>3, <2>4 DEF RepairInv, RepairsImprove, PassingCasesKept
<1>2. RepairInv /\ TypeOK' /\ [Appends]_vars => RepairInv'
  <2> SUFFICES ASSUME RepairInv, TypeOK', [Appends]_vars
               PROVE  RepairInv'
    OBVIOUS
  <2>1. CASE UNCHANGED vars
    <3>1. FailedValidations' = FailedValidations
      BY <2>1 DEF vars, FailedValidations
    <3>2. Paired'
      BY <2>1, <3>1 DEF vars, RepairInv, Paired
    <3>3. RepairsImprove'
      BY <2>1, <3>1 DEF vars, RepairInv, RepairsImprove
    <3>4. PassingCasesKept'
      BY <2>1, <3>1 DEF vars, RepairInv, PassingCasesKept, Passing
    <3> QED BY <3>2, <3>3, <3>4 DEF RepairInv
  <2>2. CASE Appends
    <3>1. PICK e \in LoopEvent : events' = Append(events, e) /\ Accepts(events, e)
      BY <2>2 DEF Appends
    <3> QED BY <3>1, PairedStep, RepairsStep, CasesStep DEF RepairInv
  <2> QED BY <2>1, <2>2
<1> QED BY <1>1, <1>2, JournalTypes, PTL DEF JournalSpec

(* A repair that is followed by another failed validation has improved the *)
(* case it named and shows no failure that forbids automated repair.       *)
THEOREM RepairsAlwaysImprove == Spec => []RepairsImprove
<1>1. RepairInv => RepairsImprove
  BY DEF RepairInv
<1> QED BY <1>1, LoopAppends, RepairInvariant, PTL

(* A case that passed in one failed validation passes in every later one.  *)
THEOREM NoCaseLost == Spec => []PassingCasesKept
<1>1. RepairInv => PassingCasesKept
  BY DEF RepairInv
<1> QED BY <1>1, LoopAppends, RepairInvariant, PTL

-----------------------------------------------------------------------------
(* The journal grows by one event per call, and ends with a terminal one.  *)
THEOREM JournalAppendOnly == Spec => AppendOnly
<1> DEFINE Grows == /\ Status(events) \notin Terminal
                    /\ Len(events') = Len(events) + 1
                    /\ SubSeq(events', 1, Len(events)) = events
<1>1. TypeOK /\ RepairInv /\ [Appends]_vars => [Grows]_events
  <2> SUFFICES ASSUME TypeOK, RepairInv, Appends PROVE Grows
    BY DEF vars
  <2>1. PICK e \in LoopEvent : events' = Append(events, e) /\ Accepts(events, e)
    BY DEF Appends
  <2>2. Status(events) \notin Terminal
    BY <2>1, AcceptedPlace, StateTypes DEF RepairInv, Status, TypeOK
  <2>3. Len(events') = Len(events) + 1 /\ SubSeq(events', 1, Len(events)) = events
    BY <2>1, AppendFacts DEF TypeOK
  <2> QED BY <2>2, <2>3
<1> QED BY <1>1, LoopAppends, JournalTypes, RepairInvariant, PTL DEF JournalSpec, AppendOnly

-----------------------------------------------------------------------------
(* A chain of events each of which replay accepted in its place.           *)
AcceptedChain(s) ==
  /\ s # <<>> /\ s[1] = Genesis
  /\ \A i \in 2..Len(s) : Accepts(SubSeq(s, 1, i - 1), s[i])

(* Every event of it was accepted behind the one before.                   *)
LEMMA LastOfPrefix ==
  ASSUME NEW s \in Seq(LoopEvent), NEW i \in 2..Len(s)
  PROVE  /\ Status(SubSeq(s, 1, i - 1)) = s[i-1].status
         /\ Attempt(SubSeq(s, 1, i - 1)) = s[i-1].attempt
<1> DEFINE p == SubSeq(s, 1, i - 1)
<1>1. p # <<>> /\ Len(p) = i - 1 /\ p[i-1] = s[i-1]
  <2>1. Len(s) \in Nat /\ i - 1 \in 1..Len(s)
    OBVIOUS
  <2>2. Len(p) = i - 1 /\ p[i-1] = s[i-1]
    BY <2>1
  <2>3. p # <<>>
    BY <2>1, <2>2
  <2> QED BY <2>2, <2>3
<1> HIDE DEF p
<1>2. Status(p) = s[i-1].status /\ Attempt(p) = s[i-1].attempt
  BY <1>1 DEF Status, Attempt
<1> QED BY <1>2 DEF p

(* The attempts of an accepted chain do not decrease.                      *)
LEMMA AttemptsGrow ==
  ASSUME NEW s \in Seq(LoopEvent), AcceptedChain(s)
  PROVE  \A i \in DOMAIN s : s[i].attempt <= Attempt(s)
<1> DEFINE n == Len(s)
           Later(i) == {d \in 0..(n - i) : s[i].attempt <= s[i + d].attempt}
<1>1. n \in Nat \ {0} /\ DOMAIN s = 1..n
  BY DEF AcceptedChain
<1>2. \A i \in 1..n : s[i] \in LoopEvent /\ s[i].attempt \in Nat
  <2>1. \A i \in 1..n : s[i] \in LoopEvent
    BY <1>1
  <2>2. \A x \in LoopEvent : x.attempt \in Nat
    BY DEF LoopEvent, MaxAttempt
  <2> HIDE DEF n
  <2> QED BY <2>1, <2>2
<1>3. ASSUME NEW i \in 2..n PROVE s[i-1].attempt <= s[i].attempt
  <2>1. Accepts(SubSeq(s, 1, i - 1), s[i])
    BY <1>3 DEF AcceptedChain
  <2>2. s[i].attempt = s[i-1].attempt \/ s[i].attempt = s[i-1].attempt + 1
    BY <1>3, <2>1, LastOfPrefix DEF Accepts, AttemptFollows
  <2>3. s[i-1].attempt \in Nat /\ s[i].attempt \in Nat
    BY <1>1, <1>2
  <2> QED BY <2>2, <2>3
<1>4. SUFFICES ASSUME NEW i \in 1..n PROVE s[i].attempt <= s[n].attempt
  BY <1>1 DEF Attempt, AcceptedChain
<1> DEFINE Bad == {j \in i..n : ~(s[i].attempt <= s[j].attempt)}
<1>5. SUFFICES ASSUME Bad # {} PROVE FALSE
  BY <1>1
<1>6. Bad \in SUBSET Nat
  BY <1>1
<1>7. PICK j \in Bad : \A k \in Bad : j <= k
  <2> HIDE DEF Bad
  <2> QED BY <1>5, <1>6, LeastElement
<1>8. j # i
  BY <1>2, <1>7
<1>9. j \in 2..n /\ j - 1 \in i..n /\ ~(j <= j - 1)
  BY <1>1, <1>7, <1>8
<1>10. j - 1 \notin Bad
  BY <1>7, <1>9
<1>11. s[i].attempt <= s[j-1].attempt
  BY <1>9, <1>10
<1>12. s[j-1].attempt <= s[j].attempt /\ {s[i].attempt, s[j].attempt, s[j-1].attempt} \subseteq Nat
  <2>1. j - 1 \in 1..n /\ j \in 1..n
    BY <1>1, <1>9
  <2> QED BY <1>2, <1>3, <1>9, <2>1
<1>13. s[i].attempt <= s[j].attempt
  BY <1>11, <1>12
<1> QED BY <1>7, <1>13

(* A journal that replays accepts no event it has already: a retry has the *)
(* next attempt, a validation new evidence, and nothing follows a stop.    *)
THEOREM AcceptedIsNew ==
  ASSUME NEW s \in Seq(LoopEvent), AcceptedChain(s), NEW e \in LoopEvent, Accepts(s, e),
         NEW i \in DOMAIN s
  PROVE  s[i] # e
<1> DEFINE n == Len(s)
<1>1. n \in Nat \ {0} /\ DOMAIN s = 1..n /\ s # <<>> /\ i \in 1..n
  BY DEF AcceptedChain
<1>2. \A j \in 1..n : s[j] \in LoopEvent
  BY <1>1
<1>3. SUFFICES ASSUME s[i] = e PROVE FALSE
  OBVIOUS
<1>4. <<e.transition, e.status>> \in AllowedTransitions(Status(s)) /\ Status(s) = s[n].status
  BY <1>1 DEF Accepts, Status
<1>5. s[n].status \in Statuses /\ Status(s) # NULL
  BY <1>1, <1>2, <1>4, DecisionAssumptions DEF LoopEvent
<1>6. CASE e.transition = "retry-authorized"
  <2>1. e.attempt = Attempt(s) + 1 /\ e.attempt \in Nat
    BY <1>6 DEF Accepts, AttemptFollows, LoopEvent, MaxAttempt
  <2>2. s[n].attempt \in Nat /\ Attempt(s) = s[n].attempt
    BY <1>1, <1>2 DEF Attempt, LoopEvent, MaxAttempt
  <2>3. e.attempt <= Attempt(s)
    BY <1>3, AttemptsGrow
  <2> QED BY <2>1, <2>2, <2>3
<1>7. CASE e.transition \in {"validation-recorded", "awaiting-human-review"}
  <2>1. e.binding # NULL /\ e.binding.run \notin SeenEvidence(s)
    BY <1>7 DEF Accepts, EvidenceFits
  <2> QED BY <1>3, <2>1 DEF SeenEvidence
<1>8. CASE e.transition = "stopped"
  <2>1. e.status = "stopped"
    BY <1>4, <1>5, <1>8 DEF AllowedTransitions
  <2>2. AllowedTransitions("stopped") = {}
    BY DecisionAssumptions DEF AllowedTransitions, Statuses, Terminal
  <2>3. CASE i = n
    BY <1>3, <1>4, <2>1, <2>2, <2>3
  <2>4. CASE i # n
    <3>1. i + 1 \in 2..n /\ (i + 1) - 1 = i
      BY <1>1, <2>4
    <3>2. Accepts(SubSeq(s, 1, i), s[i+1]) /\ Status(SubSeq(s, 1, i)) = s[i].status
      BY <3>1, LastOfPrefix DEF AcceptedChain
    <3> QED BY <1>3, <2>1, <2>2, <3>2 DEF Accepts
  <2> QED BY <2>3, <2>4
<1>9. e.transition \in {"retry-authorized", "validation-recorded", "awaiting-human-review", "stopped"}
  BY <1>4, <1>5 DEF AllowedTransitions
<1> QED BY <1>6, <1>7, <1>8, <1>9
=============================================================================
