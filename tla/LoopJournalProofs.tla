-------------------------- MODULE LoopJournalProofs --------------------------
(***************************************************************************)
(* Proofs about LoopJournal, for every set of processes and every rule     *)
(* Admissible: what is on disk was accepted in its place, and what an      *)
(* append returned survives whatever happens later.                        *)
(***************************************************************************)
EXTENDS LoopJournal, FiniteSetTheorems, TLAPS

Event == {First} \union Payloads

(* What is needed of a call at each of its steps.                          *)
StepFacts ==
  \A w \in Writers :
    /\ pc[w] \notin {"idle", "kept"} => payload[w] \in Payloads /\ calls[w] \in 1..MaxCalls
    /\ pc[w] \in {"checked", "written"} => Admissible(base[w], payload[w])
    /\ pc[w] = "synced" => durable = Len(chain)
    /\ pc[w] \in {"cleaning", "removed"} => faults >= 1

(* What a reader knows while it lists the directory.                       *)
ReaderFacts ==
  \A r \in Readers : rpc[r] = "listing" =>
    from[r] \in 1..Len(chain) /\ low[r] \subseteq 1..from[r]

JournalInv ==
  /\ TypeOK /\ WriterIsCurrent /\ StepFacts /\ KeptAfterTwoFailures
  /\ ChainAccepted /\ AcknowledgedIsDurable
  /\ ReaderFacts /\ ReadsAcknowledged

LEMMA SeqFacts ==
  ASSUME NEW S, NEW s \in Seq(S), NEW e \in S
  PROVE  /\ Append(s, e) \in Seq(S) /\ Append(s, e) # <<>>
         /\ Len(Append(s, e)) = Len(s) + 1 /\ Len(s) \in Nat
         /\ \A i \in 1..Len(s) : Append(s, e)[i] = s[i]
         /\ Append(s, e)[Len(s) + 1] = e
         /\ \A k \in 0..Len(s) :
              /\ SubSeq(Append(s, e), 1, k) = SubSeq(s, 1, k)
              /\ SubSeq(s, 1, k) \in Seq(S) /\ Len(SubSeq(s, 1, k)) = k
              /\ \A i \in 1..k : SubSeq(s, 1, k)[i] = s[i]
              /\ \A j \in 0..k : SubSeq(SubSeq(s, 1, k), 1, j) = SubSeq(s, 1, j)
         /\ SubSeq(s, 1, Len(s)) = s
<1>1. Append(s, e) \in Seq(S) /\ Len(Append(s, e)) = Len(s) + 1 /\ Len(s) \in Nat
  OBVIOUS
<1>2. Append(s, e) # <<>>
  BY <1>1
<1>3. \A i \in 1..Len(s) : Append(s, e)[i] = s[i]
  OBVIOUS
<1>4. Append(s, e)[Len(s) + 1] = e
  OBVIOUS
<1>5. ASSUME NEW k \in 0..Len(s)
      PROVE  /\ SubSeq(Append(s, e), 1, k) = SubSeq(s, 1, k)
             /\ SubSeq(s, 1, k) \in Seq(S) /\ Len(SubSeq(s, 1, k)) = k
             /\ \A i \in 1..k : SubSeq(s, 1, k)[i] = s[i]
             /\ \A j \in 0..k : SubSeq(SubSeq(s, 1, k), 1, j) = SubSeq(s, 1, j)
  <2>1. SubSeq(Append(s, e), 1, k) = SubSeq(s, 1, k)
    OBVIOUS
  <2>2. SubSeq(s, 1, k) \in Seq(S) /\ Len(SubSeq(s, 1, k)) = k
    OBVIOUS
  <2>3. \A i \in 1..k : SubSeq(s, 1, k)[i] = s[i]
    OBVIOUS
  <2>4. \A j \in 0..k : SubSeq(SubSeq(s, 1, k), 1, j) = SubSeq(s, 1, j)
    OBVIOUS
  <2> QED BY <2>1, <2>2, <2>3, <2>4
<1>6. SubSeq(s, 1, Len(s)) = s
  OBVIOUS
<1> QED BY <1>1, <1>2, <1>3, <1>4, <1>5, <1>6

(* The listing of an accepted read is a prefix of the chain.               *)
LEMMA ListedPrefix ==
  ASSUME NEW n \in Nat, NEW k \in 1..n, NEW later \in SUBSET ((k + 1)..n),
         1..k \union later = 1..Cardinality(1..k \union later)
  PROVE  Cardinality(1..k \union later) \in k..n
<1> DEFINE names == 1..k \union later
<1>1. names \subseteq 1..n
  OBVIOUS
<1>2. IsFiniteSet(names) /\ Cardinality(names) \in Nat
  <2>1. IsFiniteSet(1..n)
    BY FS_Interval
  <2>2. IsFiniteSet(names)
    BY <1>1, <2>1, FS_Subset
  <2> QED BY <2>2, FS_CardinalityType
<1>3. ASSUME NEW m \in Nat, names = 1..m PROVE m \in k..n
  <2>1. k \in 1..m
    BY <1>3
  <2>2. m \in 1..n
    BY <1>1, <1>3, <2>1
  <2> QED BY <2>1, <2>2
<1> QED BY <1>2, <1>3

LEMMA InitInv == Init => JournalInv
<1> SUFFICES ASSUME Init PROVE JournalInv
  OBVIOUS
<1>1. chain \in Seq({First} \union Payloads) /\ Len(chain) = 1 /\ chain # <<>>
  BY DEF Init
<1>2. TypeOK
  BY <1>1, JournalAssumption DEF Init, TypeOK, WriterSteps
<1>3. WriterIsCurrent /\ StepFacts /\ KeptAfterTwoFailures
  BY JournalAssumption DEF Init, WriterIsCurrent, StepFacts, KeptAfterTwoFailures
<1>4. ChainAccepted /\ AcknowledgedIsDurable
  BY <1>1 DEF Init, ChainAccepted, AcknowledgedIsDurable
<1>5. ReaderFacts /\ ReadsAcknowledged
  BY DEF Init, ReaderFacts, ReadsAcknowledged
<1> QED BY <1>2, <1>3, <1>4, <1>5 DEF JournalInv

-----------------------------------------------------------------------------
(***************************************************************************)
(* One lemma for each kind of step.                                        *)
(***************************************************************************)
Frozen == UNCHANGED <<chain, durable, acked>> /\ UNCHANGED reader

LEMMA FrozenStep ==
  ASSUME JournalInv, Frozen
  PROVE  ChainAccepted' /\ AcknowledgedIsDurable' /\ ReaderFacts' /\ ReadsAcknowledged'
<1>1. ChainAccepted' /\ AcknowledgedIsDurable'
  BY DEF JournalInv, Frozen, ChainAccepted, AcknowledgedIsDurable
<1>2. ReaderFacts' /\ ReadsAcknowledged'
  BY DEF JournalInv, Frozen, reader, ReaderFacts, ReadsAcknowledged
<1> QED BY <1>1, <1>2

LEMMA AcquireStep ==
  ASSUME JournalInv, NEW w \in Writers, NEW p \in Payloads, Acquire(w, p)
  PROVE  JournalInv'
<1> USE DEF Acquire, disk, reader
<1>1. calls[w] \in Nat /\ calls[w] + 1 \in 1..MaxCalls
  BY JournalAssumption DEF JournalInv, TypeOK
<1>2. /\ calls' \in [Writers -> 0..MaxCalls] /\ calls'[w] \in 1..MaxCalls
      /\ \A x \in Writers \ {w} : calls'[x] = calls[x]
  BY <1>1 DEF JournalInv, TypeOK
<1>3. /\ payload' \in [Writers -> Payloads \union {NULL}] /\ payload'[w] = p
      /\ \A x \in Writers \ {w} : payload'[x] = payload[x]
  BY DEF JournalInv, TypeOK
<1>4. /\ pc' \in [Writers -> WriterSteps] /\ pc'[w] = "locked"
      /\ \A x \in Writers \ {w} : pc'[x] = pc[x]
  BY DEF JournalInv, TypeOK, WriterSteps
<1>5. TypeOK'
  BY <1>2, <1>3, <1>4 DEF JournalInv, TypeOK
<1>6. WriterIsCurrent'
  BY <1>4, JournalAssumption DEF JournalInv, WriterIsCurrent
<1>7. StepFacts'
  <2>1. \A x \in Writers : pc'[x] # "idle" => x = w
    BY <1>4, JournalAssumption DEF JournalInv, WriterIsCurrent
  <2> QED BY <1>2, <1>3, <1>4, <2>1 DEF StepFacts
<1>8. KeptAfterTwoFailures'
  BY <1>4 DEF JournalInv, KeptAfterTwoFailures
<1>9. Frozen
  BY DEF Frozen
<1> QED BY <1>5, <1>6, <1>7, <1>8, <1>9, FrozenStep DEF JournalInv

(* A call that ends, or one whose process dies, leaves the chain alone.    *)
LEMMA ReturnFacts ==
  ASSUME JournalInv, NEW w \in Writers, pc[w] # "idle", Return(w)
  PROVE  /\ lock = w /\ lock' = NULL
         /\ pc' \in [Writers -> WriterSteps] /\ pc'[w] = "idle"
         /\ payload' \in [Writers -> Payloads \union {NULL}]
         /\ base' \in [Writers -> Seq({First} \union Payloads)]
         /\ \A x \in Writers \ {w} : pc'[x] = "idle" /\ pc[x] = "idle"
<1>1. lock = w
  BY DEF JournalInv, WriterIsCurrent
<1>2. \A x \in Writers \ {w} : pc[x] = "idle"
  BY <1>1 DEF JournalInv, WriterIsCurrent
<1>3. pc' \in [Writers -> WriterSteps] /\ pc'[w] = "idle" /\ \A x \in Writers \ {w} : pc'[x] = pc[x]
  BY DEF JournalInv, TypeOK, WriterSteps, Return
<1>4. payload' \in [Writers -> Payloads \union {NULL}] /\ base' \in [Writers -> Seq({First} \union Payloads)]
  <2>1. <<>> \in Seq({First} \union Payloads)
    OBVIOUS
  <2> QED BY <2>1 DEF JournalInv, TypeOK, Return
<1> QED BY <1>1, <1>2, <1>3, <1>4 DEF Return

LEMMA ReturnStep ==
  ASSUME JournalInv, NEW w \in Writers, pc[w] # "idle", Return(w), Frozen,
         calls' = calls, temps' \subseteq Writers \X (1..MaxCalls),
         faults' \in 0..MaxFaults, losses' = losses
  PROVE  JournalInv'
<1>1. TypeOK'
  <2>2. calls' = calls /\ chain' = chain /\ durable' = durable /\ acked' = acked
    BY DEF Frozen
  <2>3. rpc' = rpc /\ from' = from /\ low' = low /\ view' = view
    BY DEF Frozen, reader
  <2>4. losses' \in 0..MaxPowerLosses /\ lock' \in Writers \union {NULL}
    BY ReturnFacts DEF JournalInv, TypeOK
  <2> QED BY ReturnFacts, <2>2, <2>3, <2>4 DEF JournalInv, TypeOK
<1>2. \A x \in Writers : pc'[x] = "idle" /\ lock' # x
  BY ReturnFacts, JournalAssumption
<1>3. WriterIsCurrent' /\ StepFacts' /\ KeptAfterTwoFailures'
  BY <1>2 DEF WriterIsCurrent, StepFacts, KeptAfterTwoFailures
<1> QED BY <1>1, <1>3, FrozenStep DEF JournalInv

(* Steps of a call that keep the lock and leave the chain alone.           *)
LEMMA HoldStep ==
  ASSUME JournalInv, NEW w \in Writers, lock = w, Frozen, UNCHANGED <<lock, calls, losses>>,
         NEW next \in WriterSteps, next # "idle", pc' = [pc EXCEPT ![w] = next],
         temps' \subseteq Writers \X (1..MaxCalls), faults' \in faults..MaxFaults
  PROVE  /\ pc' \in [Writers -> WriterSteps] /\ pc'[w] = next
         /\ \A x \in Writers \ {w} : pc[x] = "idle" /\ pc'[x] = "idle"
         /\ (payload' \in [Writers -> Payloads \union {NULL}]
             /\ base' \in [Writers -> Seq({First} \union Payloads)] => TypeOK')
         /\ KeptAfterTwoFailures' <=> (next = "kept" => faults' >= 2)
<1>1. /\ pc' \in [Writers -> WriterSteps] /\ pc'[w] = next
      /\ \A x \in Writers \ {w} : pc'[x] = pc[x] /\ pc[x] = "idle"
  BY DEF JournalInv, TypeOK, WriterIsCurrent
<1>2. faults' \in 0..MaxFaults
  BY JournalAssumption DEF JournalInv, TypeOK
<1>3. ASSUME payload' \in [Writers -> Payloads \union {NULL}],
             base' \in [Writers -> Seq({First} \union Payloads)]
      PROVE  TypeOK'
  <2>1. /\ chain' = chain /\ durable' = durable /\ acked' = acked
        /\ rpc' = rpc /\ from' = from /\ low' = low /\ view' = view
    BY DEF Frozen, reader
  <2> QED BY <1>1, <1>2, <1>3, <2>1 DEF JournalInv, TypeOK
<1>4. KeptAfterTwoFailures' <=> (next = "kept" => faults' >= 2)
  BY <1>1 DEF KeptAfterTwoFailures
<1> QED BY <1>1, <1>3, <1>4

LEMMA ReadStep ==
  ASSUME JournalInv, NEW w \in Writers, ReadAndCheck(w)
  PROVE  JournalInv'
<1> USE DEF ReadAndCheck, disk, reader
<1>1. Frozen
  BY DEF Frozen
<1>2. CASE Admissible(chain, payload[w])
  <2>1. /\ base' \in [Writers -> Seq({First} \union Payloads)] /\ base'[w] = chain
        /\ pc' \in [Writers -> WriterSteps] /\ pc'[w] = "checked"
        /\ \A x \in Writers \ {w} : base'[x] = base[x] /\ pc'[x] = pc[x]
    BY <1>2 DEF JournalInv, TypeOK, WriterSteps
  <2>2. TypeOK'
    BY <1>2, <2>1 DEF JournalInv, TypeOK
  <2>3. WriterIsCurrent'
    BY <1>2 DEF JournalInv, TypeOK, WriterIsCurrent
  <2>4. StepFacts' /\ KeptAfterTwoFailures'
    BY <1>2 DEF JournalInv, TypeOK, StepFacts, KeptAfterTwoFailures
  <2> QED BY <1>1, <2>2, <2>3, <2>4, FrozenStep DEF JournalInv
<1>3. CASE ~Admissible(chain, payload[w])
  <2>1. Return(w) /\ calls' = calls /\ temps' = temps /\ faults' = faults /\ losses' = losses
    BY <1>3
  <2>2. pc[w] # "idle" /\ faults \in 0..MaxFaults /\ temps \subseteq Writers \X (1..MaxCalls)
    BY DEF JournalInv, TypeOK
  <2> QED BY <1>1, <2>1, <2>2, ReturnStep
<1> QED BY <1>2, <1>3

LEMMA WriteStep ==
  ASSUME JournalInv, NEW w \in Writers, WriteTemp(w)
  PROVE  JournalInv'
<1> USE DEF WriteTemp, reader
<1>1. Frozen
  BY DEF Frozen
<1>2. Token(w) \in Writers \X (1..MaxCalls)
  BY DEF JournalInv, StepFacts, Token
<1>3. TypeOK'
  BY <1>2 DEF JournalInv, TypeOK, WriterSteps
<1>4. WriterIsCurrent'
  BY DEF JournalInv, TypeOK, WriterIsCurrent
<1>5. StepFacts' /\ KeptAfterTwoFailures'
  BY DEF JournalInv, TypeOK, StepFacts, KeptAfterTwoFailures
<1> QED BY <1>1, <1>3, <1>4, <1>5, FrozenStep DEF JournalInv

(* Publication extends the chain by the checked event, in its place.       *)
LEMMA PublishStep ==
  ASSUME JournalInv, NEW w \in Writers, Publish(w)
  PROVE  JournalInv'
<1> DEFINE n == Len(chain)
<1>1. pc[w] = "written" /\ chain = base[w] /\ lock = w
  BY DEF Publish, JournalInv, WriterIsCurrent
<1>2. payload[w] \in Payloads /\ Admissible(chain, payload[w]) /\ calls[w] \in 1..MaxCalls
  BY <1>1 DEF JournalInv, StepFacts
<1>3. chain \in Seq({First} \union Payloads) /\ n \in Nat \ {0} /\ DOMAIN chain = 1..n
  BY DEF JournalInv, TypeOK
<1>4. Len(base[w]) + 1 \notin DOMAIN chain
  BY <1>1, <1>3
<1>5. /\ chain' = Append(chain, payload[w])
      /\ pc' = [pc EXCEPT ![w] = "published"] /\ lock' = lock
      /\ temps' \subseteq temps
      /\ UNCHANGED <<durable, payload, base, calls, acked, reader, faults, losses>>
  BY <1>4 DEF Publish
<1>6. /\ chain' \in Seq({First} \union Payloads) /\ chain' # <<>> /\ Len(chain') = n + 1
      /\ \A i \in 1..n : chain'[i] = chain[i]
      /\ chain'[n+1] = payload[w]
      /\ \A k \in 0..n : SubSeq(chain', 1, k) = SubSeq(chain, 1, k)
      /\ SubSeq(chain, 1, n) = chain
  BY <1>2, <1>3, <1>5, SeqFacts
<1>7. /\ pc' \in [Writers -> WriterSteps] /\ pc'[w] = "published"
      /\ \A x \in Writers \ {w} : pc'[x] = pc[x]
  BY <1>5 DEF JournalInv, TypeOK, WriterSteps
<1>8. TypeOK'
  <2>1. durable' \in 1..Len(chain')
    BY <1>3, <1>5, <1>6 DEF JournalInv, TypeOK
  <2>2. temps' \subseteq Writers \X (1..MaxCalls)
    BY <1>5 DEF JournalInv, TypeOK
  <2>3. rpc' = rpc /\ from' = from /\ low' = low /\ view' = view
    BY <1>5 DEF reader
  <2> QED BY <1>5, <1>6, <1>7, <2>1, <2>2, <2>3 DEF JournalInv, TypeOK
<1>9. WriterIsCurrent'
  BY <1>1, <1>5, <1>7 DEF JournalInv, TypeOK, WriterIsCurrent
<1>10. StepFacts'
  <2>1. \A x \in Writers \ {w} : pc'[x] = "idle"
    BY <1>1, <1>7 DEF JournalInv, WriterIsCurrent
  <2>2. pc'[w] = "published" /\ payload'[w] \in Payloads /\ calls'[w] \in 1..MaxCalls
    BY <1>2, <1>5, <1>7
  <2> QED BY <2>1, <2>2 DEF StepFacts
<1>15. KeptAfterTwoFailures'
  BY <1>5, <1>7 DEF JournalInv, KeptAfterTwoFailures
<1>11. ChainAccepted'
  <2> SUFFICES ASSUME NEW i \in 2..(n+1)
               PROVE  Admissible(SubSeq(chain', 1, i - 1), chain'[i])
    BY <1>6 DEF ChainAccepted
  <2>1. SubSeq(chain', 1, i - 1) = SubSeq(chain, 1, i - 1)
    BY <1>3, <1>6
  <2>2. CASE i = n + 1
    <3>1. SubSeq(chain', 1, i - 1) = chain /\ chain'[i] = payload[w]
      BY <1>3, <1>6, <2>1, <2>2
    <3> QED BY <1>2, <3>1
  <2>3. CASE i \in 2..n
    <3>1. chain'[i] = chain[i] /\ Admissible(SubSeq(chain, 1, i - 1), chain[i])
      BY <1>3, <1>6, <2>3 DEF JournalInv, ChainAccepted
    <3> QED BY <2>1, <3>1
  <2> QED BY <1>3, <2>2, <2>3
<1>12. AcknowledgedIsDurable'
  BY <1>5 DEF JournalInv, AcknowledgedIsDurable
<1>13. ReaderFacts'
  <2>1. rpc' = rpc /\ from' = from /\ low' = low
    BY <1>5 DEF reader
  <2>2. 1..n \subseteq 1..Len(chain')
    BY <1>3, <1>6
  <2> QED BY <2>1, <2>2 DEF JournalInv, ReaderFacts
<1>14. ReadsAcknowledged'
  <2> SUFFICES ASSUME NEW r \in Readers, rpc'[r] = "accepted"
               PROVE  /\ Len(view'[r]) <= Len(chain') /\ view'[r] = SubSeq(chain', 1, Len(view'[r]))
                      /\ low'[r] \subseteq DOMAIN view'[r]
    BY DEF ReadsAcknowledged
  <2>1. rpc' = rpc /\ low' = low /\ view' = view
    BY <1>5 DEF reader
  <2>2. Len(view[r]) <= n /\ view[r] = SubSeq(chain, 1, Len(view[r])) /\ low[r] \subseteq DOMAIN view[r]
    BY <2>1 DEF JournalInv, ReadsAcknowledged
  <2>3. Len(view[r]) \in 0..n
    BY <1>3, <2>2 DEF JournalInv, TypeOK
  <2> QED BY <1>6, <2>1, <2>2, <2>3
<1> QED BY <1>8, <1>9, <1>10, <1>11, <1>12, <1>13, <1>14, <1>15 DEF JournalInv

LEMMA SyncStep ==
  ASSUME JournalInv, NEW w \in Writers, SyncDirectory(w)
  PROVE  JournalInv'
<1> USE DEF SyncDirectory, reader
<1>1. Len(chain) \in Nat \ {0} /\ durable <= Len(chain)
  BY DEF JournalInv, TypeOK
<1>2. /\ pc' \in [Writers -> WriterSteps] /\ pc'[w] = "synced"
      /\ \A x \in Writers \ {w} : pc'[x] = pc[x]
  BY DEF JournalInv, TypeOK, WriterSteps
<1>3. TypeOK'
  BY <1>1, <1>2 DEF JournalInv, TypeOK
<1>4. WriterIsCurrent'
  BY <1>2 DEF JournalInv, WriterIsCurrent
<1>5. StepFacts' /\ KeptAfterTwoFailures'
  BY <1>2 DEF JournalInv, StepFacts, KeptAfterTwoFailures
<1>6. ChainAccepted' /\ ReaderFacts' /\ ReadsAcknowledged'
  BY DEF JournalInv, ChainAccepted, ReaderFacts, ReadsAcknowledged
<1>7. AcknowledgedIsDurable'
  BY <1>1 DEF JournalInv, TypeOK, AcknowledgedIsDurable
<1> QED BY <1>3, <1>4, <1>5, <1>6, <1>7 DEF JournalInv

(* An acknowledged event is the last of the chain, and that is synced.     *)
LEMMA AcknowledgeStep ==
  ASSUME JournalInv, NEW w \in Writers, Acknowledge(w)
  PROVE  JournalInv'
<1> USE DEF Acknowledge, disk, reader
<1>1. durable = Len(chain) /\ chain = Append(base[w], payload[w])
  BY DEF JournalInv, StepFacts, WriterIsCurrent
<1>2. base[w] \in Seq({First} \union Payloads) /\ payload[w] \in Payloads
  BY DEF JournalInv, TypeOK, StepFacts
<1>3. Len(base[w]) \in Nat /\ Len(chain) = Len(base[w]) + 1
  BY <1>1, <1>2, SeqFacts
<1>4. acked' = acked \union {Len(base[w]) + 1} /\ Return(w) /\ pc[w] # "idle"
  OBVIOUS
<1>5. TypeOK'
  <2>1. acked' \subseteq Nat \ {0}
    <3>1. acked \subseteq Nat \ {0}
      BY DEF JournalInv, TypeOK
    <3>2. Len(base[w]) + 1 \in Nat \ {0}
      BY <1>3
    <3> HIDE DEF Acknowledge
    <3> QED BY <1>4, <3>1, <3>2
  <2>2. lock' \in Writers \union {NULL}
    BY <1>4, ReturnFacts
  <2> QED BY <1>4, <2>1, <2>2, ReturnFacts DEF JournalInv, TypeOK
<1>6. \A x \in Writers : pc'[x] = "idle" /\ lock' # x
  BY <1>4, ReturnFacts, JournalAssumption
<1>7. WriterIsCurrent' /\ StepFacts' /\ KeptAfterTwoFailures'
  BY <1>6 DEF WriterIsCurrent, StepFacts, KeptAfterTwoFailures
<1>8. ChainAccepted' /\ ReaderFacts' /\ ReadsAcknowledged'
  BY DEF JournalInv, ChainAccepted, ReaderFacts, ReadsAcknowledged
<1>9. AcknowledgedIsDurable'
  BY <1>1, <1>3 DEF JournalInv, AcknowledgedIsDurable
<1> QED BY <1>5, <1>7, <1>8, <1>9 DEF JournalInv

(* Steps that end a call, or a process, and give the lock up.              *)
LEMMA EndStep ==
  ASSUME JournalInv, NEW w \in Writers,
         FailWrite(w) \/ SyncRemoval(w) \/ EndProcess(w) \/ Kill(w)
         \/ (Fail(w) /\ pc[w] # "written")
  PROVE  JournalInv'
<1>1. pc[w] # "idle" /\ Return(w) /\ Frozen /\ losses' = losses /\ calls' = calls
  BY DEF Fail, FailWrite, SyncRemoval, EndProcess, Kill, Working, Frozen, disk
<1>2. temps' \subseteq Writers \X (1..MaxCalls)
  <2>1. temps \subseteq Writers \X (1..MaxCalls)
    BY DEF JournalInv, TypeOK
  <2>2. FailWrite(w) => Token(w) \in Writers \X (1..MaxCalls)
    BY DEF JournalInv, StepFacts, FailWrite, Token
  <2> QED BY <2>1, <2>2 DEF Fail, FailWrite, SyncRemoval, EndProcess, Kill, disk
<1>3. faults' \in 0..MaxFaults
  <2>1. faults \in 0..MaxFaults /\ MaxFaults \in Nat
    BY JournalAssumption DEF JournalInv, TypeOK
  <2> QED BY <2>1 DEF Fail, FailWrite, SyncRemoval, EndProcess, Kill
<1> QED BY <1>1, <1>2, <1>3, ReturnStep

(* Steps of the finally block that still hold the lock, or keep it.        *)
LEMMA CleanStep ==
  ASSUME JournalInv, NEW w \in Writers,
         RemoveTemp(w) \/ FailCleanUp(w) \/ (Fail(w) /\ pc[w] = "written")
  PROVE  JournalInv'
<1> DEFINE next == IF RemoveTemp(w) THEN "removed" ELSE
                   IF FailCleanUp(w) THEN "kept" ELSE "cleaning"
<1>1. /\ next \in WriterSteps /\ next # "idle" /\ pc' = [pc EXCEPT ![w] = next]
      /\ Frozen /\ UNCHANGED <<lock, calls, losses>>
  BY DEF RemoveTemp, FailCleanUp, Fail, WriterSteps, Working, Frozen, disk
<1>2. lock = w
  BY DEF RemoveTemp, FailCleanUp, Fail, JournalInv, WriterIsCurrent
<1>3. temps' \subseteq Writers \X (1..MaxCalls)
  BY DEF RemoveTemp, FailCleanUp, Fail, JournalInv, TypeOK, disk
<1>4. faults \in Nat /\ MaxFaults \in Nat /\ faults' \in faults..MaxFaults
  <2>1. faults \in 0..MaxFaults /\ MaxFaults \in Nat
    BY JournalAssumption DEF JournalInv, TypeOK
  <2> QED BY <2>1 DEF RemoveTemp, FailCleanUp, Fail
<1>5. /\ payload' \in [Writers -> Payloads \union {NULL}]
      /\ base' \in [Writers -> Seq({First} \union Payloads)]
      /\ next # "kept" => payload' = payload /\ base' = base
  <2>1. <<>> \in Seq({First} \union Payloads)
    OBVIOUS
  <2> QED BY <2>1 DEF RemoveTemp, FailCleanUp, Fail, JournalInv, TypeOK
<1>6. next = "removed" => pc[w] = "cleaning" /\ faults' >= 1
  BY <1>4 DEF RemoveTemp, JournalInv, StepFacts
<1>7. next = "kept" => faults' >= 2
  <2>1. FailCleanUp(w) => faults >= 1 /\ faults' = faults + 1
    BY DEF FailCleanUp, JournalInv, StepFacts
  <2> QED BY <1>4, <2>1
<1>8. next = "cleaning" => pc[w] = "written" /\ faults' >= 1
  BY <1>4 DEF Fail
<1>9. next \in {"removed", "kept", "cleaning"}
  OBVIOUS
<1> HIDE DEF next
<1>10. /\ pc' \in [Writers -> WriterSteps] /\ pc'[w] = next
       /\ \A x \in Writers \ {w} : pc[x] = "idle" /\ pc'[x] = "idle"
       /\ TypeOK' /\ KeptAfterTwoFailures'
  BY <1>1, <1>2, <1>3, <1>4, <1>5, <1>7, HoldStep
<1>11. WriterIsCurrent'
  <2>1. next # "kept" => chain' = base'[w]
    BY <1>1, <1>5, <1>6, <1>8, <1>9 DEF JournalInv, WriterIsCurrent, Frozen
  <2>2. \A x \in Writers \ {w} : lock' # x
    BY <1>1, <1>2
  <2> QED BY <1>1, <1>2, <1>9, <1>10, <2>1, <2>2 DEF WriterIsCurrent
<1>12. StepFacts'
  <2>1. next # "kept" => payload'[w] \in Payloads /\ calls'[w] \in 1..MaxCalls
    BY <1>1, <1>5, <1>6, <1>8, <1>9 DEF JournalInv, StepFacts
  <2>2. next # "kept" => faults' >= 1
    BY <1>6, <1>8, <1>9
  <2> QED BY <1>9, <1>10, <2>1, <2>2 DEF StepFacts
<1> QED BY <1>1, <1>10, <1>11, <1>12, FrozenStep DEF JournalInv

LEMMA BreakStep ==
  ASSUME JournalInv, NEW w \in Writers, Break(w) \/ RemoveTemp(w) \/ SyncRemoval(w)
  PROVE  JournalInv'
BY EndStep, CleanStep DEF Break

(* A power loss keeps all that was synced, so all that was acknowledged.   *)
LEMMA PowerLossStep ==
  ASSUME JournalInv, PowerLoss
  PROVE  JournalInv'
<1>1. chain \in Seq({First} \union Payloads) /\ Len(chain) \in Nat \ {0} /\ durable \in 1..Len(chain)
  BY DEF JournalInv, TypeOK
<1>2. PICK k \in durable..Len(chain) : chain' = SubSeq(chain, 1, k) /\ durable' = k
  BY DEF PowerLoss
<1>3. chain[1] \in {First} \union Payloads
  BY <1>1
<1>4. /\ k \in 1..Len(chain)
      /\ chain' \in Seq({First} \union Payloads) /\ Len(chain') = k
      /\ \A i \in 1..k : chain'[i] = chain[i]
      /\ \A j \in 0..k : SubSeq(chain', 1, j) = SubSeq(chain, 1, j)
  BY <1>1, <1>2, <1>3, SeqFacts
<1>5. /\ lock' = NULL /\ pc' = [w \in Writers |-> "idle"] /\ temps' \subseteq temps
      /\ rpc' = [r \in Readers |-> "idle"] /\ view' = [r \in Readers |-> <<>>]
      /\ payload' = [w \in Writers |-> NULL] /\ base' = [w \in Writers |-> <<>>]
      /\ UNCHANGED <<calls, acked, from, low, faults>>
      /\ losses' = losses + 1 /\ losses < MaxPowerLosses
  BY DEF PowerLoss
<1>6. TypeOK'
  <2>1. chain' # <<>> /\ durable' \in 1..Len(chain')
    BY <1>2, <1>4
  <2>2. losses' \in 0..MaxPowerLosses
    BY <1>5, JournalAssumption DEF JournalInv, TypeOK
  <2>3. /\ pc' \in [Writers -> WriterSteps] /\ lock' \in Writers \union {NULL}
        /\ rpc' \in [Readers -> {"idle", "listing", "accepted", "refused"}]
        /\ view' \in [Readers -> Seq({First} \union Payloads)]
        /\ payload' \in [Writers -> Payloads \union {NULL}]
        /\ base' \in [Writers -> Seq({First} \union Payloads)]
        /\ temps' \subseteq Writers \X (1..MaxCalls)
    BY <1>5 DEF JournalInv, TypeOK, WriterSteps
  <2> QED BY <1>4, <1>5, <2>1, <2>2, <2>3 DEF JournalInv, TypeOK
<1>7. WriterIsCurrent' /\ StepFacts' /\ KeptAfterTwoFailures'
  BY <1>5, JournalAssumption DEF WriterIsCurrent, StepFacts, KeptAfterTwoFailures
<1>8. ChainAccepted'
  <2> SUFFICES ASSUME NEW i \in 2..k
               PROVE  Admissible(SubSeq(chain', 1, i - 1), chain'[i])
    BY <1>4 DEF ChainAccepted
  <2>1. SubSeq(chain', 1, i - 1) = SubSeq(chain, 1, i - 1) /\ chain'[i] = chain[i]
    BY <1>4
  <2>2. Admissible(SubSeq(chain, 1, i - 1), chain[i])
    BY <1>4 DEF JournalInv, ChainAccepted
  <2> QED BY <2>1, <2>2
<1>9. AcknowledgedIsDurable'
  BY <1>1, <1>2, <1>4, <1>5 DEF JournalInv, TypeOK, AcknowledgedIsDurable
<1>10. ReaderFacts' /\ ReadsAcknowledged'
  BY <1>5 DEF ReaderFacts, ReadsAcknowledged
<1> QED BY <1>6, <1>7, <1>8, <1>9, <1>10 DEF JournalInv

LEMMA BeginReadStep ==
  ASSUME JournalInv, NEW r \in Readers, BeginRead(r)
  PROVE  JournalInv'
<1> USE DEF BeginRead, disk, writer
<1>1. Len(chain) \in Nat \ {0} /\ acked \subseteq 1..Len(chain)
  BY DEF JournalInv, TypeOK, AcknowledgedIsDurable
<1>2. /\ from' \in [Readers -> Nat] /\ from'[r] = Len(chain)
      /\ low' \in [Readers -> SUBSET (Nat \ {0})] /\ low'[r] = acked
      /\ rpc' \in [Readers -> {"idle", "listing", "accepted", "refused"}] /\ rpc'[r] = "listing"
      /\ view' \in [Readers -> Seq({First} \union Payloads)]
      /\ \A q \in Readers \ {r} :
           from'[q] = from[q] /\ low'[q] = low[q] /\ rpc'[q] = rpc[q] /\ view'[q] = view[q]
  BY <1>1 DEF JournalInv, TypeOK
<1>3. TypeOK'
  BY <1>2 DEF JournalInv, TypeOK
<1>4. WriterIsCurrent' /\ StepFacts' /\ KeptAfterTwoFailures' /\ ChainAccepted'
       /\ AcknowledgedIsDurable'
  BY DEF JournalInv, WriterIsCurrent, StepFacts, KeptAfterTwoFailures, ChainAccepted,
         AcknowledgedIsDurable
<1>5. ReaderFacts'
  <2> SUFFICES ASSUME NEW q \in Readers, rpc'[q] = "listing"
               PROVE  from'[q] \in 1..Len(chain') /\ low'[q] \subseteq 1..from'[q]
    BY DEF ReaderFacts
  <2>1. CASE q = r
    <3>1. from'[q] = Len(chain) /\ low'[q] = acked /\ chain' = chain
      BY <1>2, <2>1
    <3> HIDE DEF BeginRead
    <3> QED BY <1>1, <3>1
  <2>2. CASE q # r
    BY <1>2, <2>2 DEF JournalInv, ReaderFacts
  <2> QED BY <2>1, <2>2
<1>6. ReadsAcknowledged'
  BY <1>2 DEF JournalInv, ReadsAcknowledged
<1> QED BY <1>3, <1>4, <1>5, <1>6 DEF JournalInv

(* The heart of lock-free reading: contiguous numbers are a prefix that    *)
(* holds at least what the directory held when the listing began.          *)
LEMMA AcceptReadStep ==
  ASSUME JournalInv, NEW r \in Readers, AcceptRead(r)
  PROVE  JournalInv'
<1> USE DEF disk, writer
<1>1. /\ chain \in Seq({First} \union Payloads) /\ Len(chain) \in Nat
      /\ from[r] \in 1..Len(chain) /\ low[r] \subseteq 1..from[r]
  BY DEF AcceptRead, JournalInv, TypeOK, ReaderFacts
<1>2. PICK later \in SUBSET ((from[r] + 1)..Len(chain)) :
        /\ 1..from[r] \union later = 1..Cardinality(1..from[r] \union later)
        /\ view' = [view EXCEPT ![r] = SubSeq(chain, 1, Cardinality(1..from[r] \union later))]
  BY DEF AcceptRead
<1> DEFINE k == Cardinality(1..from[r] \union later)
<1>3. k \in from[r]..Len(chain)
  BY <1>1, <1>2, ListedPrefix
<1> HIDE DEF k
<1>4. /\ UNCHANGED <<disk, writer, from, low, faults, losses>>
      /\ rpc' = [rpc EXCEPT ![r] = "accepted"]
  BY DEF AcceptRead
<1>5. chain[1] \in {First} \union Payloads
  BY <1>1, <1>3
<1>6. SubSeq(chain, 1, k) \in Seq({First} \union Payloads) /\ Len(SubSeq(chain, 1, k)) = k
  <2>1. k \in 0..Len(chain)
    BY <1>1, <1>3
  <2> QED BY <1>1, <1>5, <2>1, SeqFacts
<1>7. /\ view' \in [Readers -> Seq({First} \union Payloads)] /\ view'[r] = SubSeq(chain, 1, k)
      /\ rpc' \in [Readers -> {"idle", "listing", "accepted", "refused"}] /\ rpc'[r] = "accepted"
      /\ \A q \in Readers \ {r} : rpc'[q] = rpc[q] /\ view'[q] = view[q]
  BY <1>2, <1>4, <1>6 DEF JournalInv, TypeOK, k
<1>8. TypeOK'
  BY <1>4, <1>7 DEF JournalInv, TypeOK
<1>9. WriterIsCurrent' /\ StepFacts' /\ KeptAfterTwoFailures' /\ ChainAccepted'
       /\ AcknowledgedIsDurable'
  BY <1>4 DEF JournalInv, WriterIsCurrent, StepFacts, KeptAfterTwoFailures, ChainAccepted,
              AcknowledgedIsDurable
<1>10. ReaderFacts'
  BY <1>4, <1>7 DEF JournalInv, ReaderFacts
<1>11. ReadsAcknowledged'
  <2> SUFFICES ASSUME NEW q \in Readers, rpc'[q] = "accepted"
               PROVE  /\ Len(view'[q]) <= Len(chain') /\ view'[q] = SubSeq(chain', 1, Len(view'[q]))
                      /\ low'[q] \subseteq DOMAIN view'[q]
    BY DEF ReadsAcknowledged
  <2>1. chain' = chain /\ low' = low
    BY <1>4
  <2>2. CASE q = r
    <3>1. view'[q] = SubSeq(chain, 1, k) /\ Len(view'[q]) = k /\ DOMAIN view'[q] = 1..k
      BY <1>6, <1>7, <2>2
    <3>2. low[q] \subseteq 1..k
      BY <1>1, <1>3, <2>2
    <3> QED BY <1>1, <1>3, <2>1, <3>1, <3>2
  <2>3. CASE q # r
    BY <1>7, <2>1, <2>3 DEF JournalInv, ReadsAcknowledged
  <2> QED BY <2>2, <2>3
<1> QED BY <1>8, <1>9, <1>10, <1>11 DEF JournalInv

LEMMA RefuseReadStep ==
  ASSUME JournalInv, NEW r \in Readers, RefuseRead(r)
  PROVE  JournalInv'
<1> USE DEF RefuseRead, disk, writer
<1>1. /\ rpc' \in [Readers -> {"idle", "listing", "accepted", "refused"}] /\ rpc'[r] = "refused"
      /\ \A q \in Readers \ {r} : rpc'[q] = rpc[q]
  BY DEF JournalInv, TypeOK
<1>2. TypeOK'
  BY <1>1 DEF JournalInv, TypeOK
<1>3. WriterIsCurrent' /\ StepFacts' /\ KeptAfterTwoFailures' /\ ChainAccepted'
       /\ AcknowledgedIsDurable'
  BY DEF JournalInv, WriterIsCurrent, StepFacts, KeptAfterTwoFailures, ChainAccepted,
         AcknowledgedIsDurable
<1>4. ReaderFacts' /\ ReadsAcknowledged'
  BY <1>1 DEF JournalInv, ReaderFacts, ReadsAcknowledged
<1> QED BY <1>2, <1>3, <1>4 DEF JournalInv

-----------------------------------------------------------------------------
LEMMA Invariance == Spec => []JournalInv
<1>1. JournalInv /\ [Next]_vars => JournalInv'
  <2> SUFFICES ASSUME JournalInv, [Next]_vars PROVE JournalInv'
    OBVIOUS
  <2>1. ASSUME NEW w \in Writers, NEW p \in Payloads, Acquire(w, p) PROVE JournalInv'
    BY <2>1, AcquireStep
  <2>2. ASSUME NEW w \in Writers, Step(w) PROVE JournalInv'
    BY <2>2, ReadStep, WriteStep, PublishStep, SyncStep, AcknowledgeStep, BreakStep DEF Step
  <2>3. ASSUME NEW w \in Writers, Break(w) PROVE JournalInv'
    BY <2>3, BreakStep
  <2>4. ASSUME NEW r \in Readers, BeginRead(r) \/ AcceptRead(r) \/ RefuseRead(r) PROVE JournalInv'
    BY <2>4, BeginReadStep, AcceptReadStep, RefuseReadStep
  <2>5. CASE UNCHANGED vars
    <3>1. Frozen /\ UNCHANGED <<temps, lock, pc, payload, base, calls, faults, losses>>
      BY <2>5 DEF vars, disk, writer, Frozen
    <3>2. TypeOK' /\ WriterIsCurrent' /\ StepFacts' /\ KeptAfterTwoFailures'
      BY <3>1 DEF Frozen, reader, JournalInv, TypeOK, WriterIsCurrent, StepFacts,
                  KeptAfterTwoFailures
    <3> QED BY <3>1, <3>2, FrozenStep DEF JournalInv
  <2> QED BY <2>1, <2>2, <2>3, <2>4, <2>5, PowerLossStep DEF Next
<1> QED BY <1>1, InitInv, PTL DEF Spec

(* Variables keep their types, whichever calls fail or are cut short.      *)
THEOREM TypeCorrect == Spec => []TypeOK
<1>1. JournalInv => TypeOK
  BY DEF JournalInv
<1> QED BY <1>1, Invariance, PTL

(* The decision to append is made on the chain the event is put behind.    *)
THEOREM WritersAreCurrent == Spec => []WriterIsCurrent
<1>1. JournalInv => WriterIsCurrent
  BY DEF JournalInv
<1> QED BY <1>1, Invariance, PTL

(* A lock that outlives its call has seen two system calls fail: that the  *)
(* name was taken, the other way into the clean-up, cannot happen under it.*)
THEOREM OneFailureNeverLocks == Spec => []KeptAfterTwoFailures
<1>1. JournalInv => KeptAfterTwoFailures
  BY DEF JournalInv
<1> QED BY <1>1, Invariance, PTL

(* Each event on disk was accepted behind the events before it.            *)
THEOREM DiskAccepted == Spec => []ChainAccepted
<1>1. JournalInv => ChainAccepted
  BY DEF JournalInv
<1> QED BY <1>1, Invariance, PTL

(* No failure, kill or power loss takes back an append that returned.      *)
THEOREM NothingAcknowledgedIsLost == Spec => []AcknowledgedIsDurable
<1>1. JournalInv => AcknowledgedIsDurable
  BY DEF JournalInv
<1> QED BY <1>1, Invariance, PTL

(* A lock-free read that is accepted is a prefix with all acknowledgements.*)
THEOREM ReadersSeeAcknowledged == Spec => []ReadsAcknowledged
<1>1. JournalInv => ReadsAcknowledged
  BY DEF JournalInv
<1> QED BY <1>1, Invariance, PTL

(* What the rule must promise for an event to be recorded once: behind a   *)
(* chain of accepted events it accepts none that the chain has already.    *)
(* replay_journal does (AgentLoopProofs!AcceptedIsNew).                    *)
AcceptsNewOnly ==
  \A s \in Seq(Event), e \in Payloads :
    /\ s # <<>> /\ s[1] = First
    /\ \A i \in 2..Len(s) : Admissible(SubSeq(s, 1, i - 1), s[i])
    /\ Admissible(s, e)
    => \A i \in DOMAIN s : s[i] # e

FirstAndOnce == chain[1] = First /\ RecordedOnce

LEMMA OnceStep ==
  ASSUME AcceptsNewOnly, JournalInv, FirstAndOnce, [Next]_vars
  PROVE  FirstAndOnce'
<1>1. /\ chain \in Seq(Event) /\ chain # <<>> /\ durable \in 1..Len(chain) /\ Len(chain) \in Nat
      /\ \A i \in 2..Len(chain) : Admissible(SubSeq(chain, 1, i - 1), chain[i])
      /\ chain[1] = First /\ RecordedOnce /\ DOMAIN chain = 1..Len(chain)
  BY DEF JournalInv, TypeOK, ChainAccepted, FirstAndOnce, Event
<1>2. CASE chain' = chain
  BY <1>1, <1>2 DEF FirstAndOnce, RecordedOnce
<1>3. ASSUME NEW w \in Writers, Publish(w), chain' # chain
      PROVE  FirstAndOnce'
  <2>1. chain' = Append(chain, payload[w]) /\ pc[w] = "written"
    BY <1>3 DEF Publish
  <2>2. payload[w] \in Payloads /\ Admissible(chain, payload[w])
    BY <2>1 DEF JournalInv, WriterIsCurrent, StepFacts
  <2>3. \A i \in DOMAIN chain : chain[i] # payload[w]
    BY <1>1, <2>2 DEF AcceptsNewOnly
  <2> DEFINE n == Len(chain)
             a == chain'
  <2>4. /\ DOMAIN a = 1..(n + 1) /\ a[n + 1] = payload[w] /\ \A i \in 1..n : a[i] = chain[i]
        /\ n \in Nat \ {0}
    <3>1. n \in Nat \ {0}
      BY <1>1
    <3>2. payload[w] \in Event
      BY <2>2 DEF Event
    <3> QED BY <1>1, <2>1, <3>1, <3>2, SeqFacts
  <2> HIDE DEF n
  <2>5. a[1] = First
    BY <1>1, <2>4
  <2>6. ASSUME NEW i \in DOMAIN a, NEW j \in DOMAIN a, a[i] = a[j] PROVE i = j
    <3>1. (i \in 1..n \/ i = n + 1) /\ (j \in 1..n \/ j = n + 1)
      BY <2>4
    <3>2. DOMAIN chain = 1..n
      BY <1>1 DEF n
    <3> QED BY <1>1, <2>3, <2>4, <2>6, <3>1, <3>2 DEF RecordedOnce
  <2> QED BY <2>5, <2>6 DEF FirstAndOnce, RecordedOnce
<1>4. CASE PowerLoss
  <2>1. PICK k \in durable..Len(chain) : chain' = SubSeq(chain, 1, k)
    BY <1>4 DEF PowerLoss
  <2>2. k \in 1..Len(chain)
    BY <1>1
  <2>3. DOMAIN chain' = 1..k /\ \A i \in 1..k : chain'[i] = chain[i]
    BY <1>1, <2>1, <2>2
  <2>4. 1 \in 1..k /\ \A i \in 1..k : i \in DOMAIN chain
    BY <1>1, <2>2
  <2> QED BY <1>1, <2>3, <2>4 DEF FirstAndOnce, RecordedOnce
<1>5. [Next]_vars => PowerLoss \/ (\E w \in Writers : Publish(w)) \/ chain' = chain
  BY DEF Next, Step, Acquire, ReadAndCheck, WriteTemp, SyncDirectory, Acknowledge, RemoveTemp,
         SyncRemoval, Break, Fail, FailWrite, FailCleanUp, EndProcess, Kill,
         BeginRead, AcceptRead, RefuseRead, disk, vars
<1> QED BY <1>2, <1>3, <1>4, <1>5

(* A caller that saw an append fail may offer the event again, and killed  *)
(* processes and power losses may come between: no event is recorded twice.*)
THEOREM EventsRecordedOnce ==
  ASSUME AcceptsNewOnly PROVE Spec => []RecordedOnce
<1>1. Init => FirstAndOnce
  <2> SUFFICES ASSUME Init PROVE FirstAndOnce
    OBVIOUS
  <2>1. chain = <<First>>
    BY DEF Init
  <2>2. DOMAIN <<First>> = {1} /\ <<First>>[1] = First
    OBVIOUS
  <2> QED BY <2>1, <2>2 DEF FirstAndOnce, RecordedOnce
<1>2. JournalInv /\ FirstAndOnce /\ [Next]_vars => FirstAndOnce'
  BY OnceStep
<1>3. FirstAndOnce => RecordedOnce
  BY DEF FirstAndOnce
<1> QED BY <1>1, <1>2, <1>3, Invariance, PTL DEF Spec

(* The journal implements a log that keeps what it has promised: every     *)
(* system call is a step of LoopLog or changes nothing it speaks of.       *)
THEOREM ImplementsLog == Spec => LogSpec
<1>1. Init => Log!Init
  BY DEF Init, Log!Init
<1>2. JournalInv /\ [Next]_vars => [Log!Next]_<<chain, acked>>
  <2> SUFFICES ASSUME JournalInv, [Next]_vars PROVE [Log!Next]_<<chain, acked>>
    OBVIOUS
  <2>1. ASSUME NEW w \in Writers, Publish(w) PROVE [Log!Next]_<<chain, acked>>
    <3>1. CASE Len(base[w]) + 1 \in DOMAIN chain
      BY <2>1, <3>1 DEF Publish
    <3>2. CASE Len(base[w]) + 1 \notin DOMAIN chain
      <4>1. pc[w] = "written" /\ chain' = Append(chain, payload[w]) /\ acked' = acked
        BY <2>1, <3>2 DEF Publish
      <4>2. chain = base[w] /\ payload[w] \in Payloads /\ Admissible(base[w], payload[w])
        BY <4>1 DEF JournalInv, WriterIsCurrent, StepFacts
      <4>3. Log!Record
        BY <4>1, <4>2 DEF Log!Record
      <4> QED BY <4>3 DEF Log!Next
    <3> QED BY <3>1, <3>2
  <2>2. ASSUME NEW w \in Writers, Acknowledge(w) PROVE [Log!Next]_<<chain, acked>>
    <3>1. chain = Append(base[w], payload[w]) /\ base[w] \in Seq({First} \union Payloads) /\ payload[w] \in Payloads
      BY <2>2 DEF Acknowledge, JournalInv, WriterIsCurrent, StepFacts, TypeOK
    <3>2. Len(base[w]) + 1 \in 1..Len(chain)
      BY <3>1, SeqFacts
    <3>3. chain' = chain /\ acked' = acked \union {Len(base[w]) + 1}
      BY <2>2 DEF Acknowledge, disk
    <3>4. Log!Promise
      BY <3>2, <3>3 DEF Log!Promise
    <3> QED BY <3>4 DEF Log!Next
  <2>3. CASE PowerLoss
    <3>1. PICK k \in durable..Len(chain) : chain' = SubSeq(chain, 1, k)
      BY <2>3 DEF PowerLoss
    <3>2. acked' = acked
      BY <2>3 DEF PowerLoss
    <3>3. durable \in 1..Len(chain) /\ Len(chain) \in Nat /\ \A i \in acked : i \in Nat /\ i <= durable
      BY DEF JournalInv, TypeOK, AcknowledgedIsDurable
    <3>4. k \in 1..Len(chain) /\ \A i \in acked : i <= k
      BY <3>3
    <3>5. Log!Lose
      BY <3>1, <3>2, <3>4 DEF Log!Lose
    <3> QED BY <3>5 DEF Log!Next
  <2>4. ASSUME NEW w \in Writers, NEW p \in Payloads, Acquire(w, p)
        PROVE  UNCHANGED <<chain, acked>>
    BY <2>4 DEF Acquire, disk
  <2>5. ASSUME NEW w \in Writers,
               ReadAndCheck(w) \/ WriteTemp(w) \/ SyncDirectory(w) \/ RemoveTemp(w)
               \/ SyncRemoval(w) \/ Break(w)
        PROVE  UNCHANGED <<chain, acked>>
    BY <2>5 DEF ReadAndCheck, WriteTemp, SyncDirectory, RemoveTemp, SyncRemoval, Break, Fail,
                FailWrite, FailCleanUp, EndProcess, Kill, disk
  <2>6. ASSUME NEW r \in Readers, BeginRead(r) \/ AcceptRead(r) \/ RefuseRead(r)
        PROVE  UNCHANGED <<chain, acked>>
    BY <2>6 DEF BeginRead, AcceptRead, RefuseRead, disk, writer
  <2>7. CASE UNCHANGED vars
    BY <2>7 DEF vars, disk, writer
  <2> QED BY <2>1, <2>2, <2>3, <2>4, <2>5, <2>6, <2>7 DEF Next, Step
<1> QED BY <1>1, <1>2, Invariance, PTL DEF Spec, LogSpec, Log!Spec
=============================================================================
