----------------------------- MODULE LoopJournal -----------------------------
(***************************************************************************)
(* The journal of one started loop on disk, one system call at a time:     *)
(* AgentLoopJournal.append by competing processes, AgentLoopJournal.inspect*)
(* beside them without a lock, failing system calls, killed processes and  *)
(* power losses.                                                           *)
(*                                                                         *)
(* The events directory holds files 00000001.json, ... (chain) and         *)
(* temporaries.  A file's content is synced before the file gets its final *)
(* name, so only the name can be lost: the entries of the directory up to  *)
(* "durable" survive a power loss, later ones in the order they were made, *)
(* as journaling file systems keep it.                                     *)
(***************************************************************************)
EXTENDS Integers, Sequences, FiniteSets

CONSTANTS
  Writers, Readers, \* processes that append and that inspect
  Payloads,         \* events callers offer
  First,            \* the genesis event
  Admissible(_, _), \* replay_journal accepts this event behind this chain
  NULL,
  MaxCalls,         \* appends each writer attempts
  MaxFaults,        \* failing system calls
  MaxPowerLosses

ASSUME JournalAssumption ==
  /\ NULL \notin Writers /\ NULL \notin Payloads
  /\ MaxCalls \in Nat /\ MaxFaults \in Nat /\ MaxPowerLosses \in Nat

VARIABLES
  chain,    \* the events under their final names, in order
  durable,  \* number of entries of chain known to survive a power loss
  temps,    \* temporaries .event.<token>.tmp, by the call that made them
  lock,     \* the process that holds flock on .writer.lock
  pc, payload, base, \* of each writer: next step, event offered, chain read
  calls,    \* appends each writer has begun
  acked,    \* positions of chain whose append has returned to its caller
  rpc, from, low, view, \* of each reader: next step, events and acked when it
            \* began, chain read
  faults, losses

disk == <<chain, durable, temps>>
writer == <<lock, pc, payload, base, calls, acked>>
reader == <<rpc, from, low, view>>
vars == <<disk, writer, reader, faults, losses>>

(* "cleaning" and "removed": the finally block on its way after a failed   *)
(* rename; "kept": the call has ended, its lock file is still open.        *)
WriterSteps == {"idle", "locked", "checked", "written", "published", "synced",
                "cleaning", "removed", "kept"}
Token(w) == <<w, calls[w]>>

Init ==
  /\ chain = <<First>> /\ durable = 1 /\ temps = {}
  /\ lock = NULL
  /\ pc = [w \in Writers |-> "idle"] /\ payload = [w \in Writers |-> NULL]
  /\ base = [w \in Writers |-> <<>>] /\ calls = [w \in Writers |-> 0]
  /\ acked = {1}
  /\ rpc = [r \in Readers |-> "idle"] /\ from = [r \in Readers |-> 0]
  /\ low = [r \in Readers |-> {}] /\ view = [r \in Readers |-> <<>>]
  /\ faults = 0 /\ losses = 0

-----------------------------------------------------------------------------
(* flock LOCK_EX | LOCK_NB; a call that finds it taken returns LOOP-303.   *)
Acquire(w, p) ==
  /\ pc[w] = "idle" /\ calls[w] < MaxCalls
  /\ lock = NULL
  /\ lock' = w
  /\ pc' = [pc EXCEPT ![w] = "locked"]
  /\ payload' = [payload EXCEPT ![w] = p]
  /\ calls' = [calls EXCEPT ![w] = @ + 1]
  /\ UNCHANGED <<disk, base, acked, reader, faults, losses>>

(* The end of a call whose finally block has come to close the lock file,  *)
(* which gives the lock up.                                                *)
Return(w) ==
  /\ pc' = [pc EXCEPT ![w] = "idle"]
  /\ lock' = NULL
  /\ payload' = [payload EXCEPT ![w] = NULL] /\ base' = [base EXCEPT ![w] = <<>>]

(* Mutant: the chain is replayed without the event put behind it.          *)
ReadUnchecked(w) ==
  /\ pc[w] = "locked"
  /\ base' = [base EXCEPT ![w] = chain]
  /\ pc' = [pc EXCEPT ![w] = "checked"]
  /\ UNCHANGED <<disk, lock, payload, calls, acked, reader, faults, losses>>

(* The chain is read and replayed, with the sealed new event behind it.    *)
ReadAndCheck(w) ==
  /\ pc[w] = "locked"
  /\ IF Admissible(chain, payload[w])
     THEN /\ base' = [base EXCEPT ![w] = chain]
          /\ pc' = [pc EXCEPT ![w] = "checked"]
          /\ UNCHANGED <<lock, payload>>
     ELSE Return(w)
  /\ UNCHANGED <<disk, calls, acked, reader, faults, losses>>

WriteTemp(w) ==
  /\ pc[w] = "checked"
  /\ temps' = temps \union {Token(w)}
  /\ pc' = [pc EXCEPT ![w] = "written"]
  /\ UNCHANGED <<chain, durable, lock, payload, base, calls, acked, reader, faults, losses>>

(* renameat2 with RENAME_NOREPLACE to the name after the chain that was    *)
(* read; LOOP-302 when that name exists.                                   *)
Publish(w) ==
  /\ pc[w] = "written"
  /\ IF Len(base[w]) + 1 \in DOMAIN chain
     THEN pc' = [pc EXCEPT ![w] = "cleaning"] /\ UNCHANGED <<chain, temps>>
     ELSE /\ chain' = Append(chain, payload[w])
          /\ temps' = temps \ {Token(w)}
          /\ pc' = [pc EXCEPT ![w] = "published"]
  /\ UNCHANGED <<durable, lock, payload, base, calls, acked, reader, faults, losses>>

SyncDirectory(w) ==
  /\ pc[w] = "published"
  /\ durable' = Len(chain)
  /\ pc' = [pc EXCEPT ![w] = "synced"]
  /\ UNCHANGED <<chain, temps, lock, payload, base, calls, acked, reader, faults, losses>>

(* Mutant: the caller is answered before the directory is synced.          *)
AcknowledgeEarly(w) ==
  /\ pc[w] \in {"published", "synced"}
  /\ acked' = acked \union {Len(base[w]) + 1}
  /\ Return(w)
  /\ UNCHANGED <<disk, calls, reader, faults, losses>>

(* The chain is read and replayed once more and the state returned.        *)
Acknowledge(w) ==
  /\ pc[w] = "synced"
  /\ acked' = acked \union {Len(base[w]) + 1}
  /\ Return(w)
  /\ UNCHANGED <<disk, calls, reader, faults, losses>>

-----------------------------------------------------------------------------
(***************************************************************************)
(* Failing system calls.  The finally block of append owns the temporary   *)
(* from the time its content is synced until it is renamed; it unlinks it  *)
(* and syncs the directory before it closes the lock file, and survives a  *)
(* missing file but no other failure of these two calls.                   *)
(***************************************************************************)
Working == {"locked", "checked", "written", "published", "synced"}

(* Mutant: the lock file is only closed where a call succeeds.             *)
FailLocked(w) ==
  /\ pc[w] \in Working /\ faults < MaxFaults
  /\ faults' = faults + 1
  /\ pc' = [pc EXCEPT ![w] = "kept"]
  /\ payload' = [payload EXCEPT ![w] = NULL] /\ base' = [base EXCEPT ![w] = <<>>]
  /\ UNCHANGED <<disk, lock, calls, acked, reader, losses>>

(* A system call of the next step fails.  Behind Publish the event stays,  *)
(* although the caller is told that the append failed.                     *)
Fail(w) ==
  /\ pc[w] \in Working /\ faults < MaxFaults
  /\ faults' = faults + 1
  /\ IF pc[w] = "written"
     THEN pc' = [pc EXCEPT ![w] = "cleaning"] /\ UNCHANGED <<lock, payload, base>>
     ELSE Return(w)
  /\ UNCHANGED <<disk, calls, acked, reader, losses>>

(* Writing the temporary fails, and so does _write_exclusive_at's own      *)
(* clean-up: the file stays, append does not own it yet.                   *)
FailWrite(w) ==
  /\ pc[w] = "checked" /\ faults + 1 < MaxFaults
  /\ faults' = faults + 2
  /\ temps' = temps \union {Token(w)}
  /\ Return(w)
  /\ UNCHANGED <<chain, durable, calls, acked, reader, losses>>

RemoveTemp(w) ==
  /\ pc[w] = "cleaning"
  /\ temps' = temps \ {Token(w)}
  /\ pc' = [pc EXCEPT ![w] = "removed"]
  /\ UNCHANGED <<chain, durable, lock, payload, base, calls, acked, reader, faults, losses>>

SyncRemoval(w) ==
  /\ pc[w] = "removed"
  /\ Return(w)
  /\ UNCHANGED <<disk, calls, acked, reader, faults, losses>>

(* The unlink or the fsync fails too: os.close(lock_fd) is not reached, and*)
(* the process, its call ended, goes on holding the flock.  Appends, its   *)
(* own as well, get LOOP-303: the flock belongs to the open file.          *)
FailCleanUp(w) ==
  /\ pc[w] \in {"cleaning", "removed"} /\ faults < MaxFaults
  /\ faults' = faults + 1
  /\ pc' = [pc EXCEPT ![w] = "kept"]
  /\ payload' = [payload EXCEPT ![w] = NULL] /\ base' = [base EXCEPT ![w] = <<>>]
  /\ UNCHANGED <<disk, lock, calls, acked, reader, losses>>

(* A process that kept the lock gives it up when it ends.                  *)
EndProcess(w) ==
  /\ pc[w] = "kept"
  /\ Return(w)
  /\ UNCHANGED <<disk, calls, acked, reader, faults, losses>>

(* The process is killed: the kernel drops its lock, a temporary stays.    *)
Kill(w) ==
  /\ pc[w] \notin {"idle", "kept"} /\ faults < MaxFaults
  /\ faults' = faults + 1
  /\ Return(w)
  /\ UNCHANGED <<disk, calls, acked, reader, losses>>

(* Mutant: files are not synced before they get their names.               *)
LoseContents ==
  /\ losses < MaxPowerLosses
  /\ losses' = losses + 1
  /\ \E k \in 1..Len(chain) : chain' = SubSeq(chain, 1, k)
  /\ temps' \in SUBSET temps
  /\ lock' = NULL /\ pc' = [w \in Writers |-> "idle"]
  /\ payload' = [w \in Writers |-> NULL] /\ base' = [w \in Writers |-> <<>>]
  /\ rpc' = [r \in Readers |-> "idle"]
  /\ view' = [r \in Readers |-> <<>>]
  /\ UNCHANGED <<durable, calls, acked, from, low, faults>>

PowerLoss ==
  /\ losses < MaxPowerLosses
  /\ losses' = losses + 1
  /\ \E k \in durable..Len(chain) : chain' = SubSeq(chain, 1, k) /\ durable' = k
  /\ temps' \in SUBSET temps
  /\ lock' = NULL /\ pc' = [w \in Writers |-> "idle"]
  /\ payload' = [w \in Writers |-> NULL] /\ base' = [w \in Writers |-> <<>>]
  /\ rpc' = [r \in Readers |-> "idle"]
  /\ view' = [r \in Readers |-> <<>>]
  /\ UNCHANGED <<calls, acked, from, low, faults>>

-----------------------------------------------------------------------------
(***************************************************************************)
(* inspect.  A directory listing is not a snapshot: it returns the entries *)
(* present all along and any of those made meanwhile, in any order.        *)
(***************************************************************************)
BeginRead(r) ==
  /\ rpc[r] # "listing"
  /\ rpc' = [rpc EXCEPT ![r] = "listing"]
  /\ from' = [from EXCEPT ![r] = Len(chain)]
  /\ low' = [low EXCEPT ![r] = acked]
  /\ view' = [view EXCEPT ![r] = <<>>]
  /\ UNCHANGED <<disk, writer, faults, losses>>

(* Mutant: whatever is listed is read, in order, gaps or not.              *)
AcceptGaps(r) ==
  /\ rpc[r] = "listing"
  /\ \E later \in SUBSET ((from[r] + 1)..Len(chain)) :
       LET listed == {i \in DOMAIN chain : i \in 1..from[r] \union later}
           nth(n) == CHOOSE i \in listed : Cardinality({j \in listed : j < i}) = n - 1
       IN view' = [view EXCEPT ![r] = [n \in 1..Cardinality(listed) |-> chain[nth(n)]]]
  /\ rpc' = [rpc EXCEPT ![r] = "accepted"]
  /\ UNCHANGED <<disk, writer, from, low, faults, losses>>

(* The numbers listed must be contiguous (LOOP-004).  The directory may    *)
(* have changed unnoticed: its time stamps need not have.                  *)
AcceptRead(r) ==
  /\ rpc[r] = "listing"
  /\ \E later \in SUBSET ((from[r] + 1)..Len(chain)) :
       LET names == 1..from[r] \union later IN
       /\ names = 1..Cardinality(names)
       /\ view' = [view EXCEPT ![r] = SubSeq(chain, 1, Cardinality(names))]
  /\ rpc' = [rpc EXCEPT ![r] = "accepted"]
  /\ UNCHANGED <<disk, writer, from, low, faults, losses>>

(* A gap, a change that was noticed (LOOP-307), a failing system call.     *)
RefuseRead(r) ==
  /\ rpc[r] = "listing"
  /\ rpc' = [rpc EXCEPT ![r] = "refused"]
  /\ UNCHANGED <<disk, writer, from, low, view, faults, losses>>

-----------------------------------------------------------------------------
Step(w) ==
  \/ ReadAndCheck(w) \/ WriteTemp(w) \/ Publish(w) \/ SyncDirectory(w) \/ Acknowledge(w)
  \/ RemoveTemp(w) \/ SyncRemoval(w)
Break(w) == Fail(w) \/ FailWrite(w) \/ FailCleanUp(w) \/ Kill(w) \/ EndProcess(w)
Next ==
  \/ \E w \in Writers : (\E p \in Payloads : Acquire(w, p)) \/ Step(w) \/ Break(w)
  \/ \E r \in Readers : BeginRead(r) \/ AcceptRead(r) \/ RefuseRead(r)
  \/ PowerLoss
Spec == Init /\ [][Next]_vars

(* A process that runs goes on to its next system call.                    *)
FairSpec == Spec /\ \A w \in Writers : WF_vars(Step(w))

-----------------------------------------------------------------------------
TypeOK ==
  /\ chain \in Seq({First} \union Payloads) /\ chain # <<>>
  /\ durable \in 1..Len(chain)
  /\ temps \subseteq Writers \X (1..MaxCalls)
  /\ lock \in Writers \union {NULL}
  /\ pc \in [Writers -> WriterSteps]
  /\ payload \in [Writers -> Payloads \union {NULL}]
  /\ base \in [Writers -> Seq({First} \union Payloads)]
  /\ calls \in [Writers -> 0..MaxCalls]
  /\ acked \subseteq Nat \ {0}
  /\ rpc \in [Readers -> {"idle", "listing", "accepted", "refused"}]
  /\ from \in [Readers -> Nat] /\ low \in [Readers -> SUBSET (Nat \ {0})]
  /\ view \in [Readers -> Seq({First} \union Payloads)]
  /\ faults \in 0..MaxFaults /\ losses \in 0..MaxPowerLosses

(* Every event on disk was accepted behind the events before it, although  *)
(* the check and the publication are separate steps.                       *)
ChainAccepted ==
  \A i \in 2..Len(chain) : Admissible(SubSeq(chain, 1, i - 1), chain[i])

(* The caller of an append that returned normally can rely on it: no later *)
(* failure, kill or power loss takes the event back.                       *)
AcknowledgedIsDurable == \A i \in acked : i <= durable

(* A caller that saw an append fail may offer the same event again: if the *)
(* failed call had published it after all, it is not recorded twice.       *)
RecordedOnce == \A i, j \in DOMAIN chain : chain[i] = chain[j] => i = j

(* A read that is accepted is a prefix of the journal, and holds all that  *)
(* had been acknowledged when it began, without taking the lock.           *)
ReadsAcknowledged ==
  \A r \in Readers : rpc[r] = "accepted" =>
    /\ Len(view[r]) <= Len(chain) /\ view[r] = SubSeq(chain, 1, Len(view[r]))
    /\ low[r] \subseteq DOMAIN view[r]

(* A writer in its call has read the chain that is on disk, up to the event*)
(* it has itself published: what it decided is not stale.  It holds the    *)
(* lock all along; beyond its call it does only where the clean-up failed. *)
WriterIsCurrent ==
  \A w \in Writers :
    /\ pc[w] # "idle" <=> lock = w
    /\ pc[w] \in {"checked", "written", "cleaning", "removed"} => chain = base[w]
    /\ pc[w] \in {"published", "synced"} => chain = Append(base[w], payload[w])

(* No single failure, wherever it strikes, leaves the loop locked: a lock  *)
(* that stays behind has seen two calls fail.                              *)
KeptAfterTwoFailures == \A w \in Writers : pc[w] = "kept" => faults >= 2

(* A call gives the lock up whichever way it ends, unless two of its own   *)
(* system calls fail.  (While it holds the lock nobody else can fail: n    *)
(* failures before it, n + 2 or more with both of them.)                   *)
LockGivenUp ==
  \A w \in Writers, n \in 0..MaxFaults :
    (pc[w] = "locked" /\ faults = n) ~> (lock # w \/ faults > n + 1)

(* The journal is an append-only log that loses nothing it has promised.   *)
Log == INSTANCE LoopLog WITH Events <- Payloads, log <- chain, promised <- acked
LogSpec == Log!Spec
=============================================================================
