------------------------------- MODULE LoopStart -------------------------------
(***************************************************************************)
(* AgentLoopJournal.start, one system call at a time: a loop is made in a  *)
(* directory .loop.<id>.<token>.tmp, which is renamed to <id> when it and  *)
(* all that is in it was synced.  System calls fail, processes are killed  *)
(* and the power is lost.                                                  *)
(*                                                                         *)
(* Every start draws its own loop_id: starts share nothing but the         *)
(* directory reports/agent-loops, which is taken to be there.              *)
(***************************************************************************)
EXTENDS FiniteSets, Integers

CONSTANTS
  Starts,         \* calls of start, each of one process
  MaxFaults,      \* failing system calls and killed processes
  MaxPowerLosses

ASSUME StartAssumption == MaxFaults \in Nat /\ MaxPowerLosses \in Nat

VARIABLES
  name,     \* of each start: the name its directory has, or "none"
  maybe,    \* the names it may have after a power loss
  present,  \* entries that are there, files with all their bytes
  partial,  \* the file being written
  durable,  \* entries that were there when their directory was last synced
  pc,
  answered, \* starts whose caller was told the loop's state
  faults, losses

directory == <<name, maybe, present, partial, durable>>
vars == <<directory, pc, answered, faults, losses>>

InStage == {"events", "header.json", ".writer.lock"}
InEvents == {"00000001.json"}
Entries == InStage \union InEvents

Working == {"stage", "events", "header", "genesis", "lock", "sync events", "sync stage", "rename", "sync loops"}
Removing == {"aborting", "emptied", "removed"}
Ended == {"returned", "failed", "littered", "dead"}

Init ==
  /\ name = [s \in Starts |-> "none"] /\ maybe = [s \in Starts |-> {"none"}]
  /\ present = [s \in Starts |-> {}] /\ partial = [s \in Starts |-> {}]
  /\ durable = [s \in Starts |-> {}]
  /\ pc = [s \in Starts |-> "idle"] /\ answered = {}
  /\ faults = 0 /\ losses = 0

At(s, step) == pc[s] = step /\ partial[s] = {}
Goto(s, step) == pc' = [pc EXCEPT ![s] = step]
Becomes(s, n) == /\ name' = [name EXCEPT ![s] = n]
                 /\ maybe' = [maybe EXCEPT ![s] = @ \union {n}]
(* fsync of a directory.                                                   *)
Sync(s, entries) ==
  durable' = [durable EXCEPT ![s] = (@ \ entries) \union (present[s] \intersect entries)]

-----------------------------------------------------------------------------
MakeStage(s) ==
  /\ pc[s] = "idle"
  /\ Becomes(s, "stage") /\ Goto(s, "stage")
  /\ UNCHANGED <<present, partial, durable, answered, faults, losses>>

(* _open_directory_at with create: mkdir, and fsync of the stage.          *)
MakeEvents(s) ==
  /\ pc[s] = "stage"
  /\ present' = [present EXCEPT ![s] = @ \union {"events"}]
  /\ Goto(s, "events")
  /\ UNCHANGED <<name, maybe, partial, durable, answered, faults, losses>>

SyncMade(s) ==
  /\ pc[s] = "events"
  /\ Sync(s, InStage) /\ Goto(s, "header")
  /\ UNCHANGED <<name, maybe, present, partial, answered, faults, losses>>

(* _write_exclusive_at: a file appears empty, and has all its bytes, on    *)
(* the disk too, when it is synced.  Its entry is not synced.              *)
BeginWrite(s) ==
  /\ \/ At(s, "header") /\ partial' = [partial EXCEPT ![s] = {"header.json"}] /\ Goto(s, "genesis")
     \/ At(s, "genesis") /\ partial' = [partial EXCEPT ![s] = {"00000001.json"}] /\ Goto(s, "lock")
     \/ At(s, "lock") /\ partial' = [partial EXCEPT ![s] = {".writer.lock"}] /\ Goto(s, "sync events")
  /\ UNCHANGED <<name, maybe, present, durable, answered, faults, losses>>

(* Mutant: the end of a write is left to a later one.                      *)
EndWriteLater(s) ==
  /\ pc[s] \in Working /\ partial[s] # {}
  /\ present' = [present EXCEPT ![s] = @ \union partial[s]]
  /\ UNCHANGED <<name, maybe, partial, durable, pc, answered, faults, losses>>

EndWrite(s) ==
  /\ pc[s] \in Working /\ partial[s] # {}
  /\ present' = [present EXCEPT ![s] = @ \union partial[s]]
  /\ partial' = [partial EXCEPT ![s] = {}]
  /\ UNCHANGED <<name, maybe, durable, pc, answered, faults, losses>>

SyncEvents(s) ==
  /\ At(s, "sync events")
  /\ Sync(s, InEvents) /\ Goto(s, "sync stage")
  /\ UNCHANGED <<name, maybe, present, partial, answered, faults, losses>>

(* Mutant: the stage, synced when events was made, is not synced again.    *)
SkipSyncStage(s) ==
  /\ At(s, "sync stage")
  /\ Goto(s, "rename")
  /\ UNCHANGED <<directory, answered, faults, losses>>

SyncStage(s) ==
  /\ At(s, "sync stage")
  /\ Sync(s, InStage) /\ Goto(s, "rename")
  /\ UNCHANGED <<name, maybe, present, partial, answered, faults, losses>>

(* _rename_noreplace_at                                                    *)
Rename(s) ==
  /\ At(s, "rename")
  /\ Becomes(s, "loop") /\ Goto(s, "sync loops")
  /\ UNCHANGED <<present, partial, durable, answered, faults, losses>>

SyncLoops(s) ==
  /\ At(s, "sync loops")
  /\ maybe' = [maybe EXCEPT ![s] = {name[s]}] /\ Goto(s, "inspect")
  /\ UNCHANGED <<name, present, partial, durable, answered, faults, losses>>

(* inspect of the new loop: a header and the events without gap.           *)
Readable(s) == name[s] = "loop" /\ present[s] = Entries /\ partial[s] = {}
Inspect(s) ==
  /\ At(s, "inspect")
  /\ IF Readable(s) THEN Goto(s, "returned") /\ answered' = answered \union {s}
     ELSE Goto(s, "failed") /\ UNCHANGED answered
  /\ UNCHANGED <<directory, faults, losses>>

-----------------------------------------------------------------------------
(* _remove_owned_stage: what was renamed is not found, and left alone.     *)
Empty(s) ==
  /\ pc[s] = "aborting"
  /\ IF name[s] = "stage"
     THEN /\ present' = [present EXCEPT ![s] = {}] /\ partial' = [partial EXCEPT ![s] = {}]
          /\ Goto(s, "emptied")
     ELSE Goto(s, "failed") /\ UNCHANGED <<present, partial>>
  /\ UNCHANGED <<name, maybe, durable, answered, faults, losses>>

RemoveStage(s) ==
  /\ pc[s] = "emptied"
  /\ Becomes(s, "none") /\ Goto(s, "removed")
  /\ UNCHANGED <<present, partial, durable, answered, faults, losses>>

SyncRemoval(s) ==
  /\ pc[s] = "removed"
  /\ maybe' = [maybe EXCEPT ![s] = {name[s]}] /\ Goto(s, "failed")
  /\ UNCHANGED <<name, present, partial, durable, answered, faults, losses>>

(* Mutant: the stage is owned from when its events directory was made.     *)
FaultUnowned(s) ==
  /\ pc[s] \in Working \union Removing \union {"inspect"} /\ faults < MaxFaults
  /\ faults' = faults + 1
  /\ \/ pc[s] \in Working \ {"stage"} /\ Goto(s, "aborting")
     \/ pc[s] \in {"inspect", "stage"} /\ Goto(s, "failed")
     \/ pc[s] \in Removing /\ Goto(s, "littered")
  /\ UNCHANGED <<directory, answered, losses>>

(* A system call fails, or replay_journal refuses the genesis event: what  *)
(* was made is removed, and a removal that fails given up.                 *)
(* _write_exclusive_at unlinks its half-written file itself, if it can.    *)
(* The mkdir of the stage may fail as well: then there is nothing, as      *)
(* before it.                                                              *)
Fault(s) ==
  /\ pc[s] \in Working \union Removing \union {"inspect"} /\ faults < MaxFaults
  /\ faults' = faults + 1
  /\ \/ pc[s] \in Working /\ Goto(s, "aborting")
     \/ pc[s] = "inspect" /\ Goto(s, "failed")
     \/ pc[s] \in Removing /\ Goto(s, "littered")
  /\ partial' \in {partial, [partial EXCEPT ![s] = {}]}
  /\ UNCHANGED <<name, maybe, present, durable, answered, losses>>

(* Emptying fails, or is killed, when some of the entries are unlinked:    *)
(* events only after what is in it.                                        *)
FaultEmptying(s) ==
  /\ pc[s] = "aborting" /\ name[s] = "stage" /\ faults < MaxFaults
  /\ faults' = faults + 1 /\ Goto(s, "littered")
  /\ \E gone \in SUBSET (present[s] \union partial[s]) :
       /\ "events" \in gone => InEvents \intersect (present[s] \union partial[s]) \subseteq gone
       /\ present' = [present EXCEPT ![s] = @ \ gone]
       /\ partial' = [partial EXCEPT ![s] = @ \ gone]
  /\ UNCHANGED <<name, maybe, durable, answered, losses>>

Kill(s) ==
  /\ pc[s] \in Working \union Removing \union {"inspect"} /\ faults < MaxFaults
  /\ faults' = faults + 1 /\ Goto(s, "dead")
  /\ UNCHANGED <<directory, answered, losses>>

(* Entries made or unlinked since their directory was synced may be gone   *)
(* or back, and a file that was not synced cut short.                      *)
PowerLoss ==
  /\ losses < MaxPowerLosses /\ losses' = losses + 1
  /\ name' \in {n \in [Starts -> {"none", "stage", "loop"}] : \A s \in Starts : n[s] \in maybe[s]}
  /\ maybe' = [s \in Starts |-> {name'[s]}]
  /\ present' \in {p \in [Starts -> SUBSET Entries] :
       \A s \in Starts :
         /\ p[s] \subseteq present[s] \union durable[s]
         /\ IF name'[s] = "none" THEN p[s] = {} ELSE present[s] \intersect durable[s] \subseteq p[s]
         /\ InEvents \intersect p[s] # {} => "events" \in p[s]}
  /\ partial' \in {p \in [Starts -> SUBSET Entries] :
       \A s \in Starts : /\ p[s] \subseteq partial[s]
                         /\ name'[s] = "none" => p[s] = {}
                         /\ InEvents \intersect p[s] # {} => "events" \in present'[s]}
  /\ durable' = present'
  /\ pc' = [s \in Starts |-> IF pc[s] \in {"idle"} \union Ended THEN pc[s] ELSE "dead"]
  /\ UNCHANGED <<answered, faults>>

-----------------------------------------------------------------------------
Step(s) ==
  \/ MakeEvents(s) \/ SyncMade(s) \/ BeginWrite(s) \/ EndWrite(s) \/ SyncEvents(s) \/ SyncStage(s)
  \/ Rename(s) \/ SyncLoops(s) \/ Inspect(s) \/ Empty(s) \/ RemoveStage(s) \/ SyncRemoval(s)
Next ==
  \/ \E s \in Starts : MakeStage(s) \/ Step(s) \/ Fault(s) \/ FaultEmptying(s) \/ Kill(s)
  \/ PowerLoss
Spec == Init /\ [][Next]_vars

-----------------------------------------------------------------------------
StartTypeOK ==
  /\ name \in [Starts -> {"none", "stage", "loop"}]
  /\ maybe \in [Starts -> SUBSET {"none", "stage", "loop"}]
  /\ present \in [Starts -> SUBSET Entries] /\ durable \in [Starts -> SUBSET Entries]
  /\ partial \in [Starts -> SUBSET Entries]
  /\ \A s \in Starts : /\ name[s] \in maybe[s] /\ present[s] \intersect partial[s] = {}
                       /\ InEvents \intersect (present[s] \union partial[s]) # {} => "events" \in present[s]
  /\ pc \in [Starts -> {"idle", "inspect"} \union Working \union Removing \union Ended]
  /\ answered \subseteq Starts
  /\ faults \in 0..MaxFaults /\ losses \in 0..MaxPowerLosses

(* A start that fails leaves no staging directory behind, unless removing  *)
(* it was itself cut off or the power is lost later.                       *)
FailedStartCleansUp == \A s \in Starts : pc[s] = "failed" /\ losses = 0 => name[s] # "stage"

(* What is called like a loop is a whole loop that can be inspected, from  *)
(* its appearance on, and is not lost once start has returned: whatever    *)
(* fails, is killed or is lost.  (Appended events are LoopJournal's.)      *)
Loops ==
  INSTANCE PublishOnce WITH
    Names <- Starts,
    Contents <- {<<TRUE, Entries>>},
    Absent <- <<FALSE, {}>>,
    store <- [s \in Starts |-> IF name[s] = "loop" THEN <<Readable(s), present[s]>> ELSE <<FALSE, {}>>],
    confirmed <- answered
StartSpec == Loops!Spec
=============================================================================
