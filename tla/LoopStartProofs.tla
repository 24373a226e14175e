---------------------------- MODULE LoopStartProofs ----------------------------
(***************************************************************************)
(* Proofs about LoopStart, for every set of starts and any number of       *)
(* faults and power losses: what is called like a loop is a whole loop, a  *)
(* failing start cleans up, and starts implement PublishOnce.              *)
(***************************************************************************)
EXTENDS LoopStart, TLAPS

(* A loop whose directories were synced when all was in them.              *)
Secured(s) == present[s] = Entries /\ partial[s] = {} /\ durable[s] = Entries

(* The type invariant, of the functions and of the entries of one start.   *)
Types ==
  /\ name \in [Starts -> {"none", "stage", "loop"}]
  /\ maybe \in [Starts -> SUBSET {"none", "stage", "loop"}]
  /\ present \in [Starts -> SUBSET Entries] /\ durable \in [Starts -> SUBSET Entries]
  /\ partial \in [Starts -> SUBSET Entries]
  /\ pc \in [Starts -> {"idle", "inspect"} \union Working \union Removing \union Ended]
  /\ answered \subseteq Starts
  /\ faults \in 0..MaxFaults /\ losses \in 0..MaxPowerLosses
Fits(s) ==
  /\ name[s] \in maybe[s] /\ present[s] \intersect partial[s] = {}
  /\ InEvents \intersect (present[s] \union partial[s]) # {} => "events" \in present[s]

(* The name a directory has, or may have, at each step.                    *)
NameFacts(s) ==
  /\ "loop" \in maybe[s] => name[s] = "loop" /\ Secured(s)
  /\ pc[s] = "idle" => maybe[s] = {"none"}
  /\ pc[s] \in Working \ {"sync loops"} => name[s] = "stage"
  /\ pc[s] = "rename" => Secured(s)
  /\ pc[s] = "sync loops" => name[s] = "loop"
  /\ pc[s] \in {"inspect", "returned"} => maybe[s] = {"loop"}
  /\ pc[s] = "emptied" => name[s] = "stage"
  /\ pc[s] = "removed" => name[s] = "none"
  /\ s \in answered => pc[s] = "returned"
  /\ pc[s] = "failed" /\ losses = 0 => name[s] # "stage"

(* What the stage holds, or is about to, at each step of its making.       *)
Made(s) == present[s] \union partial[s]
StageFacts(s) ==
  /\ durable[s] \intersect partial[s] = {}
  /\ pc[s] \in {"idle", "stage"} => Made(s) = {}
  /\ pc[s] \in {"events", "header"} => Made(s) = {"events"} /\ partial[s] = {}
  /\ pc[s] = "genesis" => Made(s) = {"events", "header.json"}
  /\ pc[s] = "lock" => Made(s) = {"events", "header.json", "00000001.json"}
  /\ pc[s] \in {"sync events", "sync stage"} => Made(s) = Entries
  /\ pc[s] \in {"idle", "stage", "events", "header", "genesis", "lock", "sync events"} => durable[s] \subseteq {"events"}
  /\ pc[s] = "sync stage" => partial[s] = {} /\ InEvents \subseteq durable[s]

StartFacts(s) == Fits(s) /\ NameFacts(s) /\ StageFacts(s)
StartInv == Types /\ \A s \in Starts : StartFacts(s)

(* A step of one start leaves the others as they are.                      *)
Same(s) ==
  /\ name'[s] = name[s] /\ maybe'[s] = maybe[s] /\ present'[s] = present[s]
  /\ partial'[s] = partial[s] /\ durable'[s] = durable[s]
  /\ pc'[s] = pc[s] /\ (s \in answered' <=> s \in answered)

LEMMA OtherStarts ==
  ASSUME NEW s, StartFacts(s), Same(s), losses' = losses
  PROVE  StartFacts(s)'
BY DEF Same, StartFacts, Fits, NameFacts, StageFacts, Secured, Made, Working, InEvents, InStage, Entries

(* The invariant is kept by a step of s when s keeps its own facts.        *)
LEMMA OneStart ==
  ASSUME StartInv, NEW s \in Starts, Types', Fits(s)', NameFacts(s)', StageFacts(s)', losses' = losses,
         \A o \in Starts \ {s} : Same(o)
  PROVE  StartInv'
<1>1. ASSUME NEW o \in Starts PROVE StartFacts(o)'
  <2>1. CASE o = s
    BY <2>1 DEF StartFacts
  <2>2. CASE o # s
    BY <2>2, OtherStarts DEF StartInv
  <2> QED BY <2>1, <2>2
<1> QED BY <1>1 DEF StartInv

LEMMA InitInv == Init => StartInv
<1> SUFFICES ASSUME Init PROVE StartInv
  OBVIOUS
<1>1. Types
  BY StartAssumption DEF Init, Types
<1>2. ASSUME NEW s \in Starts PROVE Fits(s) /\ NameFacts(s) /\ StageFacts(s)
  BY DEF Init, Fits, NameFacts, StageFacts, Made, Working
<1> QED BY <1>1, <1>2 DEF StartInv, StartFacts

-----------------------------------------------------------------------------
LEMMA MakeStageStep ==
  ASSUME StartInv, NEW s \in Starts, MakeStage(s)
  PROVE  StartInv'
<1> USE DEF MakeStage, At, Goto, Becomes, Sync, directory
<1>1. Types /\ Fits(s) /\ NameFacts(s) /\ StageFacts(s)
  BY DEF StartInv, StartFacts
<1>2. Types'
  BY <1>1, StartAssumption DEF Types, Working, Removing, Ended, Entries, InStage, InEvents
<1>3. Fits(s)'
  BY <1>1 DEF Types, Fits, StageFacts, Made, InEvents
<1>4. NameFacts(s)'
  BY <1>1 DEF Types, Fits, NameFacts, Secured, Working, Removing, Ended
<1>5. StageFacts(s)'
  BY <1>1 DEF Types, Fits, StageFacts, Made, Working, Removing, Entries, InStage, InEvents
<1>6. \A o \in Starts \ {s} : Same(o)
  BY <1>1 DEF Types, Same
<1> QED BY <1>2, <1>3, <1>4, <1>5, <1>6, OneStart

LEMMA MakeEventsStep ==
  ASSUME StartInv, NEW s \in Starts, MakeEvents(s)
  PROVE  StartInv'
<1> USE DEF MakeEvents, At, Goto, Becomes, Sync, directory
<1>1. Types /\ Fits(s) /\ NameFacts(s) /\ StageFacts(s)
  BY DEF StartInv, StartFacts
<1>2. Types'
  BY <1>1, StartAssumption DEF Types, Working, Removing, Ended, Entries, InStage, InEvents
<1>3. Fits(s)'
  BY <1>1 DEF Types, Fits, StageFacts, Made, InEvents
<1>4. NameFacts(s)'
  BY <1>1 DEF Types, Fits, NameFacts, Secured, Working, Removing, Ended
<1>5. StageFacts(s)'
  BY <1>1 DEF Types, Fits, StageFacts, Made, Working, Removing, Entries, InStage, InEvents
<1>6. \A o \in Starts \ {s} : Same(o)
  BY <1>1 DEF Types, Same
<1> QED BY <1>2, <1>3, <1>4, <1>5, <1>6, OneStart

LEMMA SyncMadeStep ==
  ASSUME StartInv, NEW s \in Starts, SyncMade(s)
  PROVE  StartInv'
<1> USE DEF SyncMade, At, Goto, Becomes, Sync, directory
<1>1. Types /\ Fits(s) /\ NameFacts(s) /\ StageFacts(s)
  BY DEF StartInv, StartFacts
<1>2. Types'
  BY <1>1, StartAssumption DEF Types, Working, Removing, Ended, Entries, InStage, InEvents
<1>3. Fits(s)'
  BY <1>1 DEF Types, Fits, StageFacts, Made, InEvents
<1>4. NameFacts(s)'
  BY <1>1 DEF Types, Fits, NameFacts, Secured, Working, Removing, Ended
<1>5. StageFacts(s)'
  BY <1>1 DEF Types, Fits, StageFacts, Made, Working, Removing, Entries, InStage, InEvents
<1>6. \A o \in Starts \ {s} : Same(o)
  BY <1>1 DEF Types, Same
<1> QED BY <1>2, <1>3, <1>4, <1>5, <1>6, OneStart

LEMMA BeginWriteStep ==
  ASSUME StartInv, NEW s \in Starts, BeginWrite(s)
  PROVE  StartInv'
<1> USE DEF At, Goto
<1>1. Types /\ Fits(s) /\ NameFacts(s) /\ StageFacts(s)
  BY DEF StartInv, StartFacts
<1>2. /\ UNCHANGED <<name, maybe, present, durable, answered, faults, losses>>
      /\ pc[s] \in {"header", "genesis", "lock"} /\ partial[s] = {}
      /\ name[s] = "stage" /\ durable[s] \subseteq {"events"}
  BY <1>1 DEF BeginWrite, NameFacts, StageFacts, Working
<1>3. PICK f \in Entries, next \in {"genesis", "lock", "sync events"} :
        /\ partial' = [partial EXCEPT ![s] = {f}] /\ pc' = [pc EXCEPT ![s] = next]
        /\ \/ next = "genesis" /\ present[s] = {"events"} /\ f = "header.json"
           \/ next = "lock" /\ present[s] = {"events", "header.json"} /\ f = "00000001.json"
           \/ /\ next = "sync events" /\ present[s] = {"events", "header.json", "00000001.json"}
              /\ f = ".writer.lock"
  <2> DEFINE goes(f, next) == partial' = [partial EXCEPT ![s] = {f}] /\ pc' = [pc EXCEPT ![s] = next]
  <2>1. "header.json" \in Entries /\ "00000001.json" \in Entries /\ ".writer.lock" \in Entries
    BY DEF Entries, InStage, InEvents
  <2>2. present[s] = Made(s)
    BY <1>2 DEF Made
  <2>3. CASE pc[s] = "header"
    <3>1. present[s] = {"events"} /\ goes("header.json", "genesis")
      BY <1>1, <2>2, <2>3 DEF BeginWrite, StageFacts
    <3> QED BY <2>1, <3>1
  <2>4. CASE pc[s] = "genesis"
    <3>1. present[s] = {"events", "header.json"} /\ goes("00000001.json", "lock")
      BY <1>1, <2>2, <2>4 DEF BeginWrite, StageFacts
    <3> QED BY <2>1, <3>1
  <2>5. CASE pc[s] = "lock"
    <3>1. present[s] = {"events", "header.json", "00000001.json"} /\ goes(".writer.lock", "sync events")
      BY <1>1, <2>2, <2>5 DEF BeginWrite, StageFacts
    <3> QED BY <2>1, <3>1
  <2> QED BY <1>2, <2>3, <2>4, <2>5
<1>4. partial'[s] = {f} /\ pc'[s] = next /\ f # "events" /\ f \notin present[s]
  BY <1>1, <1>3 DEF Types
<1>5. Types'
  BY <1>1, <1>2, <1>3 DEF Types, Working
<1>6. Fits(s)'
  BY <1>1, <1>2, <1>3, <1>4 DEF Fits
<1>7. NameFacts(s)'
  BY <1>1, <1>2, <1>4 DEF NameFacts, Secured, Working, Fits
<1>8. StageFacts(s)'
  BY <1>2, <1>3, <1>4 DEF StageFacts, Made, Entries, InStage, InEvents
<1>9. \A o \in Starts \ {s} : Same(o)
  BY <1>1, <1>2, <1>3 DEF Types, Same
<1> QED BY <1>2, <1>5, <1>6, <1>7, <1>8, <1>9, OneStart

LEMMA EndWriteStep ==
  ASSUME StartInv, NEW s \in Starts, EndWrite(s)
  PROVE  StartInv'
<1> USE DEF EndWrite, At, Goto, Becomes, Sync, directory
<1>1. Types /\ Fits(s) /\ NameFacts(s) /\ StageFacts(s)
  BY DEF StartInv, StartFacts
<1>2. Types'
  BY <1>1, StartAssumption DEF Types, Working, Removing, Ended, Entries, InStage, InEvents
<1>3. Fits(s)'
  BY <1>1 DEF Types, Fits, StageFacts, Made, InEvents
<1>4. NameFacts(s)'
  BY <1>1 DEF Types, Fits, NameFacts, Secured, Working, Removing, Ended
<1>5. StageFacts(s)'
  BY <1>1 DEF Types, Fits, StageFacts, Made, Working, Removing, Entries, InStage, InEvents
<1>6. \A o \in Starts \ {s} : Same(o)
  BY <1>1 DEF Types, Same
<1> QED BY <1>2, <1>3, <1>4, <1>5, <1>6, OneStart

LEMMA SyncEventsStep ==
  ASSUME StartInv, NEW s \in Starts, SyncEvents(s)
  PROVE  StartInv'
<1> USE DEF SyncEvents, At, Goto, Becomes, Sync, directory
<1>1. Types /\ Fits(s) /\ NameFacts(s) /\ StageFacts(s)
  BY DEF StartInv, StartFacts
<1>2. Types'
  BY <1>1, StartAssumption DEF Types, Working, Removing, Ended, Entries, InStage, InEvents
<1>3. Fits(s)'
  BY <1>1 DEF Types, Fits, StageFacts, Made, InEvents
<1>4. NameFacts(s)'
  BY <1>1 DEF Types, Fits, NameFacts, Secured, Working, Removing, Ended
<1>5. StageFacts(s)'
  BY <1>1 DEF Types, Fits, StageFacts, Made, Working, Removing, Entries, InStage, InEvents
<1>6. \A o \in Starts \ {s} : Same(o)
  BY <1>1 DEF Types, Same
<1> QED BY <1>2, <1>3, <1>4, <1>5, <1>6, OneStart

LEMMA SyncStageStep ==
  ASSUME StartInv, NEW s \in Starts, SyncStage(s)
  PROVE  StartInv'
<1> USE DEF SyncStage, At, Goto, Becomes, Sync, directory
<1>1. Types /\ Fits(s) /\ NameFacts(s) /\ StageFacts(s)
  BY DEF StartInv, StartFacts
<1>2. Types'
  BY <1>1, StartAssumption DEF Types, Working, Removing, Ended, Entries, InStage, InEvents
<1>3. Fits(s)'
  BY <1>1 DEF Types, Fits, StageFacts, Made, InEvents
<1>4. NameFacts(s)'
  <2>1. pc'[s] = "rename" /\ name[s] = "stage" /\ pc[s] = "sync stage"
    BY <1>1 DEF Types, NameFacts, Working, Ended
  <2>2. Secured(s)'
    BY <1>1, <2>1 DEF Types, StageFacts, Made, Secured, Entries
  <2> QED BY <1>1, <2>1, <2>2 DEF NameFacts, Working
<1>5. StageFacts(s)'
  BY <1>1 DEF Types, Fits, StageFacts, Made, Working, Removing, Entries, InStage, InEvents
<1>6. \A o \in Starts \ {s} : Same(o)
  BY <1>1 DEF Types, Same
<1> QED BY <1>2, <1>3, <1>4, <1>5, <1>6, OneStart

LEMMA RenameStep ==
  ASSUME StartInv, NEW s \in Starts, Rename(s)
  PROVE  StartInv'
<1> USE DEF Rename, At, Goto, Becomes, Sync, directory
<1>1. Types /\ Fits(s) /\ NameFacts(s) /\ StageFacts(s)
  BY DEF StartInv, StartFacts
<1>2. Types'
  BY <1>1, StartAssumption DEF Types, Working, Removing, Ended, Entries, InStage, InEvents
<1>3. Fits(s)'
  BY <1>1 DEF Types, Fits, StageFacts, Made, InEvents
<1>4. NameFacts(s)'
  BY <1>1 DEF Types, Fits, NameFacts, Secured, Working, Removing, Ended
<1>5. StageFacts(s)'
  BY <1>1 DEF Types, Fits, StageFacts, Made, Working, Removing, Entries, InStage, InEvents
<1>6. \A o \in Starts \ {s} : Same(o)
  BY <1>1 DEF Types, Same
<1> QED BY <1>2, <1>3, <1>4, <1>5, <1>6, OneStart

LEMMA SyncLoopsStep ==
  ASSUME StartInv, NEW s \in Starts, SyncLoops(s)
  PROVE  StartInv'
<1> USE DEF SyncLoops, At, Goto, Becomes, Sync, directory
<1>1. Types /\ Fits(s) /\ NameFacts(s) /\ StageFacts(s)
  BY DEF StartInv, StartFacts
<1>2. Types'
  BY <1>1, StartAssumption DEF Types, Working, Removing, Ended, Entries, InStage, InEvents
<1>3. Fits(s)'
  BY <1>1 DEF Types, Fits, StageFacts, Made, InEvents
<1>4. NameFacts(s)'
  BY <1>1 DEF Types, Fits, NameFacts, Secured, Working, Removing, Ended
<1>5. StageFacts(s)'
  BY <1>1 DEF Types, Fits, StageFacts, Made, Working, Removing, Entries, InStage, InEvents
<1>6. \A o \in Starts \ {s} : Same(o)
  BY <1>1 DEF Types, Same
<1> QED BY <1>2, <1>3, <1>4, <1>5, <1>6, OneStart

LEMMA InspectStep ==
  ASSUME StartInv, NEW s \in Starts, Inspect(s)
  PROVE  StartInv'
<1> USE DEF Inspect, At, Goto, Becomes, Sync, directory
<1>1. Types /\ Fits(s) /\ NameFacts(s) /\ StageFacts(s)
  BY DEF StartInv, StartFacts
<1>2. Types'
  BY <1>1, StartAssumption DEF Types, Working, Removing, Ended, Entries, InStage, InEvents
<1>3. Fits(s)'
  BY <1>1 DEF Types, Fits, StageFacts, Made, InEvents
<1>4. NameFacts(s)'
  BY <1>1 DEF Types, Fits, NameFacts, Secured, Working, Removing, Ended
<1>5. StageFacts(s)'
  <2>1. pc'[s] \in {"returned", "failed"} /\ partial' = partial /\ durable' = durable
    BY <1>1 DEF Types
  <2> QED BY <1>1, <2>1 DEF StageFacts
<1>6. \A o \in Starts \ {s} : Same(o)
  BY <1>1 DEF Types, Same
<1> QED BY <1>2, <1>3, <1>4, <1>5, <1>6, OneStart

LEMMA EmptyStep ==
  ASSUME StartInv, NEW s \in Starts, Empty(s)
  PROVE  StartInv'
<1> USE DEF Empty, At, Goto, Becomes, Sync, directory
<1>1. Types /\ Fits(s) /\ NameFacts(s) /\ StageFacts(s)
  BY DEF StartInv, StartFacts
<1>2. Types'
  BY <1>1, StartAssumption DEF Types, Working, Removing, Ended, Entries, InStage, InEvents
<1>3. Fits(s)'
  BY <1>1 DEF Types, Fits, StageFacts, Made, InEvents
<1>4. NameFacts(s)'
  BY <1>1 DEF Types, Fits, NameFacts, Secured, Working, Removing, Ended
<1>5. StageFacts(s)'
  <2>1. pc'[s] \in {"emptied", "failed"} /\ partial'[s] \subseteq partial[s] /\ durable' = durable
    BY <1>1 DEF Types
  <2> QED BY <1>1, <2>1 DEF StageFacts
<1>6. \A o \in Starts \ {s} : Same(o)
  BY <1>1 DEF Types, Same
<1> QED BY <1>2, <1>3, <1>4, <1>5, <1>6, OneStart

LEMMA RemoveStageStep ==
  ASSUME StartInv, NEW s \in Starts, RemoveStage(s)
  PROVE  StartInv'
<1> USE DEF RemoveStage, At, Goto, Becomes, Sync, directory
<1>1. Types /\ Fits(s) /\ NameFacts(s) /\ StageFacts(s)
  BY DEF StartInv, StartFacts
<1>2. Types'
  BY <1>1, StartAssumption DEF Types, Working, Removing, Ended, Entries, InStage, InEvents
<1>3. Fits(s)'
  BY <1>1 DEF Types, Fits, StageFacts, Made, InEvents
<1>4. NameFacts(s)'
  BY <1>1 DEF Types, Fits, NameFacts, Secured, Working, Removing, Ended
<1>5. StageFacts(s)'
  BY <1>1 DEF Types, Fits, StageFacts, Made, Working, Removing, Entries, InStage, InEvents
<1>6. \A o \in Starts \ {s} : Same(o)
  BY <1>1 DEF Types, Same
<1> QED BY <1>2, <1>3, <1>4, <1>5, <1>6, OneStart

LEMMA SyncRemovalStep ==
  ASSUME StartInv, NEW s \in Starts, SyncRemoval(s)
  PROVE  StartInv'
<1> USE DEF SyncRemoval, At, Goto, Becomes, Sync, directory
<1>1. Types /\ Fits(s) /\ NameFacts(s) /\ StageFacts(s)
  BY DEF StartInv, StartFacts
<1>2. Types'
  BY <1>1, StartAssumption DEF Types, Working, Removing, Ended, Entries, InStage, InEvents
<1>3. Fits(s)'
  BY <1>1 DEF Types, Fits, StageFacts, Made, InEvents
<1>4. NameFacts(s)'
  BY <1>1 DEF Types, Fits, NameFacts, Secured, Working, Removing, Ended
<1>5. StageFacts(s)'
  BY <1>1 DEF Types, Fits, StageFacts, Made, Working, Removing, Entries, InStage, InEvents
<1>6. \A o \in Starts \ {s} : Same(o)
  BY <1>1 DEF Types, Same
<1> QED BY <1>2, <1>3, <1>4, <1>5, <1>6, OneStart

LEMMA FaultStep ==
  ASSUME StartInv, NEW s \in Starts, Fault(s)
  PROVE  StartInv'
<1> USE DEF Fault, At, Goto, Becomes, Sync, directory
<1>1. Types /\ Fits(s) /\ NameFacts(s) /\ StageFacts(s)
  BY DEF StartInv, StartFacts
<1>2. Types'
  <2>1. pc' \in [Starts -> {"idle", "inspect"} \union Working \union Removing \union Ended]
    BY <1>1 DEF Types, Removing, Ended
  <2>2. partial' \in [Starts -> SUBSET Entries] /\ faults' \in 0..MaxFaults
    BY <1>1, StartAssumption DEF Types
  <2> QED BY <1>1, <2>1, <2>2 DEF Types
<1>3. Fits(s)'
  BY <1>1 DEF Types, Fits, StageFacts, Made, InEvents
<1>4. NameFacts(s)'
  BY <1>1 DEF Types, Fits, NameFacts, Secured, Working, Removing, Ended
<1>5. StageFacts(s)'
  <2>1. pc'[s] \in {"aborting", "failed", "littered"} /\ partial'[s] \subseteq partial[s] /\ durable' = durable
    BY <1>1 DEF Types
  <2> QED BY <1>1, <2>1 DEF StageFacts
<1>6. \A o \in Starts \ {s} : Same(o)
  BY <1>1 DEF Types, Same
<1> QED BY <1>2, <1>3, <1>4, <1>5, <1>6, OneStart

LEMMA FaultEmptyingStep ==
  ASSUME StartInv, NEW s \in Starts, FaultEmptying(s)
  PROVE  StartInv'
<1> USE DEF FaultEmptying, At, Goto, Becomes, Sync, directory
<1>1. Types /\ Fits(s) /\ NameFacts(s) /\ StageFacts(s)
  BY DEF StartInv, StartFacts
<1>2. Types'
  <2>1. pc' \in [Starts -> {"idle", "inspect"} \union Working \union Removing \union Ended]
    BY <1>1 DEF Types, Ended
  <2>2. present' \in [Starts -> SUBSET Entries] /\ partial' \in [Starts -> SUBSET Entries]
    BY <1>1 DEF Types
  <2>3. faults' \in 0..MaxFaults
    BY <1>1, StartAssumption DEF Types
  <2> QED BY <1>1, <2>1, <2>2, <2>3 DEF Types
<1>3. Fits(s)'
  BY <1>1 DEF Types, Fits, StageFacts, Made, InEvents
<1>4. NameFacts(s)'
  BY <1>1 DEF Types, Fits, NameFacts, Secured, Working, Removing, Ended
<1>5. StageFacts(s)'
  BY <1>1 DEF Types, Fits, StageFacts, Made, Working, Removing, Entries, InStage, InEvents
<1>6. \A o \in Starts \ {s} : Same(o)
  BY <1>1 DEF Types, Same
<1> QED BY <1>2, <1>3, <1>4, <1>5, <1>6, OneStart

LEMMA KillStep ==
  ASSUME StartInv, NEW s \in Starts, Kill(s)
  PROVE  StartInv'
<1> USE DEF Kill, At, Goto, Becomes, Sync, directory
<1>1. Types /\ Fits(s) /\ NameFacts(s) /\ StageFacts(s)
  BY DEF StartInv, StartFacts
<1>2. Types'
  <2>1. pc' \in [Starts -> {"idle", "inspect"} \union Working \union Removing \union Ended]
    BY <1>1 DEF Types, Ended
  <2>2. faults' \in 0..MaxFaults
    BY <1>1, StartAssumption DEF Types
  <2> QED BY <1>1, <2>1, <2>2 DEF Types
<1>3. Fits(s)'
  BY <1>1 DEF Types, Fits, StageFacts, Made, InEvents
<1>4. NameFacts(s)'
  BY <1>1 DEF Types, Fits, NameFacts, Secured, Working, Removing, Ended
<1>5. StageFacts(s)'
  BY <1>1 DEF Types, Fits, StageFacts, Made, Working, Removing, Entries, InStage, InEvents
<1>6. \A o \in Starts \ {s} : Same(o)
  BY <1>1 DEF Types, Same
<1> QED BY <1>2, <1>3, <1>4, <1>5, <1>6, OneStart

(* Losing the power leaves all of what may be called a loop.               *)
LEMMA PowerLossStep ==
  ASSUME StartInv, PowerLoss
  PROVE  StartInv'
<1> USE DEF PowerLoss
<1>1. Types
  BY DEF StartInv
<1>2. Types'
  <2>1. pc' \in [Starts -> {"idle", "inspect"} \union Working \union Removing \union Ended]
    BY <1>1 DEF Types, Ended
  <2>2. losses' \in 0..MaxPowerLosses
    BY <1>1, StartAssumption DEF Types
  <2>3. maybe' \in [Starts -> SUBSET {"none", "stage", "loop"}]
    BY <1>1 DEF Types
  <2> QED BY <1>1, <2>1, <2>2, <2>3 DEF Types
<1>3. ASSUME NEW s \in Starts PROVE StartFacts(s)'
  <2>1. Fits(s) /\ NameFacts(s) /\ StageFacts(s)
    BY DEF StartInv, StartFacts
  <2>2. /\ name'[s] \in maybe[s] /\ maybe'[s] = {name'[s]} /\ durable' = present'
        /\ present'[s] \subseteq present[s] \union durable[s] /\ partial'[s] \subseteq partial[s]
        /\ name'[s] # "none" => present[s] \intersect durable[s] \subseteq present'[s]
        /\ name'[s] = "none" => present'[s] = {} /\ partial'[s] = {}
        /\ InEvents \intersect (present'[s] \union partial'[s]) # {} => "events" \in present'[s]
    OBVIOUS
  <2>3. /\ pc'[s] = IF pc[s] \in {"idle"} \union Ended THEN pc[s] ELSE "dead"
        /\ losses' # 0 /\ answered' = answered
    BY <1>1, StartAssumption DEF Types
  <2>4. Fits(s)'
    BY <2>1, <2>2 DEF Fits, StageFacts
  <2>5. "loop" \in maybe'[s] => name'[s] = "loop" /\ Secured(s)'
    BY <2>1, <2>2 DEF NameFacts, Secured
  <2>6. pc'[s] \in {"idle"} \union Ended
    BY <2>3 DEF Ended
  <2>7. NameFacts(s)'
    BY <2>1, <2>2, <2>3, <2>5, <2>6 DEF NameFacts, Working, Ended
  <2>8. StageFacts(s)'
    <3>1. durable'[s] \intersect partial'[s] = {}
      BY <2>1, <2>2 DEF Fits, StageFacts
    <3>2. pc'[s] = "idle" => Made(s)' = {} /\ durable'[s] = {}
      BY <2>1, <2>2, <2>3 DEF StageFacts, NameFacts, Made, Ended
    <3> QED BY <2>6, <3>1, <3>2 DEF StageFacts, Ended
  <2> QED BY <2>4, <2>7, <2>8 DEF StartFacts
<1> QED BY <1>2, <1>3 DEF StartInv

LEMMA NextInv == StartInv /\ [Next]_vars => StartInv'
<1> SUFFICES ASSUME StartInv, [Next]_vars PROVE StartInv'
  OBVIOUS
<1>1. ASSUME NEW s \in Starts, Step(s) PROVE StartInv'
  BY <1>1, MakeEventsStep, SyncMadeStep, BeginWriteStep, EndWriteStep, SyncEventsStep, SyncStageStep,
     RenameStep, SyncLoopsStep, InspectStep, EmptyStep, RemoveStageStep, SyncRemovalStep DEF Step
<1>2. ASSUME NEW s \in Starts, MakeStage(s) \/ Fault(s) \/ FaultEmptying(s) \/ Kill(s) PROVE StartInv'
  BY <1>2, MakeStageStep, FaultStep, FaultEmptyingStep, KillStep
<1>3. CASE PowerLoss
  BY <1>3, PowerLossStep
<1>4. CASE UNCHANGED vars
  <2>1. \A s \in Starts : Same(s)
    BY <1>4 DEF vars, directory, Same
  <2>2. Types'
    BY <1>4 DEF StartInv, Types, vars, directory
  <2> QED BY <1>4, <2>1, <2>2, OtherStarts DEF StartInv, vars
<1> QED BY <1>1, <1>2, <1>3, <1>4 DEF Next

-----------------------------------------------------------------------------
(* What is known of every start at each of its steps.                      *)
THEOREM StartInvariant == Spec => []StartInv
<1> QED BY InitInv, NextInv, PTL DEF Spec

(* Directories and steps keep their types, and no file is in the events    *)
(* directory when that is gone.                                            *)
THEOREM StartAlwaysTyped == Spec => []StartTypeOK
<1>1. StartInv => StartTypeOK
  BY DEF StartInv, StartFacts, Types, Fits, StartTypeOK
<1> QED BY <1>1, StartInvariant, PTL

(* A start that fails has removed its staging directory                    *)
(* (_remove_owned_stage), unless that was cut off or the power was lost.   *)
THEOREM FailedStartsCleanUp == Spec => []FailedStartCleansUp
<1>1. StartInv => FailedStartCleansUp
  BY DEF StartInv, StartFacts, NameFacts, FailedStartCleansUp
<1> QED BY <1>1, StartInvariant, PTL

-----------------------------------------------------------------------------
(* What PublishOnce sees of a start.                                       *)
Loop(s) == IF name[s] = "loop" THEN <<Readable(s), present[s]>> ELSE <<FALSE, {}>>
LoopView == [s \in Starts |-> Loop(s)]

LEMMA WholeLoop ==
  ASSUME StartInv, NEW s \in Starts, name[s] = "loop"
  PROVE  Readable(s) /\ Loop(s) = <<TRUE, Entries>>
<1>1. Secured(s)
  BY DEF StartInv, StartFacts, Fits, NameFacts
<1> QED BY <1>1 DEF Secured, Readable, Loop

(* Only renaming the stage and losing the power change what is seen.       *)
LEMMA SeenUnchanged ==
  ASSUME StartInv, StartInv', NEW s \in Starts, name'[s] = name[s]
  PROVE  Loop(s)' = Loop(s)
<1>1. ASSUME name[s] = "loop" PROVE Loop(s)' = <<TRUE, Entries>>
  <2>1. Secured(s)'
    BY <1>1 DEF StartInv, StartFacts, Fits, NameFacts
  <2> QED BY <1>1, <2>1 DEF Secured, Readable, Loop
<1>2. CASE name[s] = "loop"
  BY <1>1, <1>2, WholeLoop
<1>3. CASE name[s] # "loop"
  BY <1>3 DEF Loop
<1> QED BY <1>2, <1>3

LEMMA RenameView ==
  ASSUME StartInv, StartInv', NEW s \in Starts, Rename(s)
  PROVE  Loops!Publish(s)
<1>1. name \in [Starts -> {"none", "stage", "loop"}] /\ name[s] = "stage"
  BY DEF Rename, At, Working, StartInv, Types, StartFacts, NameFacts
<1>2. name'[s] = "loop" /\ answered' = answered /\ \A o \in Starts \ {s} : name'[o] = name[o]
  BY <1>1 DEF Rename, Becomes
<1>3. Loop(s) = <<FALSE, {}>>
  BY <1>1 DEF Loop
<1>4. Loop(s)' = <<TRUE, Entries>>
  <2>1. Secured(s)'
    BY <1>2 DEF StartInv, StartFacts, Fits, NameFacts
  <2> QED BY <1>2, <2>1 DEF Secured, Readable, Loop
<1>5. \A o \in Starts \ {s} : Loop(o)' = Loop(o)
  BY <1>2, SeenUnchanged
<1>6. LoopView' = [LoopView EXCEPT ![s] = <<TRUE, Entries>>]
  BY <1>4, <1>5 DEF LoopView
<1>7. LoopView[s] = <<FALSE, {}>>
  BY <1>3 DEF LoopView
<1> QED BY <1>2, <1>6, <1>7 DEF Loops!Publish, LoopView, Loop

(* A caller is told of a loop that is there.                               *)
LEMMA InspectView ==
  ASSUME StartInv, StartInv', NEW s \in Starts, Inspect(s)
  PROVE  Loops!Confirm(s)
<1>1. name' = name /\ name[s] = "loop"
  BY DEF Inspect, At, directory, StartInv, StartFacts, Fits, NameFacts
<1>2. Readable(s) /\ Loop(s) # <<FALSE, {}>>
  <2>1. Readable(s) /\ Loop(s) = <<TRUE, Entries>>
    BY <1>1, WholeLoop
  <2>2. Entries # {}
    BY DEF Entries, InEvents
  <2> QED BY <2>1, <2>2
<1>3. LoopView' = LoopView
  BY <1>1, SeenUnchanged DEF LoopView
<1>4. LoopView[s] # <<FALSE, {}>>
  BY <1>2 DEF LoopView
<1>5. answered' = answered \union {s}
  BY <1>2 DEF Inspect
<1> QED BY <1>3, <1>4, <1>5 DEF Loops!Confirm, LoopView, Loop

(* A power loss takes back only loops that no caller was told of.          *)
LEMMA LossView ==
  ASSUME StartInv, StartInv', PowerLoss
  PROVE  Loops!Lose
<1> DEFINE lost == {s \in Starts : name[s] = "loop" /\ name'[s] # "loop"}
<1>1. answered' = answered /\ \A s \in Starts : name'[s] \in maybe[s]
  BY DEF PowerLoss
<1>2. lost \in SUBSET (Starts \ answered)
  BY <1>1 DEF StartInv, StartFacts, NameFacts, Types
<1>3. ASSUME NEW s \in Starts
      PROVE  Loop(s)' = IF s \in lost THEN <<FALSE, {}>> ELSE Loop(s)
  <2>1. CASE s \in lost
    BY <2>1 DEF Loop
  <2>2. CASE name'[s] = "loop"
    <3>1. name[s] = "loop"
      BY <1>1, <2>2 DEF StartInv, StartFacts, NameFacts
    <3> QED BY <2>2, <3>1, SeenUnchanged
  <2>3. CASE name[s] # "loop" /\ name'[s] # "loop"
    BY <2>3 DEF Loop
  <2> QED BY <2>1, <2>2, <2>3
<1>4. LoopView' = [s \in Starts |-> IF s \in lost THEN <<FALSE, {}>> ELSE LoopView[s]]
  BY <1>3 DEF LoopView
<1> QED BY <1>1, <1>2, <1>4 DEF Loops!Lose, LoopView, Loop

(* Every other step leaves what is seen alone.                             *)
LEMMA HiddenStep ==
  ASSUME StartInv, StartInv', NEW s \in Starts, ~Rename(s), ~Inspect(s),
         MakeStage(s) \/ Step(s) \/ Fault(s) \/ FaultEmptying(s) \/ Kill(s)
  PROVE  LoopView' = LoopView /\ answered' = answered
<1>1. answered' = answered
  BY DEF MakeStage, Step, Fault, FaultEmptying, Kill, MakeEvents, SyncMade, BeginWrite, EndWrite,
         SyncEvents, SyncStage, SyncLoops, Empty, RemoveStage, SyncRemoval
<1>2. CASE name' = name
  <2>1. \A o \in Starts : Loop(o)' = Loop(o)
    BY <1>2, SeenUnchanged
  <2> QED BY <1>1, <2>1 DEF LoopView
<1>3. CASE MakeStage(s) \/ RemoveStage(s)
  <2>1. name[s] # "loop" /\ name'[s] # "loop" /\ \A o \in Starts \ {s} : name'[o] = name[o]
    <3>1. name[s] # "loop" /\ name \in [Starts -> {"none", "stage", "loop"}]
      BY <1>3 DEF MakeStage, RemoveStage, StartInv, Types, StartFacts, Fits, NameFacts
    <3> QED BY <1>3, <3>1 DEF MakeStage, RemoveStage, Becomes
  <2>2. Loop(s)' = Loop(s)
    BY <2>1 DEF Loop
  <2>3. \A o \in Starts \ {s} : Loop(o)' = Loop(o)
    BY <2>1, SeenUnchanged
  <2> QED BY <1>1, <2>2, <2>3 DEF LoopView
<1>4. name' = name \/ MakeStage(s) \/ RemoveStage(s)
  BY DEF Step, Fault, FaultEmptying, Kill, MakeEvents, SyncMade, BeginWrite, EndWrite,
         SyncEvents, SyncStage, SyncLoops, Empty, SyncRemoval, directory
<1> QED BY <1>2, <1>3, <1>4

(* A loop appears at once and whole, and none whose start has returned is  *)
(* ever lost.                                                              *)
THEOREM StartsImplementPublishOnce == Spec => StartSpec
<1>1. Init => Loops!Init
  BY DEF Init, Loops!Init
<1>2. StartInv /\ StartInv' /\ [Next]_vars => [Loops!Next]_<<LoopView, answered>>
  <2> SUFFICES ASSUME StartInv, StartInv', [Next]_vars PROVE [Loops!Next]_<<LoopView, answered>>
    OBVIOUS
  <2>1. ASSUME NEW s \in Starts, Rename(s) \/ Inspect(s) PROVE Loops!Next
    BY <2>1, RenameView, InspectView DEF Loops!Next
  <2>2. CASE PowerLoss
    BY <2>2, LossView DEF Loops!Next
  <2>3. CASE UNCHANGED vars
    <3>1. \A s \in Starts : Loop(s)' = Loop(s)
      BY <2>3, SeenUnchanged DEF vars, directory
    <3> QED BY <2>3, <3>1 DEF vars, LoopView
  <2>4. ASSUME NEW s \in Starts, ~Rename(s), ~Inspect(s),
               MakeStage(s) \/ Step(s) \/ Fault(s) \/ FaultEmptying(s) \/ Kill(s)
        PROVE  [Loops!Next]_<<LoopView, answered>>
    BY <2>4, HiddenStep
  <2> QED BY <2>1, <2>2, <2>3, <2>4 DEF Next
<1>3. StartInv /\ StartInv' /\ [Next]_vars =>
        [Loops!Next]_<<[s \in Starts |-> IF name[s] = "loop" THEN <<Readable(s), present[s]>>
                                         ELSE <<FALSE, {}>>], answered>>
  BY <1>2 DEF LoopView, Loop
<1> QED BY <1>1, <1>3, StartInvariant, PTL DEF Spec, StartSpec, Loops!Spec
=============================================================================
