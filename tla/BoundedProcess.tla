---------------------------- MODULE BoundedProcess ----------------------------
(***************************************************************************)
(* run_bounded_argv: one command with its two output pipes, the two        *)
(* threads that drain them, and the caller, which waits for the command,   *)
(* kills it when it takes too long, and joins the threads.  The command    *)
(* may leave a descendant that holds its pipes.                            *)
(*                                                                         *)
(* The bytes of a stream are its positions 1, 2, ...: how many were        *)
(* written, are in the pipe and were gathered by a blocking read tell      *)
(* which ones a reader has in hand.                                        *)
(***************************************************************************)
EXTENDS Integers, Sequences

CONSTANTS
  Limit,     \* max_output_bytes
  PipeSize,  \* bytes a pipe holds
  ReadSize,  \* bytes a read asks for
  MaxOutput  \* bytes a command may write to each stream

Streams == {"stdout", "stderr"}

ASSUME ProcessAssumption ==
  /\ Limit \in Nat /\ PipeSize \in Nat \ {0} /\ ReadSize \in Nat \ {0}
  /\ MaxOutput \in [Streams -> Nat]

VARIABLES
  call,     \* where run_bounded_argv is
  child, code, \* the command, and how it ended
  holders,  \* processes that have the write ends open
  written, pipe, gathered,
  kept, truncated, reader, \* of each stream: outputs, truncated, its thread
  result    \* the ProcessResult

process == <<call, child, code, holders, written, pipe, gathered, kept, truncated, reader, result>>

Invalid(error) == [code |-> "none", class |-> "infrastructure-invalid", error |-> error,
                   output |-> [s \in Streams |-> <<>>]]

ProcessInit ==
  /\ call = "idle" /\ child = "none" /\ code = "none" /\ holders = {}
  /\ written = [s \in Streams |-> 0] /\ pipe = [s \in Streams |-> 0]
  /\ gathered = [s \in Streams |-> 0]
  /\ kept = [s \in Streams |-> <<>>] /\ truncated = [s \in Streams |-> FALSE]
  /\ reader = [s \in Streams |-> "none"]
  /\ result = Invalid("none")

(* The process object is dropped.                                          *)
Forget ==
  /\ call' = "idle" /\ child' = "none" /\ code' = "none" /\ holders' = {}
  /\ written' = [s \in Streams |-> 0] /\ pipe' = [s \in Streams |-> 0]
  /\ gathered' = [s \in Streams |-> 0]
  /\ kept' = [s \in Streams |-> <<>>] /\ truncated' = [s \in Streams |-> FALSE]
  /\ reader' = [s \in Streams |-> "none"]
  /\ result' = Invalid("none")

-----------------------------------------------------------------------------
(* Popen, and the start of the readers.                                    *)
Popen ==
  /\ call = "idle"
  /\ call' = "waiting" /\ child' = "running" /\ holders' = {"child"}
  /\ reader' = [s \in Streams |-> "reading"]
  /\ UNCHANGED <<code, written, pipe, gathered, kept, truncated, result>>

PopenFails ==
  /\ call = "idle"
  /\ call' = "returned"
  /\ \E error \in {"FAST-EXEC-001", "FAST-EXEC-003"} : result' = Invalid(error)
  /\ UNCHANGED <<child, code, holders, written, pipe, gathered, kept, truncated, reader>>

(* What the command and its descendant do.                                 *)
Write(s) ==
  /\ holders # {} /\ written[s] < MaxOutput[s] /\ pipe[s] < PipeSize
  /\ written' = [written EXCEPT ![s] = @ + 1] /\ pipe' = [pipe EXCEPT ![s] = @ + 1]
  /\ UNCHANGED <<call, child, code, holders, gathered, kept, truncated, reader, result>>

Fork ==
  /\ child = "running" /\ holders' = holders \union {"descendant"}
  /\ UNCHANGED <<call, child, code, written, pipe, gathered, kept, truncated, reader, result>>

Exit ==
  /\ child = "running" /\ child' = "exited"
  /\ code' \in {"zero", "nonzero"}
  /\ holders' = holders \ {"child"}
  /\ UNCHANGED <<call, written, pipe, gathered, kept, truncated, reader, result>>

DescendantExits ==
  /\ holders' = holders \ {"descendant"}
  /\ UNCHANGED <<call, child, code, written, pipe, gathered, kept, truncated, reader, result>>

-----------------------------------------------------------------------------
(* Mutant: stderr is read when stdout has ended.                           *)
GatherInTurn(s) ==
  /\ reader[s] = "reading" /\ pipe[s] > 0 /\ gathered[s] < ReadSize
  /\ s = "stdout" \/ reader["stdout"] # "reading"
  /\ pipe' = [pipe EXCEPT ![s] = @ - 1] /\ gathered' = [gathered EXCEPT ![s] = @ + 1]
  /\ UNCHANGED <<call, child, code, holders, written, kept, truncated, reader, result>>

(* stream.read(8192) blocks until it has as many bytes or the pipe ends.   *)
Gather(s) ==
  /\ reader[s] = "reading" /\ pipe[s] > 0 /\ gathered[s] < ReadSize
  /\ pipe' = [pipe EXCEPT ![s] = @ - 1] /\ gathered' = [gathered EXCEPT ![s] = @ + 1]
  /\ UNCHANGED <<call, child, code, holders, written, kept, truncated, reader, result>>

AtEnd(s) == pipe[s] = 0 /\ holders = {}
Chunk(s) == [i \in 1..gathered[s] |-> written[s] - pipe[s] - gathered[s] + i]

(* Mutant: what begins below the limit is kept whole.                      *)
DrainWhole(s) ==
  /\ reader[s] = "reading" /\ gathered[s] > 0
  /\ gathered[s] = ReadSize \/ AtEnd(s)
  /\ kept' = [kept EXCEPT ![s] = IF Len(@) < Limit THEN @ \o Chunk(s) ELSE @]
  /\ truncated' = [truncated EXCEPT ![s] = @ \/ gathered[s] > Limit - Len(kept[s])]
  /\ gathered' = [gathered EXCEPT ![s] = 0]
  /\ UNCHANGED <<call, child, code, holders, written, pipe, reader, result>>

(* Mutant: output that just fits is said to be truncated.                  *)
DrainMarksFull(s) ==
  /\ reader[s] = "reading" /\ gathered[s] > 0
  /\ gathered[s] = ReadSize \/ AtEnd(s)
  /\ LET remaining == Limit - Len(kept[s]) IN
     /\ kept' = [kept EXCEPT ![s] = @ \o SubSeq(Chunk(s), 1, IF remaining < gathered[s] THEN remaining ELSE gathered[s])]
     /\ truncated' = [truncated EXCEPT ![s] = @ \/ gathered[s] >= remaining]
  /\ gathered' = [gathered EXCEPT ![s] = 0]
  /\ UNCHANGED <<call, child, code, holders, written, pipe, reader, result>>

(* The body of the loop of drain, with what read returned.                 *)
Drain(s) ==
  /\ reader[s] = "reading" /\ gathered[s] > 0
  /\ gathered[s] = ReadSize \/ AtEnd(s)
  /\ LET remaining == Limit - Len(kept[s]) IN
     /\ kept' = [kept EXCEPT ![s] = @ \o SubSeq(Chunk(s), 1, IF remaining < gathered[s] THEN remaining ELSE gathered[s])]
     /\ truncated' = [truncated EXCEPT ![s] = @ \/ gathered[s] > remaining]
  /\ gathered' = [gathered EXCEPT ![s] = 0]
  /\ UNCHANGED <<call, child, code, holders, written, pipe, reader, result>>

DrainEnds(s) ==
  /\ reader[s] = "reading" /\ gathered[s] = 0 /\ AtEnd(s)
  /\ reader' = [reader EXCEPT ![s] = "ended"]
  /\ UNCHANGED <<call, child, code, holders, written, pipe, gathered, kept, truncated, result>>

(* read raises OSError: read_failed is set and the thread ends.            *)
DrainFails(s) ==
  /\ reader[s] = "reading"
  /\ reader' = [reader EXCEPT ![s] = "failed"]
  /\ UNCHANGED <<call, child, code, holders, written, pipe, gathered, kept, truncated, result>>

-----------------------------------------------------------------------------
WaitReturns ==
  /\ call = "waiting" /\ child = "exited"
  /\ call' = "joining"
  /\ UNCHANGED <<child, code, holders, written, pipe, gathered, kept, truncated, reader, result>>

TimesOut ==
  /\ call = "waiting" /\ child = "running"
  /\ call' = "killing"
  /\ UNCHANGED <<child, code, holders, written, pipe, gathered, kept, truncated, reader, result>>

(* kill and wait: the command alone is killed, if it has not ended since.  *)
KillAndWait ==
  /\ call = "killing"
  /\ call' = "joining killed"
  /\ child' = "exited" /\ holders' = holders \ {"child"}
  /\ code' = IF child = "running" THEN "killed" ELSE code
  /\ UNCHANGED <<written, pipe, gathered, kept, truncated, reader, result>>

Completed ==
  [code |-> IF code = "zero" THEN "zero" ELSE "nonzero",
   class |-> IF code = "zero" THEN "none" ELSE "product-fail",
   error |-> IF code = "zero" THEN "none" ELSE "FAST-EXEC-004",
   output |-> kept]

(* Mutant: a command that was killed is judged by its return code.         *)
JudgeAny == IF \E s \in Streams : reader[s] = "failed" THEN Invalid("FAST-EXEC-003") ELSE Completed

Judge ==
  IF call = "joining killed" THEN Invalid("FAST-EXEC-002")
  ELSE IF \E s \in Streams : reader[s] = "failed" THEN Invalid("FAST-EXEC-003") ELSE Completed

(* Mutant: a reader that failed is waited for.                             *)
JoinEnded ==
  /\ call \in {"joining", "joining killed"}
  /\ \A s \in Streams : reader[s] = "ended"
  /\ call' = "returned" /\ result' = Judge
  /\ UNCHANGED <<child, code, holders, written, pipe, gathered, kept, truncated, reader>>

Join ==
  /\ call \in {"joining", "joining killed"}
  /\ \A s \in Streams : reader[s] # "reading"
  /\ call' = "returned" /\ result' = Judge
  /\ UNCHANGED <<child, code, holders, written, pipe, gathered, kept, truncated, reader>>

-----------------------------------------------------------------------------
(* What others do, the readers, and the caller.                            *)
CommandStep == (\E s \in Streams : Write(s)) \/ Fork \/ Exit \/ DescendantExits
ReaderStep(s) == Gather(s) \/ Drain(s) \/ DrainEnds(s)
CallerStep == WaitReturns \/ TimesOut \/ KillAndWait \/ Join
ProcessNext == CommandStep \/ (\E s \in Streams : ReaderStep(s) \/ DrainFails(s)) \/ CallerStep

ProcessTypeOK ==
  /\ call \in {"idle", "waiting", "killing", "joining", "joining killed", "returned"}
  /\ child \in {"none", "running", "exited"} /\ code \in {"none", "zero", "nonzero", "killed"}
  /\ holders \subseteq {"child", "descendant"}
  /\ \A s \in Streams :
       /\ written[s] \in 0..MaxOutput[s]
       /\ pipe[s] \in 0..PipeSize /\ gathered[s] \in 0..ReadSize
       /\ pipe[s] + gathered[s] <= written[s]
       /\ kept[s] \in Seq(1..MaxOutput[s]) /\ Len(kept[s]) <= Limit
       /\ reader[s] \in {"none", "reading", "ended", "failed"}

(* What is returned as the output of a command that ended by itself is how *)
(* all that it and its descendants wrote begins, up to the limit, and      *)
(* output_truncated tells whether that is not all.                         *)
OutputFaithful ==
  call = "returned" /\ result.code # "none" =>
    \A s \in Streams :
      /\ result.output[s] = [i \in 1..(IF Limit < written[s] THEN Limit ELSE written[s]) |-> i]
      /\ truncated[s] <=> written[s] > Limit

(* A command never waits for ever to write: its pipe is drained, past the  *)
(* limit too, unless reading has failed.                                   *)
PipesDrained ==
  \A s \in Streams : pipe[s] = PipeSize ~> (pipe[s] < PipeSize \/ reader[s] = "failed")
=============================================================================
