------------------------------- MODULE LoopLog -------------------------------
(***************************************************************************)
(* What a loop's journal promises, whatever processes, failed system calls *)
(* and power losses do: a log that grows by one admissible event at a      *)
(* time, of which a power loss takes back at most a tail that no caller    *)
(* was told to be recorded.                                                *)
(***************************************************************************)
EXTENDS Integers, Sequences

CONSTANTS
  First,           \* the event a loop starts with
  Events,          \* the events callers offer
  Admissible(_, _) \* may this event follow this log?

VARIABLES
  log,     \* the events recorded
  promised \* positions of the events that callers know to be recorded

Record ==
  \E e \in Events : /\ Admissible(log, e)
                    /\ log' = Append(log, e)
                    /\ UNCHANGED promised

Promise ==
  /\ \E i \in 1..Len(log) : promised' = promised \union {i}
  /\ UNCHANGED log

Lose ==
  /\ \E k \in 1..Len(log) : /\ \A i \in promised : i <= k
                            /\ log' = SubSeq(log, 1, k)
  /\ UNCHANGED promised

Init == log = <<First>> /\ promised = {1}
Next == Record \/ Promise \/ Lose
Spec == Init /\ [][Next]_<<log, promised>>
=============================================================================
