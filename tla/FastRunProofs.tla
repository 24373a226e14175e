---------------------------- MODULE FastRunProofs ----------------------------
(***************************************************************************)
(* Proofs about FastRun and the bounded process below it, for every limit, *)
(* size of a pipe and of a read, every manifest, and commands that write   *)
(* any number of bytes.                                                    *)
(***************************************************************************)
EXTENDS FastRun, FiniteSetTheorems, WellFoundedInduction, TLAPS

-----------------------------------------------------------------------------
(***************************************************************************)
(* The bounded process: what a reader has kept is how the bytes it has     *)
(* taken out of the pipe begin.                                            *)
(***************************************************************************)
Fitting(n) == IF Limit < n THEN Limit ELSE n
Begins(n) == [i \in 1..Fitting(n) |-> i]
Consumed(s) == written[s] - pipe[s] - gathered[s]

Errors == {"FAST-EXEC-001", "FAST-EXEC-002", "FAST-EXEC-003"}
InCall == {"waiting", "killing", "joining", "joining killed"}

ProcessTypes ==
  /\ call \in {"idle", "returned"} \union InCall
  /\ child \in {"none", "running", "exited"} /\ code \in {"none", "zero", "nonzero", "killed"}
  /\ holders \subseteq {"child", "descendant"}
  /\ written \in [Streams -> Nat] /\ pipe \in [Streams -> 0..PipeSize]
  /\ gathered \in [Streams -> 0..ReadSize]
  /\ kept \in [Streams -> Seq(Nat)] /\ truncated \in [Streams -> BOOLEAN]
  /\ reader \in [Streams -> {"none", "reading", "ended", "failed"}]

StreamFacts(s) ==
  /\ written[s] <= MaxOutput[s] /\ pipe[s] + gathered[s] <= written[s]
  /\ kept[s] = Begins(Consumed(s))
  /\ truncated[s] <=> Consumed(s) > Limit
  /\ reader[s] = "ended" => pipe[s] = 0 /\ gathered[s] = 0 /\ holders = {}

(* How far the command has come when its caller is at a step.              *)
CallFacts ==
  /\ call = "idle" => holders = {} /\ child = "none"
  /\ child = "running" => "child" \in holders /\ call \in {"waiting", "killing"}
  /\ call = "joining" => child = "exited"
  /\ child = "exited" /\ call \in {"waiting", "killing", "joining"} => code \in {"zero", "nonzero"}
  /\ call \in InCall => child # "none" /\ \A s \in Streams : reader[s] # "none"

(* What is returned: a command that ended by itself is judged by its code, *)
(* when both readers have come to the end of their pipes.                  *)
ResultFacts ==
  call = "returned" =>
    \/ /\ result = Completed /\ code \in {"zero", "nonzero"} /\ child # "running" /\ holders = {}
       /\ \A s \in Streams : reader[s] = "ended"
    \/ \E error \in Errors : result = Invalid(error)

ProcessInv == ProcessTypes /\ (\A s \in Streams : StreamFacts(s)) /\ CallFacts /\ ResultFacts

LEMMA FittingFacts ==
  ASSUME NEW n \in Nat
  PROVE  Fitting(n) \in 0..n /\ Fitting(n) <= Limit /\ (n <= Limit => Fitting(n) = n) /\ (n >= Limit => Fitting(n) = Limit)
BY ProcessAssumption DEF Fitting

LEMMA BeginsFacts ==
  ASSUME NEW n \in Nat
  PROVE  /\ Begins(n) \in Seq(Nat) /\ Len(Begins(n)) = Fitting(n)
         /\ \A i \in 1..Fitting(n) : Begins(n)[i] = i
         /\ \A m \in Nat : n <= m => Begins(n) \in Seq(1..m)
<1>1. Fitting(n) \in Nat /\ Fitting(n) <= n
  BY FittingFacts
<1>2. Begins(n) \in Seq(Nat) /\ Len(Begins(n)) = Fitting(n) /\ \A i \in 1..Fitting(n) : Begins(n)[i] = i
  BY <1>1 DEF Begins
<1>3. ASSUME NEW m \in Nat, n <= m PROVE Begins(n) \in Seq(1..m)
  BY <1>1, <1>3 DEF Begins
<1> QED BY <1>2, <1>3

(* Sequences of numbers with the same elements are the same.               *)
LEMMA SameNumbers ==
  ASSUME NEW a \in Seq(Nat), NEW b \in Seq(Nat), Len(a) = Len(b), \A i \in 1..Len(a) : a[i] = b[i]
  PROVE  a = b
OBVIOUS

LEMMA Concatenated ==
  ASSUME NEW a \in Seq(Nat), NEW b \in Seq(Nat)
  PROVE  /\ a \o b \in Seq(Nat) /\ Len(a) \in Nat /\ Len(b) \in Nat /\ Len(a \o b) = Len(a) + Len(b)
         /\ \A i \in 1..Len(a) : (a \o b)[i] = a[i]
         /\ \A i \in 1..Len(b) : (a \o b)[Len(a) + i] = b[i]
OBVIOUS

LEMMA Counted ==
  ASSUME NEW a \in Seq(Nat), NEW b \in Seq(Nat), NEW c \in Seq(Nat), Len(c) = Len(a) + Len(b),
         \A i \in 1..Len(a) : a[i] = i, \A i \in 1..Len(b) : b[i] = Len(a) + i,
         \A i \in 1..Len(c) : c[i] = i
  PROVE  a \o b = c
<1> DEFINE k == Len(a)
           m == Len(b)
<1>1. k \in Nat /\ m \in Nat /\ Len(c) = k + m
  OBVIOUS
<1>2. a \o b \in Seq(Nat) /\ Len(a \o b) = k + m
  BY Concatenated
<1>3. \A i \in 1..k : (a \o b)[i] = i
  BY Concatenated
<1>4. \A i \in 1..m : (a \o b)[k + i] = k + i
  BY Concatenated
<1>5. \A i \in 1..(k + m) : c[i] = i
  BY <1>1
<1> HIDE DEF k, m
<1>6. ASSUME NEW i \in 1..(k + m), i > k PROVE (a \o b)[i] = i
  <2>1. i - k \in 1..m /\ k + (i - k) = i
    BY <1>1, <1>6
  <2>2. (a \o b)[k + (i - k)] = k + (i - k)
    BY <1>4, <2>1
  <2> QED BY <2>1, <2>2
<1>7. \A i \in 1..(k + m) : (a \o b)[i] = c[i]
  <2> SUFFICES ASSUME NEW i \in 1..(k + m) PROVE (a \o b)[i] = i
    BY <1>5
  <2>1. CASE i <= k
    BY <1>1, <1>3, <2>1
  <2>2. CASE ~(i <= k)
    BY <1>1, <1>6, <2>2
  <2> QED BY <2>1, <2>2
<1> QED BY <1>1, <1>2, <1>7, SameNumbers

(* Keeping what still fits of a chunk.                                     *)
ChunkBehind(n, g) == [i \in 1..g |-> n + i]
MoreFitting(n, g) == IF Limit - Fitting(n) < g THEN Limit - Fitting(n) ELSE g

LEMMA BeginsMore ==
  ASSUME NEW n \in Nat, NEW g \in Nat
  PROVE  /\ Begins(n) \o SubSeq(ChunkBehind(n, g), 1, MoreFitting(n, g)) = Begins(n + g)
         /\ g > 0 => (n + g > Limit <=> n > Limit \/ g > Limit - Fitting(n))
<1> DEFINE chunk == ChunkBehind(n, g)
           fits == MoreFitting(n, g)
           tail == SubSeq(chunk, 1, fits)
<1>1. Fitting(n) \in Nat /\ Limit \in Nat /\ Fitting(n) <= Limit /\ n + g \in Nat
  BY ProcessAssumption, FittingFacts
<1>2. /\ fits \in 0..g /\ Fitting(n + g) = Fitting(n) + fits
      /\ fits # 0 => Fitting(n) = n
      /\ g > 0 => (n + g > Limit <=> n > Limit \/ g > Limit - Fitting(n))
  <2>1. CASE n <= Limit
    <3>1. Fitting(n) = n
      BY <2>1, FittingFacts
    <3>2. CASE Limit - n < g
      BY <1>1, <3>1, <3>2, FittingFacts DEF MoreFitting
    <3>3. CASE ~(Limit - n < g)
      BY <1>1, <3>1, <3>3, FittingFacts DEF MoreFitting
    <3> QED BY <3>2, <3>3
  <2>2. CASE n > Limit
    <3>1. Fitting(n) = Limit /\ Fitting(n + g) = Limit
      BY <1>1, <2>2, FittingFacts
    <3> QED BY <1>1, <2>2, <3>1 DEF MoreFitting
  <2> QED BY <1>1, <2>1, <2>2
<1>3. chunk \in Seq(Nat) /\ Len(chunk) = g /\ \A i \in 1..g : chunk[i] = n + i
  BY DEF ChunkBehind
<1>4. tail \in Seq(Nat) /\ Len(tail) = fits /\ \A i \in 1..fits : tail[i] = n + i
  <2> HIDE DEF fits, chunk
  <2> QED BY <1>2, <1>3
<1> HIDE DEF tail, fits, chunk
<1>5. /\ Begins(n) \in Seq(Nat) /\ Len(Begins(n)) = Fitting(n) /\ \A i \in 1..Fitting(n) : Begins(n)[i] = i
      /\ Begins(n + g) \in Seq(Nat) /\ Len(Begins(n + g)) = Fitting(n) + fits
      /\ \A i \in 1..(Fitting(n) + fits) : Begins(n + g)[i] = i
  <2>1. Begins(n) \in Seq(Nat) /\ Len(Begins(n)) = Fitting(n) /\ \A i \in 1..Fitting(n) : Begins(n)[i] = i
    BY BeginsFacts
  <2>2. /\ Begins(n + g) \in Seq(Nat) /\ Len(Begins(n + g)) = Fitting(n + g)
        /\ \A i \in 1..Fitting(n + g) : Begins(n + g)[i] = i
    BY <1>1, BeginsFacts
  <2> QED BY <1>2, <2>1, <2>2
<1>6. /\ Len(Begins(n + g)) = Len(Begins(n)) + Len(tail)
      /\ \A i \in 1..Len(Begins(n)) : Begins(n)[i] = i
      /\ \A i \in 1..Len(Begins(n + g)) : Begins(n + g)[i] = i
  BY <1>4, <1>5
<1>7. \A i \in 1..Len(tail) : tail[i] = Len(Begins(n)) + i
  <2> SUFFICES ASSUME NEW i \in 1..fits PROVE tail[i] = Fitting(n) + i
    BY <1>4, <1>5
  <2>1. fits # 0
    BY <1>2
  <2> QED BY <1>2, <1>4, <2>1
<1>8. Begins(n) \o tail = Begins(n + g)
  BY <1>4, <1>5, <1>6, <1>7, Counted
<1> QED BY <1>2, <1>8 DEF tail, fits, chunk

LEMMA ProcessInitInv == ProcessInit => ProcessInv
<1> SUFFICES ASSUME ProcessInit PROVE ProcessInv
  OBVIOUS
<1>1. ProcessTypes
  BY ProcessAssumption DEF ProcessInit, ProcessTypes
<1>2. ASSUME NEW s \in Streams PROVE StreamFacts(s)
  <2>1. Consumed(s) = 0 /\ kept[s] = <<>>
    BY DEF ProcessInit, Consumed
  <2>2. Begins(0) = <<>>
    BY ProcessAssumption DEF Begins, Fitting
  <2> QED BY <2>1, <2>2, ProcessAssumption DEF ProcessInit, StreamFacts
<1>3. CallFacts /\ ResultFacts
  BY DEF ProcessInit, CallFacts, ResultFacts, InCall
<1> QED BY <1>1, <1>2, <1>3 DEF ProcessInv

LEMMA ForgetStep == Forget => ProcessInv'
<1> SUFFICES ASSUME Forget PROVE ProcessInv'
  OBVIOUS
<1>1. ProcessTypes'
  BY ProcessAssumption DEF Forget, ProcessTypes
<1>2. ASSUME NEW s \in Streams PROVE StreamFacts(s)'
  <2>1. Consumed(s)' = 0 /\ kept'[s] = <<>>
    BY DEF Forget, Consumed
  <2>2. Begins(0) = <<>>
    BY ProcessAssumption DEF Begins, Fitting
  <2> QED BY <2>1, <2>2, ProcessAssumption DEF Forget, StreamFacts
<1>3. CallFacts' /\ ResultFacts'
  BY DEF Forget, CallFacts, ResultFacts, InCall
<1> QED BY <1>1, <1>2, <1>3 DEF ProcessInv

-----------------------------------------------------------------------------
(* Steps of one stream leave the other as it is.                           *)
SameStream(s) ==
  /\ written'[s] = written[s] /\ pipe'[s] = pipe[s] /\ gathered'[s] = gathered[s]
  /\ kept'[s] = kept[s] /\ truncated'[s] = truncated[s] /\ reader'[s] = reader[s]

LEMMA SameStreamFacts ==
  ASSUME NEW s, StreamFacts(s), SameStream(s), holders' \subseteq holders
  PROVE  StreamFacts(s)'
BY DEF SameStream, StreamFacts, Consumed

(* Numbers of bytes, as far as they are known.                             *)
LEMMA Counts ==
  ASSUME ProcessInv, NEW s \in Streams
  PROVE  /\ written[s] \in Nat /\ pipe[s] \in 0..PipeSize /\ gathered[s] \in 0..ReadSize
         /\ pipe[s] \in Nat /\ gathered[s] \in Nat /\ Consumed(s) \in Nat
         /\ PipeSize \in Nat /\ ReadSize \in Nat /\ MaxOutput[s] \in Nat
<1>1. written[s] \in Nat /\ pipe[s] \in 0..PipeSize /\ gathered[s] \in 0..ReadSize
  BY DEF ProcessInv, ProcessTypes
<1>2. PipeSize \in Nat /\ ReadSize \in Nat /\ MaxOutput[s] \in Nat
  BY ProcessAssumption
<1>3. pipe[s] + gathered[s] <= written[s]
  BY DEF ProcessInv, StreamFacts
<1> QED BY <1>1, <1>2, <1>3 DEF Consumed

(* A step of a reader or a write, while something is yet to be read.       *)
LEMMA StreamStep ==
  ASSUME ProcessInv, NEW s \in Streams, reader[s] = "reading" \/ holders # {},
         UNCHANGED <<call, child, code, holders, result>>,
         written' \in [Streams -> Nat], pipe' \in [Streams -> 0..PipeSize],
         gathered' \in [Streams -> 0..ReadSize],
         kept' \in [Streams -> Seq(Nat)], truncated' \in [Streams -> BOOLEAN],
         reader' \in [Streams -> {"none", "reading", "ended", "failed"}],
         \A t \in Streams : reader'[t] = "none" => reader[t] = "none",
         StreamFacts(s)', \A t \in Streams \ {s} : SameStream(t)
  PROVE  ProcessInv'
<1>1. ProcessTypes'
  BY DEF ProcessInv, ProcessTypes, InCall
<1>2. \A t \in Streams : StreamFacts(t)'
  BY SameStreamFacts DEF ProcessInv
<1>3. CallFacts'
  BY DEF ProcessInv, CallFacts, InCall
<1>4. ResultFacts'
  BY DEF ProcessInv, ResultFacts, Invalid
<1> QED BY <1>1, <1>2, <1>3, <1>4 DEF ProcessInv

LEMMA WriteStep ==
  ASSUME ProcessInv, NEW s \in Streams, Write(s)
  PROVE  ProcessInv'
<1>1. /\ written' \in [Streams -> Nat] /\ written'[s] = written[s] + 1
      /\ pipe' \in [Streams -> 0..PipeSize] /\ pipe'[s] = pipe[s] + 1
      /\ \A t \in Streams \ {s} : written'[t] = written[t] /\ pipe'[t] = pipe[t]
  <2>1. written[s] + 1 \in Nat /\ pipe[s] + 1 \in 0..PipeSize
    BY Counts DEF Write
  <2> QED BY <2>1 DEF Write, ProcessInv, ProcessTypes
<1>2. Consumed(s)' = Consumed(s)
  BY <1>1, Counts DEF Write, Consumed
<1>3. StreamFacts(s)'
  BY <1>1, <1>2, Counts DEF Write, ProcessInv, StreamFacts
<1>4. \A t \in Streams \ {s} : SameStream(t)
  BY <1>1 DEF Write, SameStream
<1> QED BY <1>1, <1>3, <1>4, StreamStep DEF Write, ProcessInv, ProcessTypes

LEMMA GatherStep ==
  ASSUME ProcessInv, NEW s \in Streams, Gather(s)
  PROVE  ProcessInv'
<1>1. /\ gathered' \in [Streams -> 0..ReadSize] /\ gathered'[s] = gathered[s] + 1
      /\ pipe' \in [Streams -> 0..PipeSize] /\ pipe'[s] = pipe[s] - 1
      /\ \A t \in Streams \ {s} : gathered'[t] = gathered[t] /\ pipe'[t] = pipe[t]
  BY Counts DEF Gather, ProcessInv, ProcessTypes
<1>2. Consumed(s)' = Consumed(s)
  BY <1>1, Counts DEF Gather, Consumed
<1>3. StreamFacts(s)'
  BY <1>1, <1>2, Counts DEF Gather, ProcessInv, StreamFacts
<1>4. \A t \in Streams \ {s} : SameStream(t)
  BY <1>1 DEF Gather, SameStream
<1> QED BY <1>1, <1>3, <1>4, StreamStep DEF Gather, ProcessInv, ProcessTypes

(* What a reader takes in hand is kept as far as it fits.                  *)
LEMMA DrainStep ==
  ASSUME ProcessInv, NEW s \in Streams, Drain(s)
  PROVE  ProcessInv'
<1> DEFINE n == Consumed(s)
           g == gathered[s]
           room == Limit - Len(kept[s])
           fits == IF room < g THEN room ELSE g
<1>1. n \in Nat /\ g \in Nat /\ g > 0
  BY Counts DEF Drain
<1>2. kept[s] = Begins(n) /\ room = Limit - Fitting(n) /\ Len(kept[s]) = Fitting(n)
  BY <1>1, BeginsFacts DEF ProcessInv, StreamFacts
<1>3. Chunk(s) = ChunkBehind(n, g) /\ fits = MoreFitting(n, g)
  BY <1>2 DEF Chunk, Consumed, ChunkBehind, MoreFitting
<1>4. /\ Begins(n) \o SubSeq(Chunk(s), 1, fits) = Begins(n + g)
      /\ n + g > Limit <=> n > Limit \/ g > room
  <2> HIDE DEF fits, room, n, g
  <2> QED BY <1>1, <1>2, <1>3, BeginsMore
<1>5. kept' = [kept EXCEPT ![s] = Begins(n + g)]
  BY <1>2, <1>4 DEF Drain
<1>6. truncated' = [truncated EXCEPT ![s] = @ \/ g > room] /\ gathered' = [gathered EXCEPT ![s] = 0]
  BY DEF Drain
<1>7. Begins(n + g) \in Seq(Nat) /\ n + g \in Nat
  <2>1. n + g \in Nat
    BY <1>1
  <2> QED BY <2>1, BeginsFacts
<1> HIDE DEF fits, room
<1>8. /\ kept' \in [Streams -> Seq(Nat)] /\ kept'[s] = Begins(n + g)
      /\ gathered' \in [Streams -> 0..ReadSize] /\ gathered'[s] = 0
      /\ \A t \in Streams \ {s} : kept'[t] = kept[t] /\ gathered'[t] = gathered[t] /\ truncated'[t] = truncated[t]
  BY <1>5, <1>6, <1>7, Counts DEF ProcessInv, ProcessTypes
<1>9. truncated' \in [Streams -> BOOLEAN] /\ truncated'[s] = (truncated[s] \/ g > room)
  BY <1>6 DEF ProcessInv, ProcessTypes
<1>10. Consumed(s)' = n + g
  BY <1>8, Counts DEF Drain, Consumed
<1>11. StreamFacts(s)'
  <2>1. (truncated'[s] <=> n + g > Limit)
    BY <1>4, <1>9 DEF ProcessInv, StreamFacts
  <2>2. written'[s] <= MaxOutput[s] /\ pipe'[s] + gathered'[s] <= written'[s] /\ reader'[s] = "reading"
    BY <1>8, Counts DEF Drain, ProcessInv, StreamFacts
  <2> QED BY <1>8, <1>10, <2>1, <2>2 DEF StreamFacts
<1>12. \A t \in Streams \ {s} : SameStream(t)
  BY <1>8 DEF Drain, SameStream
<1> QED BY <1>8, <1>9, <1>11, <1>12, StreamStep DEF Drain, ProcessInv, ProcessTypes

LEMMA DrainStopsStep ==
  ASSUME ProcessInv, NEW s \in Streams, DrainEnds(s) \/ DrainFails(s)
  PROVE  ProcessInv'
<1>1. /\ reader' \in [Streams -> {"none", "reading", "ended", "failed"}] /\ reader'[s] \in {"ended", "failed"}
      /\ reader[s] = "reading" /\ \A t \in Streams \ {s} : reader'[t] = reader[t]
      /\ reader'[s] = "ended" => gathered[s] = 0 /\ AtEnd(s)
  BY DEF DrainEnds, DrainFails, ProcessInv, ProcessTypes
<1>2. UNCHANGED <<call, child, code, holders, written, pipe, gathered, kept, truncated, result>>
  BY DEF DrainEnds, DrainFails
<1>3. StreamFacts(s)'
  BY <1>1, <1>2 DEF ProcessInv, StreamFacts, AtEnd, Consumed
<1>4. \A t \in Streams \ {s} : SameStream(t)
  BY <1>1, <1>2 DEF SameStream
<1> QED BY <1>1, <1>2, <1>3, <1>4, StreamStep DEF ProcessInv, ProcessTypes

-----------------------------------------------------------------------------
(* Steps that leave the streams alone.                                     *)
LEMMA QuietStep ==
  ASSUME ProcessInv, UNCHANGED <<written, pipe, gathered, kept, truncated, reader>>,
         holders' \subseteq holders,
         call' \in {"idle", "returned"} \union InCall, child' \in {"none", "running", "exited"},
         code' \in {"none", "zero", "nonzero", "killed"},
         CallFacts', ResultFacts'
  PROVE  ProcessInv'
<1>1. ProcessTypes'
  BY DEF ProcessInv, ProcessTypes, InCall
<1>2. \A s \in Streams : SameStream(s)
  BY DEF SameStream
<1> QED BY <1>1, <1>2, SameStreamFacts DEF ProcessInv

LEMMA PopenStep ==
  ASSUME ProcessInv, Popen
  PROVE  ProcessInv'
<1>1. ProcessTypes'
  BY DEF Popen, ProcessInv, ProcessTypes, InCall
<1>2. \A s \in Streams : StreamFacts(s)'
  BY DEF Popen, ProcessInv, StreamFacts, Consumed
<1>3. CallFacts' /\ ResultFacts'
  BY DEF Popen, CallFacts, ResultFacts, InCall
<1> QED BY <1>1, <1>2, <1>3 DEF ProcessInv

LEMMA PopenFailsStep ==
  ASSUME ProcessInv, PopenFails
  PROVE  ProcessInv'
<1>1. CallFacts' /\ ResultFacts'
  <2>1. CallFacts'
    BY DEF PopenFails, ProcessInv, CallFacts, InCall
  <2>2. \E error \in Errors : result' = Invalid(error)
    BY DEF PopenFails, Errors
  <2>3. \E error \in Errors : (result = Invalid(error))'
    BY <2>2 DEF Invalid, Errors
  <2> QED BY <2>1, <2>3 DEF ResultFacts
<1> QED BY <1>1, QuietStep DEF PopenFails, ProcessInv, ProcessTypes

(* Before it is joined a command may fork, exit and leave a descendant.    *)
LEMMA ForkStep ==
  ASSUME ProcessInv, Fork
  PROVE  ProcessInv'
<1>1. ProcessTypes'
  BY DEF Fork, ProcessInv, ProcessTypes, InCall
<1>2. \A s \in Streams : StreamFacts(s)'
  BY DEF Fork, ProcessInv, CallFacts, StreamFacts, Consumed
<1>3. CallFacts' /\ ResultFacts'
  BY DEF Fork, ProcessInv, CallFacts, ResultFacts, InCall
<1> QED BY <1>1, <1>2, <1>3 DEF ProcessInv

LEMMA ExitStep ==
  ASSUME ProcessInv, Exit \/ DescendantExits
  PROVE  ProcessInv'
<1>1. CASE Exit
  <2>1. CallFacts' /\ ResultFacts'
    BY <1>1 DEF Exit, ProcessInv, CallFacts, ResultFacts, InCall
  <2> QED BY <1>1, <2>1, QuietStep DEF Exit, ProcessInv, ProcessTypes
<1>2. CASE DescendantExits
  <2>1. holders' = holders \ {"descendant"}
        /\ UNCHANGED <<call, child, code, written, pipe, gathered, kept, truncated, reader, result>>
    BY <1>2 DEF DescendantExits
  <2>2. CallFacts'
    BY <2>1 DEF ProcessInv, CallFacts, InCall
  <2>3. ResultFacts'
    BY <2>1 DEF ProcessInv, ResultFacts, Completed, Invalid
  <2> QED BY <2>1, <2>2, <2>3, QuietStep DEF ProcessInv, ProcessTypes
<1> QED BY <1>1, <1>2

LEMMA CallerStepInv ==
  ASSUME ProcessInv, WaitReturns \/ TimesOut \/ KillAndWait
  PROVE  ProcessInv'
<1>1. UNCHANGED <<written, pipe, gathered, kept, truncated, reader, result>> /\ holders' \subseteq holders
  BY DEF WaitReturns, TimesOut, KillAndWait
<1>2. call' \in InCall /\ child' \in {"none", "running", "exited"}
  BY DEF WaitReturns, TimesOut, KillAndWait, ProcessInv, ProcessTypes, InCall
<1>3. code' \in {"none", "zero", "nonzero", "killed"}
  BY DEF WaitReturns, TimesOut, KillAndWait, ProcessInv, ProcessTypes
<1>4. CallFacts' /\ ResultFacts'
  BY <1>2 DEF WaitReturns, TimesOut, KillAndWait, ProcessInv, CallFacts, ResultFacts, InCall
<1> QED BY <1>1, <1>2, <1>3, <1>4, QuietStep

(* The judgement of a command that was killed, or of one whose output      *)
(* could not be read, is that it is not known how it ended.                *)
LEMMA JoinStep ==
  ASSUME ProcessInv, Join
  PROVE  ProcessInv'
<1>1. /\ UNCHANGED <<child, code, holders, written, pipe, gathered, kept, truncated, reader>>
      /\ call' = "returned" /\ result' = Judge /\ call \in {"joining", "joining killed"}
      /\ \A s \in Streams : reader[s] \in {"ended", "failed"}
  BY DEF Join, ProcessInv, ProcessTypes, CallFacts, InCall
<1>2. CallFacts'
  BY <1>1 DEF ProcessInv, CallFacts, InCall
<1>3. CASE call = "joining killed" \/ \E s \in Streams : reader[s] = "failed"
  <2>1. \E error \in Errors : result' = Invalid(error)
    BY <1>1, <1>3 DEF Judge, Errors
  <2>2. \E error \in Errors : (result = Invalid(error))'
    BY <2>1 DEF Invalid, Errors
  <2>3. ResultFacts'
    BY <2>2 DEF ResultFacts
  <2> QED BY <1>1, <1>2, <2>3, QuietStep DEF ProcessInv, ProcessTypes
<1>4. CASE call = "joining" /\ \A s \in Streams : reader[s] = "ended"
  <2>1. result' = Completed
    BY <1>1, <1>4 DEF Judge
  <2>2. code \in {"zero", "nonzero"} /\ child # "running"
    BY <1>4 DEF ProcessInv, CallFacts
  <2>3. holders = {}
    BY <1>4 DEF ProcessInv, StreamFacts, Streams
  <2>4. Completed' = Completed
    BY <1>1 DEF Completed
  <2>5. ResultFacts'
    BY <1>1, <1>4, <2>1, <2>2, <2>3, <2>4 DEF ResultFacts
  <2> QED BY <1>1, <1>2, <2>5, QuietStep DEF ProcessInv, ProcessTypes
<1> QED BY <1>1, <1>3, <1>4

LEMMA ProcessNextInv ==
  ASSUME ProcessInv, ProcessNext
  PROVE  ProcessInv'
BY WriteStep, ForkStep, ExitStep, GatherStep, DrainStep, DrainStopsStep, CallerStepInv, JoinStep
DEF ProcessNext, CommandStep, ReaderStep, CallerStep

(* What is returned as the output of a command that ended by itself is how *)
(* everything written begins.                                              *)
LEMMA ReturnedOutput == ProcessInv => OutputFaithful
<1> SUFFICES ASSUME ProcessInv, call = "returned", result.code # "none", NEW s \in Streams
             PROVE  /\ result.output[s] = [i \in 1..(IF Limit < written[s] THEN Limit ELSE written[s]) |-> i]
                    /\ truncated[s] <=> written[s] > Limit
  BY DEF OutputFaithful
<1>1. result = Completed /\ reader[s] = "ended"
  BY DEF ProcessInv, ResultFacts, Invalid
<1>2. pipe[s] = 0 /\ gathered[s] = 0
  BY <1>1 DEF ProcessInv, StreamFacts
<1>3. Consumed(s) = written[s]
  BY <1>2, Counts DEF Consumed
<1>4. result.output[s] = kept[s]
  BY <1>1 DEF Completed
<1> QED BY <1>3, <1>4 DEF ProcessInv, StreamFacts, Begins, Fitting

LEMMA ProcessTyped == ProcessInv => ProcessTypeOK
<1> SUFFICES ASSUME ProcessInv PROVE ProcessTypeOK
  OBVIOUS
<1>1. ASSUME NEW s \in Streams
      PROVE  /\ written[s] \in 0..MaxOutput[s]
             /\ pipe[s] \in 0..PipeSize /\ gathered[s] \in 0..ReadSize
             /\ pipe[s] + gathered[s] <= written[s]
             /\ kept[s] \in Seq(1..MaxOutput[s]) /\ Len(kept[s]) <= Limit
             /\ reader[s] \in {"none", "reading", "ended", "failed"}
  <2>1. /\ written[s] <= MaxOutput[s] /\ pipe[s] + gathered[s] <= written[s] /\ kept[s] = Begins(Consumed(s))
    BY DEF ProcessInv, StreamFacts
  <2>2. Consumed(s) \in Nat /\ Consumed(s) <= MaxOutput[s]
    BY <2>1, Counts DEF Consumed
  <2>3. kept[s] \in Seq(1..MaxOutput[s]) /\ Len(kept[s]) <= Limit
    <3>1. Begins(Consumed(s)) \in Seq(1..MaxOutput[s])
      BY <2>2, Counts, BeginsFacts
    <3>2. Len(Begins(Consumed(s))) = Fitting(Consumed(s)) /\ Fitting(Consumed(s)) <= Limit
      BY <2>2, BeginsFacts, FittingFacts
    <3> QED BY <2>1, <3>1, <3>2
  <2> QED BY <2>1, <2>3, Counts DEF ProcessInv, ProcessTypes
<1> QED BY <1>1 DEF ProcessInv, ProcessTypes, ProcessTypeOK, InCall

-----------------------------------------------------------------------------
(***************************************************************************)
(* The run: what its checks have observed says how their commands ended,   *)
(* and what is published is the evaluation of all of them.                 *)
(***************************************************************************)
Judgements ==
  {[code |-> "zero", class |-> "none", error |-> "none", truth |-> "zero"],
   [code |-> "nonzero", class |-> "product-fail", error |-> "FAST-EXEC-004", truth |-> "nonzero"]}
  \union {[code |-> "none", class |-> "infrastructure-invalid", error |-> e, truth |-> "none"] : e \in Errors}

ErrorCodes == Errors \union {"FAST-EXEC-004", "FAST-ADAPTER-002", "FAST-PATH-001",
                              "FAST-CANARY-CONTROL", "FAST-CANARY-EXEC", "FAST-STATIC-001"}
Outcomes == [class : Classes, errors : SUBSET [code : ErrorCodes, of : Ids \union {"none"}],
             did : Seq({"none", "zero", "nonzero"})]

FastTypes ==
  /\ step \in Steps /\ wanted \in 0..(MaxChunks + 2)
  /\ commands \in Seq(Judgements) /\ Len(commands) <= wanted
  /\ outcomes \in Seq(Outcomes) /\ Len(outcomes) <= Len(Checks)
  /\ protected \in BOOLEAN /\ faulted \in BOOLEAN
  /\ run.verdict \in Classes \union {"none"} /\ published.verdict \in Classes \union {"none"}
  /\ exit \in -1..3 /\ changed \in Steps \union {"never"}

(* Commands run for a check that has some, one at a time.                  *)
CommandFacts ==
  /\ wanted > 0 => /\ step = "checks" /\ Len(outcomes) < Len(Checks)
                   /\ InProgress.kind \in {"static", "import", "assertion"}
                   /\ wanted \in CommandsOf(InProgress.kind)
  /\ call # "idle" => Len(commands) < wanted

(* The class a check is given, and how its commands ended.                 *)
Earned(o, kind) ==
  /\ o.class = "pass" <=> o.errors = {}
  /\ o.class = "pass" /\ kind \in {"static", "import"} =>
       o.did # <<>> /\ \A k \in DOMAIN o.did : o.did[k] = "zero"
  /\ o.class = "pass" /\ kind = "assertion" => o.did[1] = "zero" /\ o.did[2] = "nonzero"
  /\ o.class = "product-fail" => \E k \in DOMAIN o.did : o.did[k] = "nonzero"
OutcomeFacts == \A i \in DOMAIN outcomes : Earned(outcomes[i], Checks[i].kind)

Before == {"start", "checks", "recheck"}
Behind == {"verify", "compare", "last look"}
Evaluated == Len(outcomes) = Len(Checks) /\ run = IF protected THEN Attributed(Executed) ELSE Executed
ThisRun == [verdict |-> run.verdict, validations |-> Validations(run)]

EvidenceFacts ==
  /\ step \in {"recheck", "publish"} \union Behind => Evaluated
  /\ step \in {"publish"} \union Behind => changed \notin Before
  /\ step \in Behind => published = ThisRun
  /\ published # Nothing =>
       Evaluated /\ published = ThisRun /\ changed \notin Before /\ step \in Behind \union {"ended"}
ExitFacts ==
  /\ step # "ended" => exit = -1
  /\ exit = 0 => changed = "never" /\ published.verdict = "pass" /\ step = "ended"

RunFacts == EvidenceFacts /\ ExitFacts

FastInv == ProcessInv /\ FastTypes /\ CommandFacts /\ OutcomeFacts /\ RunFacts

LEMMA SameProcess ==
  ASSUME ProcessInv, UNCHANGED process
  PROVE  ProcessInv'
<1>1. UNCHANGED <<call, child, code, holders, written, pipe, gathered, kept, truncated, reader, result>>
  BY DEF process
<1>2. ProcessTypes'
  BY <1>1 DEF ProcessInv, ProcessTypes
<1>3. \A s \in Streams : StreamFacts(s)'
  BY <1>1 DEF ProcessInv, StreamFacts, Consumed
<1>4. CallFacts'
  BY <1>1 DEF ProcessInv, CallFacts
<1>5. ResultFacts'
  BY <1>1 DEF ProcessInv, ResultFacts, Completed, Invalid
<1> QED BY <1>2, <1>3, <1>4, <1>5 DEF ProcessInv

LEMMA SameEvaluation ==
  ASSUME UNCHANGED <<outcomes, protected, run>>
  PROVE  (Evaluated' <=> Evaluated) /\ ThisRun' = ThisRun
<1>1. Executed' = Executed
  BY DEF Executed, Verdict, RunErrors
<1>2. (Attributed(Executed))' = Attributed(Executed)
  BY <1>1 DEF Attributed
<1>3. ThisRun' = ThisRun
  BY DEF ThisRun, Validations, Related
<1> QED BY <1>1, <1>2, <1>3 DEF Evaluated

LEMMA EvaluatedVerdict == Evaluated => run.verdict \in Classes
BY DEF Evaluated, Executed, Attributed, Verdict, Classes

LEMMA SameOutcomes ==
  ASSUME OutcomeFacts, UNCHANGED outcomes
  PROVE  OutcomeFacts'
BY DEF OutcomeFacts, Earned

LEMMA SameCommands ==
  ASSUME CommandFacts, UNCHANGED <<process, wanted, commands, outcomes>>, step' = step \/ wanted = 0
  PROVE  CommandFacts'
BY DEF CommandFacts, InProgress, process

LEMMA FastInitInv == Init => FastInv
<1> SUFFICES ASSUME Init PROVE FastInv
  OBVIOUS
<1>1. ProcessInv
  BY ProcessInitInv DEF Init
<1>2. FastTypes
  <2>1. run.verdict = "none" /\ published.verdict = "none" /\ step = "start" /\ changed = "never"
    BY DEF Init, NoRun, Nothing
  <2>2. wanted = 0 /\ commands = <<>> /\ outcomes = <<>> /\ exit = -1 /\ protected = FALSE /\ faulted = FALSE
    BY DEF Init
  <2>3. wanted \in 0..(MaxChunks + 2) /\ Len(commands) <= wanted /\ Len(outcomes) <= Len(Checks)
    BY <2>2, ChecksAssumption
  <2>4. commands \in Seq(Judgements) /\ outcomes \in Seq(Outcomes) /\ exit \in -1..3
    BY <2>2
  <2> QED BY <2>1, <2>2, <2>3, <2>4 DEF FastTypes, Steps
<1>3. CommandFacts /\ OutcomeFacts
  BY DEF Init, ProcessInit, CommandFacts, OutcomeFacts
<1>4. RunFacts
  <2>1. EvidenceFacts
    BY DEF Init, EvidenceFacts, Behind
  <2>2. ExitFacts
    BY DEF Init, ExitFacts
  <2> QED BY <2>1, <2>2 DEF RunFacts
<1> QED BY <1>1, <1>2, <1>3, <1>4 DEF FastInv

-----------------------------------------------------------------------------
(* Steps of the runner beside its checks.                                  *)
LEMMA QuietRunStep ==
  ASSUME FastInv, UNCHANGED <<process, wanted, commands, outcomes>>,
         step' = step \/ wanted = 0,
         step' \in Steps, protected' \in BOOLEAN, faulted' \in BOOLEAN,
         run'.verdict \in Classes \union {"none"}, published'.verdict \in Classes \union {"none"},
         exit' \in -1..3, changed' \in Steps \union {"never"},
         RunFacts'
  PROVE  FastInv'
<1>1. ProcessInv'
  BY SameProcess DEF FastInv
<1>2. FastTypes'
  BY DEF FastInv, FastTypes
<1>3. CommandFacts' /\ OutcomeFacts'
  BY SameCommands, SameOutcomes DEF FastInv
<1> QED BY <1>1, <1>2, <1>3 DEF FastInv

LEMMA NoCommandWanted ==
  ASSUME FastInv, step # "checks" \/ Len(outcomes) = Len(Checks)
  PROVE  wanted = 0
BY ChecksAssumption DEF FastInv, FastTypes, CommandFacts

LEMMA BeginStep == FastInv /\ Begin => FastInv'
<1> SUFFICES ASSUME FastInv, Begin PROVE FastInv'
  OBVIOUS
<1>1. /\ UNCHANGED <<process, wanted, commands, outcomes, run, published, changed>>
      /\ step = "start"
      /\ \/ step' = "checks" /\ exit' = exit
         \/ step' = "ended" /\ exit' = 2
         \/ step' = "ended" /\ exit' = 3
      /\ protected' \in BOOLEAN /\ faulted' \in BOOLEAN
  BY DEF Begin, Leave, FastInv, FastTypes
<1>2. published = Nothing /\ exit = -1
  BY <1>1 DEF FastInv, RunFacts, EvidenceFacts, ExitFacts, Behind
<1>3. exit' \in -1..3 /\ exit' # 0 /\ (step' # "ended" => exit' = -1)
  BY <1>1, <1>2
<1>4. step' \in {"checks", "ended"}
  BY <1>1
<1>5. RunFacts'
  <2>1. EvidenceFacts'
    BY <1>1, <1>2, <1>4 DEF EvidenceFacts, Behind, Nothing
  <2>2. ExitFacts'
    BY <1>3 DEF ExitFacts
  <2> QED BY <2>1, <2>2 DEF RunFacts
<1>6. wanted = 0 /\ step' \in Steps
  BY <1>1, <1>4, NoCommandWanted DEF Steps
<1> QED BY <1>1, <1>3, <1>5, <1>6, QuietRunStep DEF FastInv, FastTypes

LEMMA EndChecksStep == FastInv /\ EndChecks => FastInv'
<1> SUFFICES ASSUME FastInv, EndChecks PROVE FastInv'
  OBVIOUS
<1>1. /\ UNCHANGED <<process, wanted, commands, outcomes, protected, published, exit, changed, faulted>>
      /\ step = "checks" /\ step' = "recheck" /\ Len(outcomes) = Len(Checks)
      /\ run' = IF protected THEN Attributed(Executed) ELSE Executed
  BY DEF EndChecks
<1>2. published = Nothing /\ exit = -1
  BY <1>1 DEF FastInv, RunFacts, EvidenceFacts, ExitFacts, Behind
<1>3. Executed' = Executed
  BY <1>1 DEF Executed, Verdict, RunErrors
<1>4. (Attributed(Executed))' = Attributed(Executed)
  BY <1>3 DEF Attributed
<1>5. Evaluated'
  BY <1>1, <1>3, <1>4 DEF Evaluated
<1>6. RunFacts'
  <2>1. EvidenceFacts'
    BY <1>1, <1>2, <1>5 DEF EvidenceFacts, Behind, Nothing
  <2>2. ExitFacts'
    BY <1>1, <1>2 DEF ExitFacts
  <2> QED BY <2>1, <2>2 DEF RunFacts
<1>7. wanted = 0
  BY <1>1, NoCommandWanted
<1>8. run'.verdict \in Classes
  BY <1>1 DEF Executed, Attributed, Verdict, Classes
<1>9. step' \in Steps
  BY <1>1 DEF Steps
<1> QED BY <1>1, <1>6, <1>7, <1>8, <1>9, QuietRunStep DEF FastInv, FastTypes

LEMMA ExitCodes ==
  ASSUME NEW verdict \in Classes
  PROVE  ExitCode(verdict) \in 0..3 /\ (ExitCode(verdict) = 0 => verdict = "pass")
BY DEF ExitCode, Classes

(* Behind the checks: the outcomes and the evaluation stay.                *)
LEMMA ClosingFrame ==
  ASSUME FastInv, UNCHANGED <<process, wanted, commands, outcomes, protected, run, changed>>,
         step \in {"recheck", "publish"} \union Behind,
         step' \in {"publish", "ended"} \union Behind, faulted' \in BOOLEAN,
         published' = published \/ published'.verdict \in Classes,
         \/ exit' = -1 /\ step' # "ended"
         \/ exit' \in 1..3 /\ step' = "ended"
         \/ exit' = 0 /\ step' = "ended" /\ changed = "never" /\ published'.verdict = "pass",
         EvidenceFacts'
  PROVE  FastInv'
<1>1. wanted = 0
  BY NoCommandWanted DEF Behind
<1>2. step' \in Steps
  BY DEF Steps, Behind
<1>3. exit' \in -1..3 /\ (step' # "ended" => exit' = -1)
  OBVIOUS
<1>4. ExitFacts'
  BY DEF ExitFacts
<1>5. RunFacts'
  BY <1>4 DEF RunFacts
<1>6. published'.verdict \in Classes \union {"none"}
  BY DEF FastInv, FastTypes
<1> QED BY <1>1, <1>2, <1>3, <1>5, <1>6, QuietRunStep DEF FastInv, FastTypes

LEMMA ClosingStep ==
  ASSUME FastInv, Recheck \/ Publish \/ VerifyPublished \/ Compare \/ LastLook
  PROVE  FastInv'
<1>1. /\ UNCHANGED <<process, wanted, commands, outcomes, protected, run, changed>>
      /\ step \in {"recheck", "publish"} \union Behind /\ faulted' \in BOOLEAN
  BY DEF Recheck, Publish, VerifyPublished, Compare, LastLook, Behind, FastInv, FastTypes
<1>2. Evaluated /\ Evaluated' /\ ThisRun' = ThisRun /\ exit = -1 /\ run.verdict \in Classes
  BY <1>1, SameEvaluation, EvaluatedVerdict DEF FastInv, RunFacts, EvidenceFacts, ExitFacts, Behind
<1>3. CASE Recheck
  <2>1. published' = published /\ published = Nothing
    BY <1>3 DEF Recheck, FastInv, RunFacts, EvidenceFacts, Behind
  <2>2. CASE step' = "publish" /\ exit' = -1 /\ changed = "never"
    <3>1. EvidenceFacts'
      BY <1>1, <1>2, <2>1, <2>2 DEF EvidenceFacts, Behind, Before, Nothing
    <3> QED BY <1>1, <1>2, <2>1, <2>2, <3>1, ClosingFrame
  <2>3. CASE step' = "ended" /\ exit' = 3
    <3>1. EvidenceFacts'
      BY <1>1, <1>2, <2>1, <2>3 DEF EvidenceFacts, Behind, Nothing
    <3> QED BY <1>1, <1>2, <2>1, <2>3, <3>1, ClosingFrame
  <2> QED BY <1>2, <1>3, <2>2, <2>3 DEF Recheck, Leave, CandidateThere
<1>4. CASE Publish
  <2>1. published = Nothing /\ changed \notin Before
    BY <1>4 DEF Publish, FastInv, RunFacts, EvidenceFacts, Behind
  <2>2. CASE step' = "ended" /\ exit' \in {2, 3} /\ published' = published
    <3>1. EvidenceFacts'
      BY <1>1, <1>2, <2>1, <2>2 DEF EvidenceFacts, Behind, Nothing
    <3> QED BY <1>1, <1>2, <2>1, <2>2, <3>1, ClosingFrame
  <2>3. CASE step' = "verify" /\ exit' = -1 /\ published' = ThisRun
    <3>1. EvidenceFacts'
      BY <1>1, <1>2, <2>1, <2>3 DEF EvidenceFacts, Behind
    <3>2. published'.verdict \in Classes
      BY <1>2, <2>3 DEF ThisRun
    <3> QED BY <1>1, <1>2, <2>3, <3>1, <3>2, ClosingFrame DEF Behind
  <2> QED BY <1>2, <1>4, <2>2, <2>3 DEF Publish, Leave, ThisRun
<1>5. CASE VerifyPublished \/ Compare
  <2>1. published' = published /\ published = ThisRun /\ changed \notin Before
    BY <1>5 DEF VerifyPublished, Compare, FastInv, RunFacts, EvidenceFacts, Behind
  <2>2. CASE step' \in {"compare", "last look"} /\ exit' = -1
    <3>1. EvidenceFacts'
      BY <1>1, <1>2, <2>1, <2>2 DEF EvidenceFacts, Behind
    <3> QED BY <1>1, <2>1, <2>2, <3>1, ClosingFrame DEF Behind
  <2>3. CASE step' = "ended" /\ exit' = 2
    <3>1. EvidenceFacts'
      BY <1>1, <1>2, <2>1, <2>3 DEF EvidenceFacts, Behind
    <3> QED BY <1>1, <1>2, <2>1, <2>3, <3>1, ClosingFrame
  <2> QED BY <1>2, <1>5, <2>2, <2>3 DEF VerifyPublished, Compare, Leave
<1>6. CASE LastLook
  <2>1. published' = published /\ published = ThisRun /\ changed \notin Before /\ step' = "ended"
    BY <1>6 DEF LastLook, Leave, FastInv, RunFacts, EvidenceFacts, Behind
  <2>2. exit' \in 0..3 /\ (exit' = 0 => changed = "never" /\ run.verdict = "pass")
    <3>1. exit' = IF changed = "never" THEN ExitCode(run.verdict) ELSE 3
      BY <1>6 DEF LastLook, Leave, CandidateThere
    <3>2. ExitCode(run.verdict) \in 0..3 /\ (ExitCode(run.verdict) = 0 => run.verdict = "pass")
      BY <1>2, ExitCodes
    <3> QED BY <3>1, <3>2
  <2>3. published'.verdict = run.verdict
    BY <2>1 DEF ThisRun
  <2>4. EvidenceFacts'
    BY <1>1, <1>2, <2>1, <2>2, <2>3 DEF EvidenceFacts, Behind
  <2>5. \/ exit' \in 1..3
        \/ exit' = 0 /\ changed = "never" /\ published'.verdict = "pass"
    BY <2>2, <2>3
  <2> QED BY <1>1, <2>1, <2>4, <2>5, ClosingFrame
<1> QED BY <1>3, <1>4, <1>5, <1>6

LEMMA ChangeStep == FastInv /\ ChangeCheckout => FastInv'
<1> SUFFICES ASSUME FastInv, ChangeCheckout PROVE FastInv'
  OBVIOUS
<1>1. /\ UNCHANGED <<process, step, wanted, commands, outcomes, protected, run, published, exit, faulted>>
      /\ step # "ended" /\ changed' = step
  BY DEF ChangeCheckout
<1>2. (Evaluated' <=> Evaluated) /\ ThisRun' = ThisRun
  BY <1>1, SameEvaluation
<1>3. EvidenceFacts'
  BY <1>1, <1>2 DEF FastInv, RunFacts, EvidenceFacts, Behind, Before, Nothing
<1>4. ExitFacts'
  BY <1>1 DEF FastInv, RunFacts, ExitFacts
<1>5. RunFacts'
  BY <1>3, <1>4 DEF RunFacts
<1> QED BY <1>1, <1>5, QuietRunStep DEF FastInv, FastTypes

-----------------------------------------------------------------------------
(* Steps of the check in progress.                                         *)
CheckBegun == step = "checks" /\ Len(outcomes) < Len(Checks)

LEMMA DuringChecks ==
  ASSUME FastInv, step = "checks", UNCHANGED <<step, protected, run, published, exit, changed, faulted>>
  PROVE  RunFacts'
<1>1. published = Nothing /\ exit = -1
  BY DEF FastInv, RunFacts, EvidenceFacts, ExitFacts, Behind
<1>2. EvidenceFacts'
  BY <1>1 DEF EvidenceFacts, Behind, Nothing
<1>3. ExitFacts'
  BY <1>1 DEF ExitFacts
<1> QED BY <1>2, <1>3 DEF RunFacts

LEMMA IdleWithoutCommands ==
  ASSUME FastInv, wanted = 0 \/ CommandsDone
  PROVE  call = "idle"
BY DEF FastInv, FastTypes, CommandFacts, CommandsDone

LEMMA CheckFacts ==
  ASSUME FastInv, CheckBegun
  PROVE  /\ Len(outcomes) + 1 \in DOMAIN Checks /\ InProgress \in [id : Ids, kind : Kinds]
         /\ outcomes \in Seq(Outcomes) /\ Len(outcomes) \in Nat /\ Len(Checks) \in Nat
<1>1. Len(outcomes) \in Nat /\ Len(Checks) \in Nat
  BY ChecksAssumption DEF FastInv, FastTypes
<1>2. Len(outcomes) + 1 \in 1..Len(Checks)
  BY <1>1 DEF CheckBegun
<1>3. outcomes \in Seq(Outcomes)
  BY DEF FastInv, FastTypes
<1>4. DOMAIN Checks = 1..Len(Checks) /\ \A k \in 1..Len(Checks) : Checks[k] \in [id : Ids, kind : Kinds]
  <2> DEFINE entries == [id : Ids, kind : Kinds]
  <2>1. Checks \in Seq(entries)
    BY ChecksAssumption
  <2> HIDE DEF entries
  <2>2. DOMAIN Checks = 1..Len(Checks) /\ \A k \in 1..Len(Checks) : Checks[k] \in entries
    BY <2>1
  <2> QED BY <2>2 DEF entries
<1>5. InProgress \in [id : Ids, kind : Kinds]
  BY <1>2, <1>4 DEF InProgress
<1> QED BY <1>1, <1>2, <1>3, <1>4, <1>5

(* What a check observes is added behind the others.                       *)
LEMMA ObserveStep ==
  ASSUME FastInv, CheckBegun, wanted = 0 \/ CommandsDone,
         NEW o \in Outcomes, Earned(o, InProgress.kind), Observe(o)
  PROVE  FastInv'
<1>1. /\ outcomes' = Append(outcomes, o) /\ commands' = <<>> /\ wanted' = 0
      /\ UNCHANGED <<process, step, protected, run, published, exit, changed, faulted>>
  BY DEF Observe
<1>2. ProcessInv' /\ RunFacts'
  BY <1>1, SameProcess, DuringChecks DEF FastInv, CheckBegun
<1>3. /\ outcomes' \in Seq(Outcomes) /\ Len(outcomes') = Len(outcomes) + 1
      /\ outcomes'[Len(outcomes) + 1] = o
      /\ \A i \in 1..Len(outcomes) : outcomes'[i] = outcomes[i]
  BY <1>1, CheckFacts
<1>4. FastTypes'
  <2>1. wanted' \in 0..(MaxChunks + 2) /\ commands' \in Seq(Judgements) /\ Len(commands') <= wanted'
    BY <1>1, ChecksAssumption
  <2>2. Len(outcomes') <= Len(Checks)
    BY <1>3, CheckFacts DEF CheckBegun
  <2> QED BY <1>1, <1>3, <2>1, <2>2 DEF FastInv, FastTypes
<1>5. CommandFacts'
  <2>1. call' = "idle"
    BY <1>1, IdleWithoutCommands DEF process
  <2> QED BY <1>1, <2>1 DEF CommandFacts
<1>6. OutcomeFacts'
  <2> SUFFICES ASSUME NEW i \in 1..(Len(outcomes) + 1) PROVE Earned(outcomes'[i], Checks[i].kind)
    BY <1>3 DEF OutcomeFacts, Earned
  <2>1. CASE i = Len(outcomes) + 1
    BY <1>3, <2>1 DEF InProgress
  <2>2. CASE i # Len(outcomes) + 1
    <3>1. i \in 1..Len(outcomes)
      BY <2>2, CheckFacts
    <3> QED BY <1>3, <3>1, CheckFacts DEF FastInv, OutcomeFacts
  <2> QED BY <2>1, <2>2
<1> QED BY <1>2, <1>4, <1>5, <1>6 DEF FastInv

-----------------------------------------------------------------------------
(* What the commands of a check tell of it.                                *)
LEMMA JudgementFacts ==
  ASSUME NEW c \in Judgements
  PROVE  /\ c.truth \in {"none", "zero", "nonzero"}
         /\ c.error = "none" => c.truth = "zero"
         /\ c.error # "none" => c.class \in {"product-fail", "infrastructure-invalid"} /\ c.error \in ErrorCodes
         /\ c.class = "product-fail" => c.truth = "nonzero"
         /\ c.code # "none" => c.truth = c.code
BY DEF Judgements, Errors, ErrorCodes

LEMMA DidFacts ==
  ASSUME FastInv
  PROVE  /\ Len(commands) \in Nat /\ DOMAIN commands = 1..Len(commands)
         /\ \A i \in 1..Len(commands) : commands[i] \in Judgements /\ Did[i] = commands[i].truth
         /\ Did \in Seq({"none", "zero", "nonzero"}) /\ DOMAIN Did = 1..Len(commands)
<1>1. /\ commands \in Seq(Judgements) /\ Len(commands) \in Nat /\ DOMAIN commands = 1..Len(commands)
      /\ \A i \in 1..Len(commands) : commands[i] \in Judgements
  BY DEF FastInv, FastTypes
<1>2. \A i \in 1..Len(commands) : commands[i].truth \in {"none", "zero", "nonzero"}
  BY <1>1, JudgementFacts
<1> QED BY <1>1, <1>2 DEF Did

LEMMA PassOutcome ==
  ASSUME FastInv, NEW kind,
         kind \in {"static", "import"} =>
           commands # <<>> /\ \A i \in 1..Len(commands) : commands[i].error = "none",
         kind = "assertion" =>
           Len(commands) = 2 /\ commands[1].code = "zero" /\ commands[2].code = "nonzero"
  PROVE  Pass \in Outcomes /\ Earned(Pass, kind)
<1>1. Pass.class = "pass" /\ Pass.errors = {} /\ Pass.did = Did /\ Pass \in Outcomes
  BY DidFacts DEF Pass, Outcomes, Classes
<1>2. ASSUME kind \in {"static", "import"}
      PROVE  Did # <<>> /\ \A k \in DOMAIN Did : Did[k] = "zero"
  <2>1. Did # <<>>
    BY <1>2, DidFacts
  <2> QED BY <1>2, <2>1, DidFacts, JudgementFacts
<1>3. ASSUME kind = "assertion" PROVE Did[1] = "zero" /\ Did[2] = "nonzero"
  <2>1. 1 \in 1..Len(commands) /\ 2 \in 1..Len(commands)
    BY <1>3
  <2>2. commands[1] \in Judgements /\ commands[2] \in Judgements
        /\ Did[1] = commands[1].truth /\ Did[2] = commands[2].truth
    BY <2>1, DidFacts
  <2> QED BY <1>3, <2>2, JudgementFacts
<1> QED BY <1>1, <1>2, <1>3 DEF Earned

LEMMA FailOutcome ==
  ASSUME FastInv, NEW class \in Classes \ {"pass"},
         NEW error \in [code : ErrorCodes, of : Ids \union {"none"}], NEW kind,
         class = "product-fail" => \E k \in DOMAIN commands : commands[k].class = "product-fail"
  PROVE  Fail(class, error) \in Outcomes /\ Earned(Fail(class, error), kind)
<1>1. /\ Fail(class, error).class = class /\ Fail(class, error).errors = {error}
      /\ class = "product-fail" => Fail(class, error).did = Did
  BY DEF Fail
<1>2. Fail(class, error) \in Outcomes
  BY DidFacts DEF Fail, Outcomes
<1>3. ASSUME class = "product-fail" PROVE \E k \in DOMAIN Did : Did[k] = "nonzero"
  <2>1. PICK k \in 1..Len(commands) : commands[k].class = "product-fail"
    BY <1>3, DidFacts
  <2>2. commands[k] \in Judgements /\ Did[k] = commands[k].truth /\ k \in DOMAIN Did
    BY DidFacts
  <2> QED BY <2>1, <2>2, JudgementFacts
<1> QED BY <1>1, <1>2, <1>3 DEF Earned

LEMMA ErrorRecords ==
  ASSUME FastInv, CheckBegun, NEW error \in ErrorCodes
  PROVE  /\ About(error) \in [code : ErrorCodes, of : Ids \union {"none"}]
         /\ AboutNone(error) \in [code : ErrorCodes, of : Ids \union {"none"}]
BY CheckFacts DEF About, AboutNone

(* The first command with an error is one of them.                         *)
LEMMA LeastNumber ==
  ASSUME NEW T \in SUBSET Nat, T # {}
  PROVE  \E m \in T : \A k \in T : m <= k
<1> DEFINE R == OpToRel(<, Nat)
<1>1. IsWellFoundedOn(R, Nat)
  BY NatLessThanWellFounded
<1>2. PICK m \in T : \A k \in T : ~ (<<k, m>> \in R)
  <2> HIDE DEF R
  <2> QED BY <1>1, WFMin
<1>3. \A k \in T : ~ (k < m)
  BY <1>2 DEF OpToRel
<1> QED BY <1>3

LEMMA FirstFailedFacts ==
  ASSUME FastInv, Failed(commands) # {}
  PROVE  \E i \in 1..Len(commands) : FirstFailed(commands) = commands[i] /\ commands[i].error # "none"
<1>1. Failed(commands) \subseteq 1..Len(commands) /\ Failed(commands) \subseteq Nat
  BY DidFacts DEF Failed
<1>2. \E i \in Failed(commands) : \A j \in Failed(commands) : i <= j
  BY <1>1, LeastNumber
<1>3. PICK i \in Failed(commands) : FirstFailed(commands) = commands[i]
  BY <1>2 DEF FirstFailed
<1> QED BY <1>1, <1>3 DEF Failed

-----------------------------------------------------------------------------
(* The observation of each kind of check.                                  *)
LEMMA ObservePass ==
  ASSUME FastInv, CheckBegun, wanted = 0 \/ CommandsDone, Observe(Pass),
         InProgress.kind \in {"static", "import"} =>
           commands # <<>> /\ \A i \in 1..Len(commands) : commands[i].error = "none",
         InProgress.kind = "assertion" =>
           Len(commands) = 2 /\ commands[1].code = "zero" /\ commands[2].code = "nonzero"
  PROVE  FastInv'
<1>1. Pass \in Outcomes /\ Earned(Pass, InProgress.kind)
  BY PassOutcome
<1> QED BY <1>1, ObserveStep

LEMMA ObserveFail ==
  ASSUME FastInv, CheckBegun, wanted = 0 \/ CommandsDone,
         NEW class \in Classes \ {"pass"},
         NEW error \in [code : ErrorCodes, of : Ids \union {"none"}],
         class = "product-fail" => \E k \in DOMAIN commands : commands[k].class = "product-fail",
         Observe(Fail(class, error))
  PROVE  FastInv'
<1>1. Fail(class, error) \in Outcomes /\ Earned(Fail(class, error), InProgress.kind)
  BY FailOutcome
<1> QED BY <1>1, ObserveStep

(* A failure that no command has brought about.                            *)
LEMMA ObserveInvalid ==
  ASSUME FastInv, CheckBegun, wanted = 0 \/ CommandsDone,
         NEW class \in {"infrastructure-invalid", "contract-invalid"}, NEW error \in ErrorCodes,
         Observe(Fail(class, About(error))) \/ Observe(Fail(class, AboutNone(error)))
  PROVE  FastInv'
<1>1. class \in Classes \ {"pass"} /\ class # "product-fail"
  BY DEF Classes
<1>2. /\ About(error) \in [code : ErrorCodes, of : Ids \union {"none"}]
      /\ AboutNone(error) \in [code : ErrorCodes, of : Ids \union {"none"}]
  BY ErrorRecords
<1> QED BY <1>1, <1>2, ObserveFail

LEMMA RunningFacts ==
  ASSUME FastInv, NEW kind, Running(kind)
  PROVE  /\ CheckBegun /\ InProgress.kind = kind
         /\ kind \notin {"static", "import", "assertion"} => wanted = 0
         /\ wanted > 0 => wanted \in CommandsOf(kind)
<1>1. CheckBegun /\ InProgress.kind = kind
  BY DEF Running, CheckBegun
<1>2. wanted \in Nat
  BY ChecksAssumption DEF FastInv, FastTypes
<1> QED BY <1>1, <1>2 DEF FastInv, CommandFacts

LEMMA ObserveWithoutCommands ==
  ASSUME FastInv, ObserveGiven \/ ObserveRaise \/ ObservePaths \/ ObserveCanary \/ ObserveNoInputs
  PROVE  FastInv'
<1>1. CASE ObserveGiven
  BY <1>1, RunningFacts, ObservePass DEF ObserveGiven
<1>2. CASE ObserveRaise
  <2>1. PICK kind \in Kinds \ {"given"} : Running(kind)
    BY <1>2 DEF ObserveRaise
  <2>2. "FAST-ADAPTER-002" \in ErrorCodes
    BY DEF ErrorCodes
  <2> QED BY <1>2, <2>1, <2>2, RunningFacts, ObserveInvalid DEF ObserveRaise
<1>3. CASE ObservePaths
  <2>1. CheckBegun /\ InProgress.kind = "paths" /\ wanted = 0
    BY <1>3, RunningFacts DEF ObservePaths
  <2>2. "FAST-PATH-001" \in ErrorCodes
    BY DEF ErrorCodes
  <2> QED BY <1>3, <2>1, <2>2, ObservePass, ObserveInvalid DEF ObservePaths
<1>4. CASE ObserveCanary
  <2>1. "FAST-CANARY-CONTROL" \in ErrorCodes /\ "FAST-CANARY-EXEC" \in ErrorCodes
    BY DEF ErrorCodes
  <2>2. CASE Running("canary") /\ Observe(Pass)
    BY <2>2, RunningFacts, ObservePass
  <2>3. CASE Running("canary") /\ Observe(Fail("contract-invalid", About("FAST-CANARY-CONTROL")))
    BY <2>1, <2>3, RunningFacts, ObserveInvalid
  <2>4. CASE /\ Running("canary") \/ Running("assertion")
             /\ wanted = 0
             /\ Observe(Fail("infrastructure-invalid", About("FAST-CANARY-EXEC")))
    <3>1. CheckBegun
      BY <2>4, RunningFacts
    <3> QED BY <2>1, <2>4, <3>1, ObserveInvalid
  <2> QED BY <1>4, <2>2, <2>3, <2>4 DEF ObserveCanary
<1>5. CASE ObserveNoInputs
  <2>1. CheckBegun /\ wanted = 0
    BY <1>5, RunningFacts DEF ObserveNoInputs
  <2>2. "FAST-STATIC-001" \in ErrorCodes
    BY DEF ErrorCodes
  <2> QED BY <1>5, <2>1, <2>2, ObserveInvalid DEF ObserveNoInputs
<1> QED BY <1>1, <1>2, <1>3, <1>4, <1>5

LEMMA ObserveCommandsStep == FastInv /\ ObserveCommands => FastInv'
<1> SUFFICES ASSUME FastInv, ObserveCommands PROVE FastInv'
  OBVIOUS
<1>1. CheckBegun /\ InProgress.kind \in {"static", "import"} /\ CommandsDone
  BY RunningFacts DEF ObserveCommands
<1>2. CASE Failed(commands) = {}
  <2>1. Observe(Pass)
    BY <1>2 DEF ObserveCommands
  <2>2. \A i \in 1..Len(commands) : commands[i].error = "none"
    BY <1>2, DidFacts DEF Failed
  <2>3. commands # <<>>
    BY <1>1 DEF CommandsDone
  <2> QED BY <1>1, <2>1, <2>2, <2>3, ObservePass
<1>3. CASE Failed(commands) # {}
  <2> DEFINE c == FirstFailed(commands)
  <2>1. Observe(Fail(c.class, AboutNone(c.error)))
    BY <1>3 DEF ObserveCommands
  <2>2. PICK i \in 1..Len(commands) : c = commands[i] /\ commands[i].error # "none"
    BY <1>3, FirstFailedFacts
  <2>3. commands[i] \in Judgements /\ i \in DOMAIN commands
    BY DidFacts
  <2> HIDE DEF c
  <2>4. c.class \in Classes \ {"pass"} /\ c.error \in ErrorCodes
    BY <2>2, <2>3, JudgementFacts DEF Classes
  <2>5. AboutNone(c.error) \in [code : ErrorCodes, of : Ids \union {"none"}]
    BY <1>1, <2>4, ErrorRecords
  <2>6. \E k \in DOMAIN commands : commands[k].class = c.class
    BY <2>2, <2>3
  <2> QED BY <1>1, <2>1, <2>4, <2>5, <2>6, ObserveFail
<1> QED BY <1>2, <1>3

LEMMA ObserveAssertionStep == FastInv /\ ObserveAssertion => FastInv'
<1> SUFFICES ASSUME FastInv, ObserveAssertion PROVE FastInv'
  OBVIOUS
<1>1. CheckBegun /\ InProgress.kind = "assertion" /\ CommandsDone /\ Len(commands) = 2
  BY RunningFacts DEF ObserveAssertion, CommandsDone, CommandsOf
<1>2. CASE commands[1].code = "zero" /\ commands[2].code = "nonzero"
  BY <1>1, <1>2, ObservePass DEF ObserveAssertion
<1>3. CASE ~(commands[1].code = "zero" /\ commands[2].code = "nonzero")
  <2>1. "FAST-CANARY-CONTROL" \in ErrorCodes
    BY DEF ErrorCodes
  <2> QED BY <1>1, <1>3, <2>1, ObserveInvalid DEF ObserveAssertion
<1> QED BY <1>2, <1>3

-----------------------------------------------------------------------------
(* The commands of a check.                                                *)
LEMMA BeginCommandsStep == FastInv /\ BeginCommands => FastInv'
<1> SUFFICES ASSUME FastInv, BeginCommands PROVE FastInv'
  OBVIOUS
<1>1. /\ UNCHANGED <<process, step, commands, outcomes, protected, run, published, exit, changed, faulted>>
      /\ wanted = 0
  BY DEF BeginCommands
<1>2. PICK kind \in {"static", "import", "assertion"} : Running(kind) /\ wanted' \in CommandsOf(kind)
  BY DEF BeginCommands
<1>3. CheckBegun /\ InProgress.kind = kind
  BY <1>2, RunningFacts
<1>4. ProcessInv' /\ RunFacts'
  BY <1>1, <1>3, SameProcess, DuringChecks DEF FastInv, CheckBegun
<1>5. wanted' \in 1..(MaxChunks + 2)
  BY <1>2, ChecksAssumption DEF CommandsOf
<1>6. FastTypes'
  <2>1. wanted' \in 0..(MaxChunks + 2) /\ Len(commands) <= wanted'
    BY <1>1, <1>5, ChecksAssumption DEF FastInv, FastTypes
  <2> QED BY <1>1, <2>1 DEF FastInv, FastTypes
<1>7. CommandFacts'
  <2>1. call' = "idle"
    BY <1>1, IdleWithoutCommands DEF process
  <2>2. InProgress' = InProgress
    BY <1>1 DEF InProgress
  <2> QED BY <1>1, <1>2, <1>3, <2>1, <2>2 DEF CommandFacts, CheckBegun
<1>8. OutcomeFacts'
  BY <1>1, SameOutcomes DEF FastInv
<1> QED BY <1>4, <1>6, <1>7, <1>8 DEF FastInv

(* A command is begun, or its process goes on.                             *)
LEMMA CommandGoesOn ==
  ASSUME FastInv, ProcessInv', UNCHANGED fast, call' # "idle" => Len(commands) < wanted
  PROVE  FastInv'
<1>1. UNCHANGED <<step, wanted, commands, outcomes, protected, run, published, exit, changed, faulted>>
  BY DEF fast
<1>2. FastTypes'
  BY <1>1 DEF FastInv, FastTypes
<1>3. CommandFacts'
  <2>1. InProgress' = InProgress
    BY <1>1 DEF InProgress
  <2> QED BY <1>1, <2>1 DEF FastInv, CommandFacts
<1>4. OutcomeFacts'
  BY <1>1, SameOutcomes DEF FastInv
<1>5. RunFacts'
  <2>1. (Evaluated' <=> Evaluated) /\ ThisRun' = ThisRun
    BY <1>1, SameEvaluation
  <2>2. EvidenceFacts'
    BY <1>1, <2>1 DEF FastInv, RunFacts, EvidenceFacts, Nothing
  <2>3. ExitFacts'
    BY <1>1 DEF FastInv, RunFacts, ExitFacts
  <2> QED BY <2>2, <2>3 DEF RunFacts
<1> QED BY <1>2, <1>3, <1>4, <1>5 DEF FastInv

LEMMA BeginCommandStep == FastInv /\ BeginCommand => FastInv'
<1> SUFFICES ASSUME FastInv, BeginCommand PROVE FastInv'
  OBVIOUS
<1>1. ProcessInv'
  BY PopenStep, PopenFailsStep DEF BeginCommand, FastInv
<1> QED BY <1>1, CommandGoesOn DEF BeginCommand

LEMMA ProcessStep == FastInv /\ ProcessNext /\ UNCHANGED fast => FastInv'
<1> SUFFICES ASSUME FastInv, ProcessNext, UNCHANGED fast PROVE FastInv'
  OBVIOUS
<1>1. ProcessInv'
  BY ProcessNextInv DEF FastInv
<1>2. call' = call \/ call # "idle"
  BY DEF ProcessNext, CommandStep, ReaderStep, CallerStep, Write, Fork, Exit, DescendantExits,
         Gather, Drain, DrainEnds, DrainFails, WaitReturns, TimesOut, KillAndWait, Join
<1> QED BY <1>1, <1>2, CommandGoesOn DEF FastInv, CommandFacts

(* What is noted of a command is its result, and how it really ended.      *)
LEMMA EndCommandStep == FastInv /\ EndCommand => FastInv'
<1> SUFFICES ASSUME FastInv, EndCommand PROVE FastInv'
  OBVIOUS
<1> DEFINE c == [code |-> result.code, class |-> result.class, error |-> result.error,
                 truth |-> IF result.code = "none" THEN "none" ELSE code]
<1>1. /\ UNCHANGED <<step, wanted, outcomes, protected, run, published, exit, changed, faulted>>
      /\ call = "returned" /\ commands' = Append(commands, c) /\ Forget
  BY DEF EndCommand
<1>2. Len(commands) < wanted /\ wanted > 0 /\ step = "checks" /\ wanted \in Nat
  BY <1>1, ChecksAssumption DEF FastInv, FastTypes, CommandFacts
<1>3. c \in Judgements
  <2>1. \/ result = Completed /\ code \in {"zero", "nonzero"}
        \/ \E error \in Errors : result = Invalid(error)
    BY <1>1 DEF FastInv, ProcessInv, ResultFacts
  <2>2. CASE result = Completed /\ code \in {"zero", "nonzero"}
    BY <2>2 DEF Completed, Judgements
  <2>3. CASE \E error \in Errors : result = Invalid(error)
    BY <2>3 DEF Invalid, Judgements
  <2> QED BY <2>1, <2>2, <2>3
<1> HIDE DEF c
<1>4. commands' \in Seq(Judgements) /\ Len(commands') = Len(commands) + 1
  BY <1>1, <1>3 DEF FastInv, FastTypes
<1>5. ProcessInv' /\ call' = "idle"
  BY <1>1, ForgetStep DEF Forget
<1>6. RunFacts'
  BY <1>1, <1>2, DuringChecks
<1>7. FastTypes'
  <2>1. Len(commands') <= wanted'
    BY <1>1, <1>2, <1>4, DidFacts
  <2> QED BY <1>1, <1>4, <2>1 DEF FastInv, FastTypes
<1>8. CommandFacts'
  <2>1. InProgress' = InProgress
    BY <1>1 DEF InProgress
  <2> QED BY <1>1, <1>5, <2>1 DEF FastInv, CommandFacts
<1>9. OutcomeFacts'
  BY <1>1, SameOutcomes DEF FastInv
<1> QED BY <1>5, <1>6, <1>7, <1>8, <1>9 DEF FastInv

-----------------------------------------------------------------------------
(* The invariant holds of every run of the fast checks: whatever the       *)
(* commands do, whenever a timeout strikes and whenever the checkout is    *)
(* changed.                                                                *)
THEOREM FastInvariant == Spec => []FastInv
<1>1. FastInv /\ [Next]_vars => FastInv'
  <2> SUFFICES ASSUME FastInv, [Next]_vars PROVE FastInv'
    OBVIOUS
  <2>1. CASE Runner
    BY <2>1, BeginStep, ObserveWithoutCommands, BeginCommandsStep, BeginCommandStep, EndCommandStep,
       ObserveCommandsStep, ObserveAssertionStep, EndChecksStep, ClosingStep DEF Runner
  <2>2. CASE ChangeCheckout
    BY <2>2, ChangeStep
  <2>3. CASE ProcessNext /\ UNCHANGED fast
    BY <2>3, ProcessStep
  <2>4. CASE UNCHANGED vars
    <3>1. UNCHANGED process /\ UNCHANGED fast
      BY <2>4 DEF vars
    <3>2. ProcessInv' /\ call' = call
      BY <3>1, SameProcess DEF FastInv, process
    <3> QED BY <3>1, <3>2, CommandGoesOn DEF FastInv, CommandFacts
  <2> QED BY <2>1, <2>2, <2>3, <2>4 DEF Next
<1> QED BY FastInitInv, <1>1, PTL DEF Spec

(* Every variable stays in the range that the code keeps it in; a command  *)
(* is in progress only while a check waits for one.                        *)
THEOREM FastAlwaysTyped == Spec => []FastTypeOK
<1>1. FastInv => FastTypeOK
  <2> SUFFICES ASSUME FastInv PROVE FastTypeOK
    OBVIOUS
  <2>1. ProcessTypeOK
    BY ProcessTyped DEF FastInv
  <2>2. \A i \in DOMAIN outcomes : outcomes[i].class \in Classes
                                   /\ (outcomes[i].class = "pass" <=> outcomes[i].errors = {})
    <3>1. \A i \in DOMAIN outcomes : outcomes[i] \in Outcomes
      BY DEF FastInv, FastTypes
    <3> QED BY <3>1 DEF FastInv, OutcomeFacts, Earned, Outcomes
  <2>3. call # "idle" => step = "checks" /\ Len(commands) < wanted
    BY ChecksAssumption DEF FastInv, FastTypes, CommandFacts
  <2> QED BY <2>1, <2>2, <2>3 DEF FastInv, FastTypes, FastTypeOK
<1> QED BY <1>1, FastInvariant, PTL

(* run_bounded_argv returns, of a command that ended by itself, how what   *)
(* was written begins, up to the limit, and says when that is not all: for *)
(* every size of pipe and read, and every interleaving of the writers, the *)
(* two readers and the timeout.                                            *)
THEOREM OutputIsFaithful == Spec => []OutputFaithful
<1>1. FastInv => OutputFaithful
  BY ReturnedOutput DEF FastInv
<1> QED BY <1>1, FastInvariant, PTL

(* Evidence is published, and success reported, only of a checkout that    *)
(* was the candidate's when the checks had ended (and, for the exit code,  *)
(* still at the end).                                                      *)
THEOREM CandidateIsSeen == Spec => []CandidateSeen
<1>1. FastInv => CandidateSeen
  BY DEF FastInv, RunFacts, EvidenceFacts, ExitFacts, Before, CandidateSeen
<1> QED BY <1>1, FastInvariant, PTL

LEMMA PublishedEvaluation ==
  ASSUME FastInv, published.verdict \in Classes
  PROVE  /\ Len(outcomes) = Len(Checks) /\ run.verdict = published.verdict
         /\ run = IF protected THEN Attributed(Executed) ELSE Executed
<1>1. published # Nothing
  BY DEF Nothing, Classes
<1> QED BY <1>1 DEF FastInv, RunFacts, EvidenceFacts, Evaluated, ThisRun

(* What the verdict over all observations says of each.                    *)
LEMMA VerdictFacts ==
  ASSUME FastInv
  PROVE  /\ Executed.verdict = "pass" => \A i \in DOMAIN outcomes : outcomes[i].class = "pass"
         /\ Executed.verdict = "product-fail" =>
              /\ \E i \in DOMAIN outcomes : outcomes[i].class = "product-fail"
              /\ \A i \in DOMAIN outcomes : outcomes[i].class \in {"pass", "product-fail"}
<1> DEFINE classes == [i \in DOMAIN outcomes |-> outcomes[i].class]
           seen == {classes[i] : i \in DOMAIN classes}
<1>1. \A i \in DOMAIN outcomes : outcomes[i].class \in Classes /\ outcomes[i].class \in seen
  <2>1. \A i \in DOMAIN outcomes : outcomes[i] \in Outcomes
    BY DEF FastInv, FastTypes
  <2>2. \A i \in DOMAIN outcomes : outcomes[i].class \in seen
    OBVIOUS
  <2> QED BY <2>1, <2>2 DEF Outcomes
<1>2. \A c \in seen : \E i \in DOMAIN outcomes : outcomes[i].class = c
  OBVIOUS
<1>3. Executed.verdict = IF "contract-invalid" \in seen THEN "contract-invalid"
                         ELSE IF "infrastructure-invalid" \in seen THEN "infrastructure-invalid"
                         ELSE IF "product-fail" \in seen THEN "product-fail" ELSE "pass"
  BY DEF Executed, Verdict
<1> HIDE DEF seen
<1> QED BY <1>1, <1>2, <1>3 DEF Classes

(* A published pass means that every check of the manifest has run and     *)
(* passed, its commands by ending with 0 themselves, the canary's by       *)
(* running and failing as they must.                                       *)
THEOREM PassMeansEveryCheckRan == Spec => []PassMeansAllRan
<1>1. FastInv => PassMeansAllRan
  <2> SUFFICES ASSUME FastInv, published.verdict = "pass"
               PROVE  /\ Len(outcomes) = Len(Checks) /\ ~protected
                      /\ \A i \in DOMAIN Checks : outcomes[i].class = "pass" /\ Earned(outcomes[i], Checks[i].kind)
    BY DEF PassMeansAllRan, Earned
  <2>1. /\ Len(outcomes) = Len(Checks) /\ run.verdict = "pass"
        /\ run = IF protected THEN Attributed(Executed) ELSE Executed
    BY PublishedEvaluation DEF Classes
  <2>2. ~protected /\ Executed.verdict = "pass"
    BY <2>1 DEF Attributed
  <2>3. DOMAIN outcomes = DOMAIN Checks
    <3>1. DOMAIN outcomes = 1..Len(outcomes)
      BY DEF FastInv, FastTypes
    <3>2. DOMAIN Checks = 1..Len(Checks)
      BY ChecksAssumption
    <3> QED BY <2>1, <3>1, <3>2
  <2> QED BY <2>1, <2>2, <2>3, VerdictFacts DEF FastInv, OutcomeFacts
<1> QED BY <1>1, FastInvariant, PTL

(* A published product failure means that a command failed by itself, not  *)
(* by the runner's hand, and that no check was invalid.                    *)
THEOREM ProductFailureIsEarned == Spec => []ProductFailIsEarned
<1>1. FastInv => ProductFailIsEarned
  <2> SUFFICES ASSUME FastInv, published.verdict = "product-fail" PROVE ProductFailIsEarned
    BY DEF ProductFailIsEarned
  <2>1. Executed.verdict = "product-fail"
    BY PublishedEvaluation DEF Classes, Attributed
  <2>2. PICK i \in DOMAIN outcomes : outcomes[i].class = "product-fail"
    BY <2>1, VerdictFacts
  <2>3. \E k \in DOMAIN outcomes[i].did : outcomes[i].did[k] = "nonzero"
    BY <2>2 DEF FastInv, OutcomeFacts, Earned
  <2> QED BY <2>1, <2>2, <2>3, VerdictFacts DEF ProductFailIsEarned
<1> QED BY <1>1, FastInvariant, PTL
=============================================================================
