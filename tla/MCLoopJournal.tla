---------------------------- MODULE MCLoopJournal ----------------------------
(***************************************************************************)
(* Small instance of LoopJournal with replay_journal as modelled in        *)
(* LoopDecisions: a failed validation, a repair and the failed validation  *)
(* of the repaired run are offered by every writer at any time.            *)
(***************************************************************************)
EXTENDS LoopJournal

CONSTANTS e1, e2, v, c, p, s1

Decisions ==
  INSTANCE LoopDecisions WITH
    Budget <- 1, Evidence <- {e1, e2}, RequiredIds <- {v}, Cases <- {c},
    Signatures <- {s1}, Paths <- {p}, ProtectedPaths <- {}, OutsidePaths <- {},
    Kinds <- {"wrong-value"}, Metrics <- {1, 2}

MCAdmissible(evts, e) == Decisions!Accepts(evts, e)
MCFirst == Decisions!Genesis

Failed(ev, attempt, count) ==
  [MCFirst EXCEPT
    !.transition = "validation-recorded", !.status = "validation-failed",
    !.attempt = attempt, !.actor = "validator",
    !.binding = [run |-> ev, verdict |-> "product-fail"],
    !.validation = [id |-> v, status |-> "fail", kinds |-> {"wrong-value"}, paths |-> {p}],
    !.obs = [k \in {<<v, c>>} |-> [st |-> "fail", metric |-> count]]]

Retry ==
  [MCFirst EXCEPT
    !.transition = "retry-authorized", !.status = "retry-authorized",
    !.attempt = 2, !.actor = "agent",
    !.diagnosis = [validation |-> v, verdict |-> "product-fail", signature |-> s1,
                   evidence |-> e1, paths |-> <<p>>],
    !.improvement = [key |-> <<v, c>>, metric |-> "count", direction |-> "decrease",
                     before |-> 2, after |-> 1]]

MCPayloads == {Failed(e1, 1, 2), Retry, Failed(e2, 2, 1)}
=============================================================================
