----------------------------- MODULE MCAgentLoop -----------------------------
(***************************************************************************)
(* Small instance of AgentLoop with the largest budget a contract may      *)
(* carry.  The runs 1..4 fail v1 with that many failures counted and can   *)
(* follow each other as repairs, so that loops reach the fifth attempt and *)
(* a sixth is refused although the budget has one retry left.  Others fix  *)
(* v1 and break v2 (trade), fail both (both), fail in a way that forbids   *)
(* repair (causal), have no usable verdict (broken) and pass (passing).    *)
(***************************************************************************)
EXTENDS AgentLoop

CONSTANTS v1, v2, c, p, s1, trade, both, causal, broken, passing

R(v, st, m, ks) == [key |-> <<v, c>>, st |-> st, metric |-> m, kinds |-> ks, paths |-> {p}]
Report(verdict, r1, r2) == [verdict |-> verdict, results |-> <<r1, r2>>]
Wrong == {"wrong-value"}

MCManifest ==
  [ev \in Evidence |->
    CASE ev = trade -> Report("product-fail", R(v1, "pass", 0, {}), R(v2, "fail", NULL, Wrong))
      [] ev = both -> Report("product-fail", R(v1, "fail", 4, Wrong), R(v2, "fail", NULL, {}))
      [] ev = causal -> Report("product-fail", R(v1, "fail", 1, {"causality"}), R(v2, "pass", 1, {}))
      [] ev = broken -> Report("infrastructure-invalid", R(v1, "fail", NULL, {}), R(v2, "fail", 1, {}))
      [] ev = passing -> Report("pass", R(v1, "pass", 0, {}), R(v2, "pass", 0, {}))
      [] OTHER -> Report("product-fail", R(v1, "fail", ev, Wrong), R(v2, "pass", NULL, {}))]

MCDiagnoses ==
  {[validation |-> v1, verdict |-> "product-fail", signature |-> s1,
    evidence |-> ev, paths |-> <<p>>] : ev \in Evidence}

MCImprovements ==
  {[key |-> <<v, c>>, metric |-> "count", direction |-> "decrease",
    before |-> 2, after |-> 1] : v \in {v1, v2}}
=============================================================================
