---------------------------- MODULE MCAgentLoopCli ----------------------------
(***************************************************************************)
(* Small instance of AgentLoopCli: two clients of the library and the      *)
(* command beside them.  e1 fails two counts of v1, e2 one, e3 one and a   *)
(* case of v2 that passed, e4 has no usable verdict, e5 passes, and e6     *)
(* fails v1 plainly and v2 by violating causality.                         *)
(***************************************************************************)
EXTENDS AgentLoopCli, TLC

CONSTANTS v1, v2, c, p, s1, s2, e1, e2, e3, e4, e5, e6, lib1, lib2, cli

R(v, st, m, ks) == [key |-> <<v, c>>, st |-> st, metric |-> m, kinds |-> ks, paths |-> {p}]
Report(verdict, r1, r2) == [verdict |-> verdict, results |-> <<r1, r2>>]
Wrong == {"wrong-value"}

MCManifest ==
  [ev \in Evidence |->
    CASE ev = e1 -> Report("product-fail", R(v1, "fail", 2, Wrong), R(v2, "pass", NULL, {}))
      [] ev = e2 -> Report("product-fail", R(v1, "fail", 1, Wrong), R(v2, "pass", NULL, {}))
      [] ev = e3 -> Report("product-fail", R(v1, "fail", 1, Wrong), R(v2, "fail", NULL, Wrong))
      [] ev = e4 -> Report("infrastructure-invalid", R(v1, "fail", NULL, {}), R(v2, "fail", 1, {}))
      [] ev = e5 -> Report("pass", R(v1, "pass", 0, {}), R(v2, "pass", NULL, {}))
      [] ev = e6 -> Report("product-fail", R(v1, "fail", 2, Wrong), R(v2, "fail", NULL, {"causality"}))]

Ask(ev, sig, before, new) ==
  [diagnosis |-> [validation |-> v1, verdict |-> "product-fail", signature |-> sig,
                  evidence |-> ev, paths |-> <<p>>],
   improvement |-> [key |-> <<v1, c>>, metric |-> "count", direction |-> "decrease",
                    before |-> before, after |-> before - 1],
   paths |-> <<p>>, kind |-> "wrong-value", approval |-> FALSE, actor |-> "agent",
   infrastructure |-> FALSE, previous |-> {}, newFailure |-> new]

MCRequests == {Ask(e1, s1, 2, FALSE), Ask(e2, s1, 1, FALSE), Ask(e2, s2, 1, FALSE)}
MixedRequests == {Ask(e6, s1, 2, FALSE)}
NewFailureRequests == {Ask(e1, s1, 2, TRUE)}

MCSymmetry == Permutations(Callers)
MCShape == [x \in Callers |-> IF x = cli THEN "asdict" ELSE "json"]
=============================================================================
