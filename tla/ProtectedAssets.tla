---------------------------- MODULE ProtectedAssets ----------------------------
(***************************************************************************)
(* Which changes need a human: contracts/protected-assets.json names the   *)
(* scopes that are protected and the rules by which files are generated.   *)
(* A change is the set of paths that Git names, the sources of renames and *)
(* copies included; modes, object ids and digests are those of the base    *)
(* and the candidate an authorization names.                               *)
(***************************************************************************)
EXTENDS Integers, Sequences, FiniteSets

CONSTANTS
  Paths,
  Below \* pairs of paths, the first below the second or the second itself

ASSUME PathAssumption ==
  /\ \A p \in Paths : <<p, p>> \in Below
  /\ \A p, q, r \in Paths : <<p, q>> \in Below /\ <<q, r>> \in Below => <<p, r>> \in Below

(* A policy: the paths of each scope, the rules in the order of the file.  *)
AssetPolicy == [scopes : Seq(SUBSET Paths),
                rules : Seq([triggers : SUBSET Paths, outputs : SUBSET Paths])]

contains(scope, path) == <<path, scope>> \in Below

has_overlap(groups) ==
  \E i, j \in DOMAIN groups : \E p \in groups[i], q \in groups[j] :
    <<i, p>> # <<j, q>> /\ contains(p, q)

Feeds(left, right) ==
  \E o \in left.outputs, t \in right.triggers : contains(o, t) \/ contains(t, o)
Acyclic(rules) ==
  \E rank \in [DOMAIN rules -> DOMAIN rules] :
    \A i, j \in DOMAIN rules : Feeds(rules[i], rules[j]) => rank[i] < rank[j]

(* validate_policy, without the categories and the form of paths.          *)
ValidPolicy(policy) ==
  /\ ~has_overlap(policy.scopes)
  /\ ~has_overlap([i \in DOMAIN policy.rules |-> policy.rules[i].triggers])
  /\ ~has_overlap([i \in DOMAIN policy.rules |-> policy.rules[i].outputs])
  /\ Acyclic(policy.rules)

-----------------------------------------------------------------------------
Triggered(rule, active) ==
  \E p \in active, t \in rule.triggers : contains(t, p) \/ contains(p, t)

(* A look at rule i, given what is affected and activated before it.       *)
Look(policy, before, i) ==
  IF Triggered(policy.rules[i], before.active)
  THEN [active |-> before.active \union policy.rules[i].outputs,
        activated |-> before.activated \union {i}]
  ELSE before

(* The rules are looked at one after the other, in `count` looks.          *)
Looks(policy, changed, count) ==
  LET sweep[k \in 0..count] ==
        IF k = 0 THEN [active |-> changed, activated |-> {}]
        ELSE Look(policy, sweep[k-1], ((k-1) % Len(policy.rules)) + 1)
  IN sweep[count].activated

(* Mutant: the rules are gone through once.                                *)
ActivatedAtOnce(policy, changed) == Looks(policy, changed, Len(policy.rules))

(* _inferred_effects: every sweep but the last activates another rule.     *)
Activated(policy, changed) ==
  Looks(policy, changed, Len(policy.rules) * Len(policy.rules))

(* The paths of all effects: what is changed, and what that generates.     *)
Affected(policy, changed) ==
  changed \union UNION {policy.rules[i].outputs : i \in Activated(policy, changed)}

ProtectedPaths(policy, affected) ==
  {p \in affected : \E i \in DOMAIN policy.scopes : \E s \in policy.scopes[i] : contains(s, p)}

(* An authorization names the base and the candidate it is for, and the    *)
(* protected paths.  What else it has to have (a human, an anchor in the   *)
(* history of the base, its provenance) is not told apart.                 *)
Authorization(identities) == [identity : identities, paths : SUBSET Paths]

(* evaluate_protected_changes; `given` has at most one authorization.      *)
Evaluate(policy, changed, identity, given) ==
  LET protected == ProtectedPaths(policy, Affected(policy, changed)) IN
  IF protected = {} THEN {}
  ELSE IF given = {} THEN {"PROT-003"}
  ELSE IF given = {[identity |-> identity, paths |-> protected]} THEN {} ELSE {"PROT-004"}

-----------------------------------------------------------------------------
(* What is generated, whatever the order of the rules: the least set of    *)
(* rules that has every rule triggered by the change or by one of its own. *)
Generating(policy, changed) ==
  LET rules == policy.rules
      Closed(s) == \A i \in DOMAIN rules :
        Triggered(rules[i], changed \union UNION {rules[j].outputs : j \in s}) => i \in s
  IN {i \in DOMAIN rules : \A s \in SUBSET DOMAIN rules : Closed(s) => i \in s}

NeedsHuman(policy, changed) ==
  LET outputs == UNION {policy.rules[i].outputs : i \in Generating(policy, changed)}
  IN ProtectedPaths(policy, changed \union outputs)
=============================================================================
