------------------------------ MODULE TierPolicy ------------------------------
(***************************************************************************)
(* Which product validations a change needs: contracts/ci-tier-policy.json *)
(* as plan_ci reads it for a local plan, and, in a second implementation   *)
(* without dependencies, as the trusted gate reads it for a pull request.  *)
(* The local plan takes the policy that is checked out, the candidate's;   *)
(* the gate takes that of the trusted base.  Their tiers are the same: the *)
(* schema lists them.                                                      *)
(*                                                                         *)
(* A changed path is a member of a small set; a tier knows which of them   *)
(* are below its prefixes.  A tier is ready when its artifacts are in the  *)
(* tree and its manifest is valid; the two read manifests by code of their *)
(* own, the gate with the base's schema, and need not agree on that.       *)
(***************************************************************************)
EXTENDS ProtectedAssets

CONSTANTS
  TierOrder, \* the tiers in the order of the policy
  Events,
  Registries \* what a registry of required checks says besides the activation

Tiers == {TierOrder[i] : i \in DOMAIN TierOrder}

ASSUME TierAssumption ==
  /\ TierOrder \in Seq(Tiers) /\ "fast" \in Tiers
  /\ \A i, j \in DOMAIN TierOrder : TierOrder[i] = TierOrder[j] => i = j

(* A policy.  (Prerequisites are tiers: where one is not, the planner      *)
(* refuses the policy and the gate when it comes to that tier.)            *)
TierRule == [needs : SUBSET Tiers, prefixed : BOOLEAN, under : SUBSET Paths,
             precursors : SUBSET Paths, artifacts : SUBSET Paths, events : SUBSET Events]
TierPolicies == {p \in [Tiers -> TierRule] : \A t \in Tiers : ~p[t].prefixed => p[t].under = {}}

(* What Git (or the worktree), the registry and the event say of a change. *)
Candidate == [active : SUBSET Tiers, registry : Registries, policy : TierPolicies,
              ready : SUBSET Tiers, gateReady : SUBSET Tiers,
              changed : SUBSET Paths, event : Events]
TrustedBase == [active : SUBSET Tiers, registry : Registries, policy : TierPolicies,
                assets : AssetPolicy]

Matching(p, t, c) == c.changed \intersect p[t].under
ArtifactMatches(p, t, c) == c.changed \intersect p[t].artifacts # {}
PrecursorOnly(p, t, c) == Matching(p, t, c) # {} /\ Matching(p, t, c) \subseteq p[t].precursors
EventAndPath(p, t, c) == c.event \in p[t].events /\ (Matching(p, t, c) # {} \/ ~p[t].prefixed)

(* Mutant: prerequisites of prerequisites are forgotten.                   *)
DirectPrerequisites(p, ts) == ts \union UNION {p[t].needs : t \in ts}

(* add_prerequisites, which goes as deep as the tiers do: the least set    *)
(* that has the prerequisites of its tiers.                                *)
AddPrerequisites(p, ts) ==
  LET closed == {s \in SUBSET Tiers : ts \subseteq s /\ DirectPrerequisites(p, s) \subseteq s}
  IN {t \in Tiers : \A s \in closed : t \in s}

(* _validate_semantics: prerequisites have no cycle, and what may change   *)
(* ahead of a tier is the tier's.  Only the planner asks.                  *)
ValidTiers(p) ==
  \A t \in Tiers : p[t].precursors \subseteq p[t].under /\ t \notin AddPrerequisites(p, p[t].needs)

(* Executions follow the order of the policy.                              *)
Ordered(ts) ==
  LET upTo[n \in 0..Len(TierOrder)] ==
        IF n = 0 THEN <<>>
        ELSE IF TierOrder[n] \in ts THEN Append(upTo[n-1], TierOrder[n]) ELSE upTo[n-1]
  IN upTo[Len(TierOrder)]

Refused == [verdict |-> "contract-invalid", tiers |-> {}]

-----------------------------------------------------------------------------
(* plan_ci: a tier that is reserved is passed over when only precursors of *)
(* it changed.                                                             *)
Applies(p, t, c) ==
  /\ t \in c.active \/ ~PrecursorOnly(p, t, c) \/ ArtifactMatches(p, t, c)
  /\ ArtifactMatches(p, t, c) \/ EventAndPath(p, t, c)
Required(p, c) == AddPrerequisites(p, {t \in Tiers : Applies(p, t, c)})

(* CI-PLAN-004, a manifest that is not valid, is CI-PLAN-002 here.         *)
Findings(c) ==
  {<<"CI-PLAN-002", t>> : t \in Required(c.policy, c) \ c.ready}
    \union {<<"CI-PLAN-003", t>> : t \in Required(c.policy, c) \ c.active}
PlanCi(c) ==
  IF ValidTiers(c.policy)
  THEN [verdict |-> IF Findings(c) = {} THEN "pass" ELSE "contract-invalid",
        tiers |-> Required(c.policy, c) \intersect c.ready \intersect c.active]
  ELSE Refused

-----------------------------------------------------------------------------
(* What docs/governance.md says: the activation is that of the trusted     *)
(* base.  Mutant of GateApplies.                                           *)
TrustedApplies(t, c, trusted) ==
  LET p == trusted.policy IN
  /\ t \in trusted.active \/ ~PrecursorOnly(p, t, c) \/ ArtifactMatches(p, t, c)
  /\ ArtifactMatches(p, t, c) \/ EventAndPath(p, t, c)

(* _validate_applicable_tiers: it has the trusted base's registry as well  *)
(* as its policy, and asks the candidate's for the activation of a tier.   *)
GateApplies(t, c, trusted) ==
  LET p == trusted.policy IN
  /\ t \in c.active \/ ~PrecursorOnly(p, t, c) \/ ArtifactMatches(p, t, c)
  /\ ArtifactMatches(p, t, c) \/ EventAndPath(p, t, c)
GateRequired(c, trusted) ==
  AddPrerequisites(trusted.policy, {t \in Tiers : GateApplies(t, c, trusted)})

(* Of a registry the candidate may change the activation only.             *)
GateRaises(c, trusted) ==
  \/ c.registry # trusted.registry
  \/ \E t \in GateRequired(c, trusted) : t \notin c.active \/ t \notin c.gateReady
Gate(c, trusted) ==
  IF GateRaises(c, trusted) THEN Refused
  ELSE [verdict |-> "pass", tiers |-> GateRequired(c, trusted)]
=============================================================================
