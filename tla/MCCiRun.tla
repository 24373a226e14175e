-------------------------------- MODULE MCCiRun --------------------------------
(* Five tiers of contracts/ci-tier-policy.json, a path for each of the     *)
(* kinds of changes it tells apart, the two controls, and three policies   *)
(* of protected assets: without rules, with two that are listed against    *)
(* their order, and with a cycle.                                          *)
EXTENDS CiRun

MCTierOrder == <<"fast", "correctness", "model", "training-smoke", "benchmark-smoke">>
MCFiles == {"contracts/kernel", "backends", "fixtures/data", "benchmark", "correctness.json"}
MCControls == {"ci-tier-policy.json", "required-checks.json"}
MCPaths == MCFiles \union MCControls \union {"contracts"}
MCBelow == {<<p, p>> : p \in MCPaths} \union {<<"contracts/kernel", "contracts">>}
MCEvents == {"pull-request", "push-branch"}

Tier(needs, prefixed, under, precursors, artifacts, events) ==
  [needs |-> needs, prefixed |-> prefixed, under |-> under, precursors |-> precursors,
   artifacts |-> artifacts, events |-> events]
MCPolicy ==
  [t \in {MCTierOrder[i] : i \in 1..5} |->
     CASE t = "fast" -> Tier({}, FALSE, {}, {}, {}, MCEvents)
       [] t = "correctness" -> Tier({}, TRUE, {"contracts/kernel", "backends", "correctness.json"},
                                    {"contracts/kernel"}, {"correctness.json"}, MCEvents)
       [] t = "model" -> Tier({"correctness"}, TRUE, {}, {}, {}, MCEvents)
       [] t = "training-smoke" -> Tier({"model"}, TRUE, {"fixtures/data"}, {}, {}, MCEvents)
       [] t = "benchmark-smoke" -> Tier({"correctness"}, TRUE, {"benchmark"}, {}, {}, {"pull-request"})]

(* Edited by a candidate: a tier rests on less, or on itself.              *)
MCLessPolicy == [MCPolicy EXCEPT !["training-smoke"].needs = {}, !["training-smoke"].under = {}]
MCCyclic == [MCPolicy EXCEPT !["correctness"].needs = {"model"}]

All == {MCTierOrder[i] : i \in 1..5}
Rule(trigger, output) == [triggers |-> {trigger}, outputs |-> {output}]
Assets(rules) == [scopes |-> <<{"contracts"}, {"benchmark"}, MCControls>>, rules |-> rules]
Chain == <<Rule("fixtures/data", "benchmark"), Rule("backends", "fixtures/data")>>
Base(active, rules) ==
  [active |-> active, registry |-> "as-is", policy |-> MCPolicy, assets |-> Assets(rules)]
MCBases == {Base({"fast", "correctness"}, <<>>), Base(All, Chain),
            Base(All, Append(Chain, Rule("benchmark", "backends")))}

MCChanges == {ps \in SUBSET MCFiles : Cardinality(ps) <= 2}
Of(actives, registries, policies, readies, gateReadies) ==
  [active : actives, registry : registries, policy : policies, ready : readies,
   gateReady : gateReadies, changed : MCChanges, event : MCEvents]
MCActives == {{"fast"}, {"fast", "correctness"}, {"fast", "model", "training-smoke"}, All}
MCReadies == {All \ {"model"}, All}

(* Candidates that leave the controls alone but for the activation; of     *)
(* those with all tiers active and ready for the planner, some that do not.*)
MCCandidates ==
  {c \in Of(MCActives, {"as-is"}, {MCPolicy}, MCReadies, MCReadies) : c.gateReady = c.ready}
    \union Of({All}, {"edited"}, {MCPolicy}, {All}, {All})
    \union Of({All}, {"as-is"}, {MCLessPolicy}, {All}, MCReadies)
    \union Of({All}, {"as-is"}, {MCCyclic}, {All}, {All})
================================================================================
