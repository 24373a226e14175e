# Verification of MojoAttention-CPU's validation and agent-loop tooling

The repository is, at this commit, the *foundation* of a Mojo attention kernel:
the kernel itself is a contract and a set of cases, and the program that runs is
the Python package `mojoattention` with its command line and the CI scripts. Its
job is to decide whether a change may count as validated, to keep the evidence of
that decision, and to bound the loop in which an agent repairs a failed change.
This directory holds TLA+ models of that program, the TLC runs that check them
and TLAPS proofs about them. Paths below are relative to the repository root.

## The system

| Component | Code | State | Operations | Modelled by |
|---|---|---|---|---|
| Agent loop decisions | `validation/agent_loop.py` 323-1097 | none (pure functions of a chain) | `replay_journal`, `derive_journal_state`, `evaluate_retry`, `evaluate_post_repair`, `classify_stop_reason` | `LoopDecisions` |
| Agent loop history | the same | the events of one loop | `append` as library callers use it | `AgentLoop`, `AgentLoopProofs` |
| Agent loop journal on disk | `agent_loop.py` 1112-1464 | `loop.json`, `events/*.json`, temporaries, `.writer.lock` | `start`, `append`, `inspect` | `LoopJournal`, `LoopLog`, `LoopJournalProofs`, `LoopStart`, `LoopStartProofs` |
| `agent-loop` command | `cli/main.py` 652-1010 | a snapshot of the journal | `start`, `evaluate`, `status` | `AgentLoopCli`, `AgentLoopCliProofs` |
| Evidence store | `validation/evidence.py` | run directories `.staging`, `.complete` | `EvidenceWriter`, `abort`, `finalize`, `verify_evidence` | `EvidenceStore`, `PublishOnce`, `EvidenceStoreProofs` |
| Preflight and host probe | `validation/host.py` 81-169, `validation/preflight.py` | none (looks at `reports/runs`) | `_run_state`, `evaluate` | `HostProbe`, `EvidenceStoreProofs` |
| Fast runner | `validation/fast.py`, `main.py` 285-645 | child processes, output readers, observations | `run_bounded_argv`, `execute_checks`, `evaluate_observations`, `run_fast_validation` | `BoundedProcess`, `FastRun`, `FastRunProofs` |
| CI planner and dispatcher | `validation/ci_planner.py`, `scripts/run_ci_plan.py` | plan, receipt, worktree | `plan_ci`, dispatch | `TierPolicy`, `CiRun`, `TierProofs`, `CiProofs` |
| Trusted CI gate | `scripts/trusted_ci_gate.py`, `validation/ci_evidence.py` | plan, Foundation evidence | tier applicability, publication | `TierPolicy`, `CiRun`, `TierProofs`, `CiProofs` |
| Protected assets | `validation/protected_assets.py`, `validation/paths.py` | none (an authorization is handed in) | `validate_policy`, `inspect_repository_changes`, `evaluate_protected_changes` | `ProtectedAssets`, `CiRun`, `TierProofs`, `CiProofs` |
| Everything else | see "Not modelled" | | | |

(`validation/`, `cli/` and `domain/` are below `src/mojoattention/`.)

How they interact. `validate fast` runs the checks of a suite as bounded
subprocesses, turns their observations into a verdict and publishes an evidence
run. `agent-loop start` creates a loop for an authenticated contract;
`agent-loop evaluate` reads a finished evidence run or a repair request, inspects
the journal, lets `evaluate_retry` or `evaluate_post_repair` decide, and appends
one event, which `replay_journal` must accept behind the whole chain. The only
shared state is the file system: a loop's `events` directory, written under an
exclusive `flock` and read without it, and `reports/runs`, in which every writer
owns a directory of its own until it is renamed. CI plans the required tiers
from a diff, twice: `plan_ci` for a developer's worktree, with the tier policy that
is checked out, and the trusted gate (base code without dependencies) for a commit,
with the tier policy of the trusted base. The dispatcher executes either plan and
writes the receipt that Foundation evidence is published with. Before the gate
plans, it asks which protected assets the change touches or generates, and
compares them with what a human authorized. `preflight --mode broad` and `evidence produce`
look at `reports/runs` and hold broad work back while another producer is at work.

What is hard in this code, and what each part must keep:

* *Decisions.* Events come from callers that nothing forces to be careful. Over
  any sequence of them the attempt counter stored in events must agree with the
  retries that replay counts, both limits (the contract's budget, five attempts)
  must hold, one run's evidence may support one event only, and a repair must
  never trade one passing case for another.
* *Journal on disk.* `append` is eight system calls; other writers, lock-free
  readers, failing calls, `kill` and power losses come in between. The chain
  must stay one that replays, what a caller was told must stay, a caller that
  saw an error and tries again must not record twice, and no single failure may
  leave the loop locked.
* *The command.* It decides on a snapshot and appends to whatever chain is there
  later. A stale decision must be refused by replay. What the decision functions
  decide must be something replay accepts.
* *Evidence store.* A directory named `.complete` must verify, wherever the
  writer failed or stopped; a failed writer must clean up and never clear what
  it has already published.
* *Fast runner.* Two threads drain two pipes while the caller waits with a
  timeout, kills and joins; the command may end at any of these moments, write
  more than is kept, or leave a process that holds its pipes. The checkout may
  change behind every look at it. What is published must have been earned.
* *CI.* The gate and the planner implement the applicability of tiers twice, with
  two copies of the tier policy, and must agree where a candidate leaves it alone;
  the tree may change between the plan, the commands and the receipt.
* *Protected assets.* What a change generates by a chain of rules is protected
  like the change itself. An authorization is for one candidate on one base, and
  both may move on before the gate reads it.
* *Host probe.* It lists and looks without a lock, while producers rename, clear
  and remove what it has listed. It must neither take their work for damage nor
  be held back by producers that have answered.

`PROJECT.json` lists these hazards line by line.

## Modules

```
LoopDecisions          pure operators over chains of events
  AgentLoop            + the chain of one loop, careless library callers
    AgentLoopProofs      theorems for every budget, evidence and manifest
    MCAgentLoop          instance for TLC
    AgentLoopCli       + processes that inspect, decide and append
      AgentLoopCliProofs   theorems for every number of processes and requests
      MCAgentLoopCli     instance (one passing run, three findings)
LoopLog                abstract: append-only log with promises
  LoopJournal          append and inspect, one system call at a time
    LoopJournalProofs    theorems for every number of writers, faults, losses
    MCLoopJournal        instance; its Admissible is LoopDecisions!Accepts
BoundedProcess         one command: pipes, reader threads, timeout, kill
  FastRun              + the checks, the verdict, publication and the answer
    FastRunProofs        theorems for every manifest, limit, pipe and read
    MCFastRun            instance (one passing run, one finding)
ProtectedAssets        pure operators: what a change affects and who must agree
  TierPolicy           + the planner's and the gate's applicability
    TierProofs           lemmas about the operators of both
    CiRun              + authorization, a plan, its dispatch, receipt, publication
      CiProofs           theorems for every policy, candidate and base; uses TierProofs
      MCCiRun            instance (one passing run, one finding)
PublishOnce            abstract: names published once, whole, for good
  EvidenceStore        EvidenceWriter, abort and verification by system calls
    HostProbe          + a preflight that looks at the runs meanwhile
      EvidenceStoreProofs  theorems for every number of runs, faults, losses
      MCEvidenceStore    instance
  LoopStart            AgentLoopJournal.start by system calls, checked as it is
    LoopStartProofs      theorems for every number of starts, faults, losses
```

### LoopDecisions

`Accepts(evts, e)` is one round of `replay_journal`'s loop: the conjuncts are the
checks LOOP-001 to LOOP-017, named by what they compare. `Replay(evts)` is the
whole function. `EvaluateRetry` and `EvaluatePostRepair` keep the order of the
rules, because the order decides which stop reason is recorded. Abstractions:

* digests and the previous-event link are the order of the chain; the fields an
  event copies from the header or the evidence are one Boolean, `bound`;
* an evidence directory is a name; a case's observation is its status and one
  optional integer metric (an objective improvement looks at one metric);
* a path is a model value that `authorize_write` finds in order, protected or
  outside the role's scope (`ProtectedPaths`, `OutsidePaths`);
* the Python shape of nested records is kept (`shape`): the JSON schema refuses
  tuples, and `dataclasses.asdict` leaves them.

### AgentLoop

One variable, `events`. Each action is an `append` that succeeded (one that is
refused raises and changes nothing). `Careless(e)` surrounds each plausible event
with the mistakes callers make: a wrong attempt, actor, time, status, missing
evidence, an event not bound to the header. What is checked is therefore what
replay alone enforces, not what well-behaved callers do.

### LoopJournal

`chain` holds the files that have their final name. One action per system call
that others can observe:

| Action | Code |
|---|---|
| `Acquire` | `append` 1407-1418, `flock(LOCK_EX \| LOCK_NB)`, LOOP-303 |
| `ReadAndCheck` | 1419-1438, `_read_chain`, seal, `replay_journal` of the extended chain |
| `WriteTemp` | 1440, `_write_exclusive_at` |
| `Publish` | 1443, `renameat2(RENAME_NOREPLACE)`, LOOP-302 |
| `SyncDirectory` | 1445 |
| `Acknowledge` | 1446-1453, second replay and return |
| `Return` | the end of the `finally` block, 1461-1464: the lock file is closed |
| `Fail` | the next step raises; behind a failed rename, LOOP-302 included, the block has a temporary to remove |
| `RemoveTemp`, `SyncRemoval` | 1457-1458, `unlink` and `fsync` in the block |
| `FailCleanUp` | one of these two raises: the lock file is not closed |
| `FailWrite` | `_write_exclusive_at` fails and so does its own clean-up, 1181-1187: the temporary stays |
| `Kill`, `EndProcess`, `PowerLoss` | the operating system |
| `BeginRead`, `AcceptRead`, `RefuseRead` | `inspect` / `_read_chain` 1349-1387 |

The `finally` block of `append` removes the temporary before it closes the lock
file and survives only a file that is missing. When the rename fails and then the
`unlink` or the `fsync` fails too, the call ends with its lock file open, and the
process holds the `flock` for as long as it lives (`"kept"`): every further `append`
of that loop, its own included, is answered with LOOP-303. `LockGivenUp` is
therefore stated for calls that see fewer than two failures, and
`KeptAfterTwoFailures` says that nothing less leaves the lock behind.

A power loss keeps a prefix of the entries at least as long as what was synced
(the order in which a journaling file system makes them). A directory listing
returns all entries that were there throughout and any subset of those made
meanwhile. The model does not assume that the comparison of the directory's time
stamps notices every change: a read may be accepted or refused then.

### LoopStart

| Action | Code |
|---|---|
| `MakeStage`, `MakeEvents`, `SyncMade` | `start` 1271-1275, `_open_directory_at` |
| `BeginWrite`, `EndWrite` | `_write_exclusive_at` of header, genesis event, lock file: the entry appears, then the file is whole and synced |
| `SyncEvents`, `SyncStage`, `Rename`, `SyncLoops` | 1322-1329 |
| `Inspect` | 1336 |
| `Empty`, `RemoveStage`, `SyncRemoval` | `_remove_owned_stage` |
| `Fault`, `FaultEmptying` | a call raises; the `except` blocks |

`present` and `partial` are the entries of the loop's directory as processes see
them, `durable` what was there when their directory was last synced, `maybe` the
names the directory may have after a power loss. A loop's identity is a random
token, so starts meet only in `reports/agent-loops`. That directory is taken to
be there: the code syncs its parent only when it made it itself. `LoopJournal`
begins where `LoopStart` ends, with the genesis event on disk.

### AgentLoopCli

`Inspect` takes the snapshot, `AppendDecision` decides on it and appends to the
chain as it is by then. The event file of a retry names its own attempt and
actor, so both are inputs (`bump`, `actor`). `Shape` says whether a caller is the
command (`asdict`) or a library client that writes JSON values (`json`).
`RepairRequest` is the set of all repair requests.
`CallerAssumption` says that the requests are such, that `NULL` is none of the
records it stands in for, and that a manifest whose verdict is a pass has passed
results only, which `evidence.py` 542-543 checks before anything is published.

### EvidenceStore

`name`, `whole`, `partial` are the directory as a process sees it; `maybe` and
`flushed` what a power loss can make of it. `BeginWrite`/`EndWrite` are `_write`
(created empty; whole when file and directory are synced). `Closed` is
`verify_evidence`. The producer around it is `run_fast_validation`
(`main.py` 459-645): snapshot attachments, finalize, verify the published
directory, recheck the candidate, and abort in its `finally` block. Runs share
nothing but the directory they are made in (their names are random tokens).

### BoundedProcess

| Action | Code |
|---|---|
| `Popen`, `PopenFails` | `run_bounded_argv` 337-382 |
| `Gather` | a byte moves from the pipe into the blocking `stream.read(8192)` |
| `Drain`, `DrainEnds`, `DrainFails` | the loop body of `drain` 371-376, its end, its `except` |
| `WaitReturns`, `TimesOut`, `KillAndWait` | 383-387 |
| `Join`, `Judge` | 388-414 |
| `Write`, `Fork`, `Exit`, `DescendantExits` | the command, and a process it leaves behind |

A byte is its position in the stream, so that "what was kept is how the output
begins" can be said. The timeout may strike whenever the command still runs.

### FastRun

`run_fast_validation` in the order of its statements: `Begin` (everything read
and refused before the checks), one `Observe...` per kind of check, `EndChecks`
(`evaluate_observations` and `_attribute_protected_errors`), `Recheck`,
`Publish`, `VerifyPublished`, `Compare` (`verify_fast_evidence`), `LastLook`.
The runner copies counts, seed and shard of the authenticated manifest into every
observation, so status and failure class are what is left of one. Publication is
a step that fails or succeeds: `EvidenceStore` has its system calls.
`did` is a history: how the commands of a check truly ended, which the code does
not keep; only properties read it.

### HostProbe

| Action | Code |
|---|---|
| `ListRuns` | `_run_state` 149-156: `iterdir`, the names as they are then |
| `VisitMarked` | `_marker_state`: the name decides, whatever has become of the entry |
| `BeginVerify`, `EndVerify` | `_verify_complete_cached`: files stated, verified, stated again |
| `AllVisited` | 167 |
| `ProbeFault` | an `OSError` anywhere, 168-169 |
| `Evaluate` | `preflight.evaluate`: the kinds of all failed checks make the verdict |

The producers are those of `EvidenceStore`, unchanged; the probe reads their
directories and nothing else. The entries are visited in any order. Other checks
of the host fail or not (`host`). Two simplifications: `iterdir` fetches the
listing at once, which it does for the few entries of one buffer, and
`_RUN_VERIFICATION_CACHE` is left out, because each command is a process that
probes once.

### ProtectedAssets

`Below` is the order of paths that `contains` decides; a path is a member of a
small set. A change is the set of paths Git names, the source of a rename or copy
included. `Looks` goes through the rules as the `while` loop of `_inferred_effects`
does, in their order, rule after rule; `Activated` allows as many sweeps as there
are rules, which is enough because every sweep but the last activates another
rule. `Evaluate` is `evaluate_protected_changes`: an authorization is compared
with the identities of base and candidate and with the exact protected paths;
of the envelope's fifteen fields the model keeps those. Categories and the form of
paths are left out of `ValidPolicy`. `Generating`, which properties use, says what
is generated without an order: the least set of rules that is closed. `Look` is
one round of the loop's body. That the sweeps find `Generating` is a theorem
(`ActivatedIsGenerating`).

### TierPolicy and CiRun

A tier policy is a record for each tier: what it rests on, the paths below its
prefixes, its precursors, its artifacts and its events. There are two of them in
every plan: `PlanCi` takes the candidate's, which `ci plan` finds checked out, the
gate that of the trusted base. Both planners take the activation of a tier from the
candidate's registry; of the rest of that registry (`registry`) the gate accepts no
change (`GateRaises`), and the planner does not compare it. `ValidTiers` is what
only the planner asks of a policy. `ready` and `gateReady` are the tiers whose
artifacts are there and whose manifest is valid: the two read manifests by code of
their own. The tiers themselves are those of one constant, `TierOrder`, since the
schema of the policy lists them.

`Applies` and `Required` are `plan_ci`; `GateApplies` and `GateRequired` are the
second implementation in `_validate_applicable_tiers`. `AddPrerequisites`, a
depth-first search in the code, is written as what it finds, the least set that
holds the prerequisites of its members. `Ordered`, the executions of a plan in
the policy's order, is a recursive function along `TierOrder`.

| Action | Code |
|---|---|
| `Authorize`, `MoveBase`, `Amend` | before the plan: a human, the base branch, the author |
| `RunGate` | `run_gate`: the protected-change decision, then the tiers of all that is affected |
| `PlanWorktree` | `mojoattention ci plan --worktree`, the form that `quality.sh` runs |
| `Authenticate`, `CheckCapacity`, `AssertBefore`, `RunCommand`, `VerifyProductResult`, `AssertAfter` | the dispatcher, `run_ci_plan.py` 187-276 |
| `WriteReceipt`, `Publish` | 276-293, `publish_foundation_evidence` |
| `ChangeTracked`, `ChangeUntracked`, `MoveHead` | somebody works in the checkout |

The gate's finding PROT-003 (protected, no authorization) goes into the plan as
`protected_change_review`; any other finding refuses. Whatever else is refused is
a choice. `Changed` is the difference between base and candidate: the files a
candidate says it changes, and each of the two controls that differs, because a
policy or registry cannot be edited without being a changed path, protected as
such. `Publish` may leave with 3 although the evidence is published: its
verification and the output come behind it. Only the plan of a commit is rechecked and leads to a receipt and to
`publish_foundation_evidence`. Files and HEAD may change between any two steps.

## Runs

| Run | Asks | Bounds |
|---|---|---|
| `AgentLoop` | Do the counters, the budget, the evidence and the repairs of one loop stay in step under careless callers? | budget 5 (the largest), 9 evidence runs: four that can follow each other as repairs, so that the fifth attempt is reached and the sixth refused, and one each that trades cases, fails both, fails causality, has no verdict, passes |
| `LoopJournal` | Is the journal on disk an append-only log under competing writers, a reader and failures; which failures leave its lock behind? | 2 writers of 2 calls, 1 reader, 3 payloads that can follow each other (a failure, a repair, its failure), 2 faults, 1 power loss: enough for a fault or kill of each writer, of a writer and its retry, or of a rename and its clean-up, and a loss between them; 94,043 states |
| `EvidenceStore` | Is a run published once, whole and for good? Does a preflight beside its producer take it for damaged, or wait for what has ended? | 1 run (runs share nothing; two do not fit the time of a run), 2 attachments, 4 requests (accepted with and without attachments, refused in two ways), 2 faults, so that a failure and the failure of its clean-up both occur, 2 power losses; 32,684 states |
| `LoopStart` | Does a loop appear at once, whole, and for good once `start` returns? | 2 starts, 2 faults, so that a failure and the failure of its clean-up both occur, 1 power loss |
| `AgentLoopCli` | Is a decision made on a stale snapshot ever recorded, and is an undisturbed one ever refused? | 2 library clients, budget 2, 5 evidence runs, 3 requests |
| `CliPass`, `CliCausality`, `CliNewFailure` | three statements of the documentation that the code does not keep | 1 caller |
| `FastRun` | Is what a Fast run publishes earned, on the candidate it began with; does it end? | 5 checks: an assertion canary with two programs, the static check with up to two chunks, a given one, the path check and a canary without programs (the import check, one program, goes the way of a static check of one chunk, and is left out); pipe and output limit of 1 byte, reads of 2, outputs of at most 2 and 1 bytes: a full pipe, a chunk that straddles the limit, one that ends at it and one cut short by the end all occur |
| `FastExit` | a statement of the documentation on exit codes that the code does not keep | the same |
| `CiRun` | Do planner and gate agree; is a protected change ever planned without review or exact authorization; is evidence published only behind every required tier of an unchanged tree? | 5 of the 8 tiers with the policy's prerequisites, 7 files (a precursor in a protected scope, a correctness path, an artifact, training data, a protected benchmark, and the two controls), changes of at most 2 of the first five, 2 events, 4 activations; candidates that leave the policy alone, and of those with every tier active some that edit the registry, drop a tier's prerequisite and prefixes, or make prerequisites circular; manifests that both read alike and, for edited policies, that one refuses; 3 bases: no rules; two rules that trigger each other, listed against their order, so that one sweep is not enough; a cycle, which is refused. An amendment changes files only; one authorization. Every way to prerequisites of prerequisites is there; 305,736 states |
| `CiDeactivate` | a statement of the documentation on the trusted base that the code does not keep | the same |

`CHECK_DEADLOCK FALSE` is set where the system stops: a loop ends in a terminal
event, a writer makes its last call, a producer, a Fast run or a CI run returns.

Fairness is assumed in three places, and only of a process's own next step: a
process or thread that was started is scheduled, and a call returns or fails
(`WF(Step(w))` of a writer, `WF(Step(r))` of a producer; `WF` of the Fast runner,
of the caller of `run_bounded_argv`, whose timeout bounds the wait, and of each
reader thread). A command and what it leaves behind need not make progress, which
is why `RunEnds` excepts a descendant that stays: the code joins its readers
without a timeout. Nothing is assumed of callers: no fairness on `Acquire`
or `Create`, none on faults, and none on the end of a process that has kept the
lock. Under it `LockGivenUp` (a call gives the lock up, failing or not, unless two
of its own system calls fail) and `ProducersEnd` hold.

Each property has a mutant in `PROJECT.json`: a small wrong change of one mapped
operator, kept beside it in the module and marked as such, under which the run
finds the property violated.

## What the runs found

1. **`CliPass`.** `agent-loop evaluate` cannot record passing evidence.
   `main.py:883` stores `asdict(binding)`, whose `validation_ids` is a tuple; the
   schema wants an array, and `replay_journal` refuses the event (LOOP-001).
   `docs/setup.md:260` says a valid pass moves to `awaiting-human-review`.
   Grants have the same fate (`main.py:925-926`). The command's tests replace the
   journal and so never meet the schema.
2. **`CliCausality`.** The event of a failed run keeps the errors of its first
   failed validation only (`main.py:852-876`), and `evaluate_retry` asks only
   those (`agent_loop.py:605-618`). A causality failure of a later validation
   does not stop the loop, against `docs/setup.md:278`.
3. **`CliNewFailure`.** `evaluate_retry` never reads the request's previous and
   current observations; `_objective_improvement` (`agent_loop.py:532`), which
   compares them, has no caller. `docs/setup.md:281` says a new required failure
   is rejected before a retry event can be appended.

4. **`FastExit`.** `evaluate_observations` returns an error for every failed
   validation; `verify_fast_evidence` refuses whatever has one (`fast.py:242`),
   and `run_fast_validation` raises `OSError` for it although the evidence is
   published and verified. Every failed run is answered with exit 2, where
   `docs/setup.md:140` names 1 for a product failure and 3 for an invalid contract.
5. **`CiDeactivate`.** The gate asks the candidate's registry whether a tier is
   active (`trusted_ci_gate.py:232`). A candidate that sets Correctness back to
   `reserved` and changes only `contracts/kernel` is planned without it, although
   the trusted base has it active, against `docs/governance.md:50-51`. (The edit
   of the registry is a protected change, which the gate lets through for review,
   PROT-003.) Both planners ask the candidate's registry for the activation, so
   `PlannersAgree` holds all the same.

Met while modelling, without a run of their own: infrastructure-invalid or
contract-invalid evidence behind a retry is recorded as a human-escalation stop
that replay refuses unless `evaluate_post_repair` agrees (`docs/setup.md:262` says
that it stops); an `append` whose rename fails, and whose clean-up fails too, keeps
the writer lock until its process ends (`agent_loop.py:1457`), which no document
speaks about; a candidate that edits the tier policy is planned by `ci plan` with
its own edition and by the gate with the base's, so that the two may differ;
`ci plan` of a commit looks at the manifests of all tiers and, unlike that of a
worktree, does not expect one that its schema refuses (`ci_planner.py:351`), which
is not modelled; the command compares
the failure kinds of all validations where replay compares those of the recorded
one; `append`, `start` and `finalize` report an error although they have
published when a call behind the rename fails; `EvidenceWriter.__init__` leaves
an empty staging directory when `open` fails right after `mkdir`
(`evidence.py:405-415`), which `FailureCleansUp` allows for as a clean-up cut
off; evidence of the Fast runner carries no failure kind, so a repair of it is
always escalated (LOOP-206); a canary program that times out counts as a canary
that escaped; errors of commands name no validation and are shown at every
validation that failed; the dispatcher compares HEAD once, so that a commit
between two commands goes unseen; the policy's order, not its prerequisites,
orders the executions; a generated output that is a directory above a protected
scope is not protected (`protected_assets.py:666`); `run_gate` compares the
contract digest of an authorization with itself (`trusted_ci_gate.py:361`), as no
contract is at hand there; two `evidence produce` commands may both find the host
idle (`main.py:1607`); the probe verifies old runs with the schema of the
worktree, not with theirs (`host.py:165`).

## Proofs

Every invariant and action property of a passing run, and every refinement, is a
theorem about the specification the run checks (three of them under a hypothesis
named below), for every value of the constants that the named assumptions of the modules allow (`DecisionAssumptions` and
`ManifestAssumption` for a loop, `CallerAssumption` for its processes,
`JournalAssumption`, `StoreAssumption`, `StartAssumption`, `ProcessAssumption`,
`ChecksAssumption`, `PathAssumption`, `TierAssumption`, `RunAssumption`). They
say what kind of thing a constant is and what the code has checked before (a
manifest has each validation once, a policy each tier), and no more; numbers of writers, starts, runs, processes, faults and power losses are
arbitrary. The inductive invariants were checked by TLC on the runs' instances
first.

**`AgentLoopProofs`.** What the invariants need of a step is only that it appends
a typed event which replay accepts: `JournalSpec` is the specification of
everybody who keeps to that, and `LoopAppends` shows that `AgentLoop` does. The
theorems are proved of `JournalSpec`, so that they hold of the command as well.

* `TypeCorrect`: `TypeOK` is inductive, since whatever an action appends is built
  from typed parts.
* The invariants about the chain need a strengthening. `CountersInv` adds to
  `AttemptCountsRetries` that the last event's status fits its transition and the
  pairing of retries and failed validations; `RepairInv` adds that a retry always
  stands directly behind the failed validation it was authorized from and that
  every later failed validation was compared with that one. `AttemptsBounded`,
  `HistoryBounded`, `RepairsAlwaysImprove` and `NoCaseLost` follow; `NoCaseLost`
  is the transitive closure of the comparisons, by the chain's order.
* `JournalReplays` and `EvidenceNeverReused` are inductive themselves;
  `JournalAppendOnly` is the action property.
* `AcceptedIsNew`: behind a chain that replays, replay accepts no event that the
  chain has. Attempts never decrease (`AttemptsGrow`); a retry has the next
  attempt, a validation new evidence, and nothing follows a terminal event.

**`AgentLoopCliProofs`.** `CliKeepsJournal` (`CliSpec => JournalSpec`): however
processes interleave, what they append is accepted, so `CliKeepsLoopPromises`
holds for them. The promises of the processes themselves need their snapshots.
`CliTypes` has each of them as a prefix of the journal. `GrantsAlwaysFresh`: a
retry is accepted only directly behind the failed validation it names, which is
bound by one event; hence, when a grant is accepted, the snapshot it was decided
on is the whole journal. `PassesAreRecorded` and `GrantsAreRecorded` say that the
decision functions and replay agree. They have the hypothesis that events are
written in the shape of JSON (`Shape \in [Callers -> {"json"}]`), as library
clients write them and the schema demands; the command does not, and run `CliPass`
is the counterexample.

**`LoopJournalProofs`** (any `Admissible`). The inductive invariant `JournalInv`
conjoins `TypeOK`, `WriterIsCurrent`, `ChainAccepted`, `AcknowledgedIsDurable`,
the facts each step leaves for the next (`StepFacts`: what was checked is
admissible, what was synced is durable) and, for readers, that what was
acknowledged when a read began was present when it began (`ReaderFacts`).
`WriterIsCurrent` is the key: because the holder of the lock is the only one that
extends the chain, what it read is still the chain when it renames. It says as well
who holds the lock: whoever is in a call, and beyond its call only a process whose
clean-up failed (`WritersAreCurrent`). That takes two failures
(`OneFailureNeverLocks`): `JournalInv` counts one for every call that has come to
its clean-up by a failure of its own, and a rename is refused for no other reason,
since the chain is still what was read.
`ImplementsLog` maps every step to a step or a stutter of `LoopLog`.
`EventsRecordedOnce` depends on the rule: its hypothesis `AcceptsNewOnly` is that
`Admissible` accepts, behind a chain of accepted events, none that the chain has.
For replay this is `AcceptedIsNew`; the instance `MCLoopJournal` uses replay.

**`LoopStartProofs`** and **`EvidenceStoreProofs`.** Starts, like runs, share only
the directory they are made in, so the invariant is a conjunction over them and a
step of one leaves the others as they are (`OneStart`, `OneRun`). The facts of one
(`NameFacts`, `StageFacts`; `RunFacts`) say what has been made and synced at each
step. Their heart is `Secured`: what has its final name, or may have it after a
power loss, is whole and no power loss takes any file of it. The type invariant,
the clean-up property and the refinement of `PublishOnce` follow: the rename is
the step that publishes, the end of the producer is the answer, a power loss may
lose what was not answered, and everything else stutters.
For the probe, `ProbeInv` adds what it knows of the runs it listed: what it listed
as complete, or is verifying, is complete and no producer changes it
(`PublishedStays`); what it listed as a staging directory, while no power was lost,
belongs to a run that had not come to its end when the probe began. `UnsealedAlwaysAFault` and
`EndedRunsNeverBlock` follow, the latter for each run that the probe found, however
many there are. The theorems about producers are restated beside a
probe (`PublishedVerifiesBesideAProbe`, `ProbedStoreImplementsPublishOnce`).

**`FastRunProofs`.** `ProcessInv`: what a reader has kept is how the bytes it took
from the pipe begin, up to the limit, and it is marked as truncated exactly when
there were more; a reader that ended has left nothing in the pipe and nobody holds
it open. Hence `OutputIsFaithful`. `FastInv` adds, for each observation, how the
commands of the check ended (`OutcomeFacts`) and, for each step, that what is
published is the verdict on all observations and that the checkout did not change
before the recheck (`RunFacts`). `PassMeansEveryCheckRan`,
`ProductFailureIsEarned` and `CandidateIsSeen` follow.

**`TierProofs`** holds what the CI proofs need of the operators.
`ActivatedIsGenerating`: the loop of `_inferred_effects` finds the least closed set
of rules, in whatever order they are listed. What a look adds belongs to every
closed set (`LookSound`); a sweep that adds nothing has found a closed set
(`IdleSweep`); any other adds a rule, so that with n rules one of n sweeps adds
nothing (`SweepsClose`, `SweepBounds`). `OrderedFacts` says that a plan has each
required tier once, in the policy's order. A tier that applies to a change applies to
a larger one (`AppliesToMore`: a larger change is less likely to be of precursors
only), and required tiers grow with those they are required from
(`PrerequisitesOfMore`, which is why `AddPrerequisites` is a least closed set).
Induction over numbers is done here in first-order form: a set of numbers that has
0 and every successor up to n has them all (`UpTo`, from the well-foundedness of the
naturals), and with it the existence of recursive functions (`Recursion`).

**`CiProofs`.** `CiInv` conjoins types, `Progress` (which executions have completed
at each step; for a commit, all before the present one) and `Covering` (the plan of
a commit holds every tier that applies, with its prerequisites, all active).
`PublishedAlwaysCovers` follows, whatever the candidate makes of the tier policy,
since the gate reads the base's. `PlannersAlwaysAgree` has the hypothesis
`SameControls`: the candidate leaves the tier policy as it is, the policy passes the
planner's own validation, and both read the manifests alike. Without it the two
plan by different policies, and no more can be said. The gate plans for all that is
affected, which includes what was changed; a gate that accepts found all it requires
active and ready, so the planner, which requires fewer, accepts too; for a registry
that changes in its activation only and a change that generates nothing, both
compute the same.
`ProtectedChangesAlwaysReviewed` uses `ActivatedIsGenerating`: what the gate takes
for protected is what needs a human (`AffectedFacts`). `ReceiptsSeeCandidate` uses
`ReceiptInv`: past its last command the dispatcher has just found the tree unchanged.
It looks between commands only, so what is changed and undone between two looks goes
unseen, and what lay untracked in the worktree when the plan was authenticated is
what later looks compare with.

Some theorems have no property in a run, because stronger checked ones rest on them,
because they are the safety side of `LockGivenUp` or because they are about
operators: `JournalReplays`, `WritersAreCurrent`, `OneFailureNeverLocks` and
`NothingAcknowledgedIsLost` (which `LogSpec` contains), `AcceptedIsNew`,
`ActivatedIsGenerating`, `CliKeepsJournal` and `CliKeepsLoopPromises`.

Model-checked only: `LockGivenUp`, `ProducersEnd`, `RunEnds` and `PipesDrained`,
since liveness under fairness is out of the prover's reach. The properties of the
runs that expect a violation are false, and TLC shows it.

## Plan

1. The composition of `LoopJournal` with `AgentLoop`: with replay for `Admissible`,
   the chain on disk satisfies `JournalSpec` between power losses, so that the
   promises of a loop hold of what readers read. So far the two meet in
   `AcceptedIsNew` only.
2. A run of its own for the hazard that no property covers and about which a
   document says something: evidence without a verdict on the product, behind a
   retry, "stops for human escalation" (`docs/setup.md:262`) with an event that
   replay refuses.
3. The inner order of `evidence produce`, and `authorize_write`, as modules.

## Not modelled

Acceptance contracts, the governance audit and the authentication of loop
controls compare fields, digests and object names in a fixed order and end at the
first mismatch, without state of their own: their result is an input of the models
(`bound`, or a refusal that is a choice), and a model of them would restate their
guards. `authorize_write` is the two sets of paths it refuses. The measuring of the
host, the thresholds and the privacy filter read one snapshot. Kernel contract,
cases and attention inputs are chains of guards over arrays, floating-point ones
among them, which are out of TLC's reach. Of the Fast canaries only the outcome is
modelled, and the two programs of FAST-008. Of `evidence produce` the preflight,
the protected-change decision and the writer are in `HostProbe`,
`ProtectedAssets` and `EvidenceStore`; the order in which it refuses its trusted
request is not. Domain types and configuration are records without behaviour; the
shell scripts set up environments. Git's raw diff is parsed nowhere in the models.
Permissions, symbolic links and path confinement of the stores, the rendering of
reports and the wording of messages are left out of the modelled components.
