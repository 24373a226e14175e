-------------------------------- MODULE FastRun --------------------------------
(***************************************************************************)
(* validate --suite fast: run_fast_validation executes the checks of the   *)
(* manifest in order, commands through run_bounded_argv, evaluates what    *)
(* they observed, publishes the evidence and verifies what it published.   *)
(* Meanwhile somebody may change the checkout.                             *)
(*                                                                         *)
(* The authenticated manifest fixes the counts, seeds and shard that the   *)
(* runner copies into every observation; of an observation its status and  *)
(* failure class are left.  Publication is EvidenceStore's: here it fails  *)
(* or succeeds.                                                            *)
(***************************************************************************)
EXTENDS BoundedProcess, FiniteSets

CONSTANTS
  Checks,    \* the checks of the manifest: [id, kind]
  MaxChunks  \* commands of the static check

Kinds == {"given", "static", "import", "paths", "assertion", "canary"}
Ids == {Checks[i].id : i \in DOMAIN Checks}

ASSUME ChecksAssumption ==
  /\ Checks \in Seq([id : Ids, kind : Kinds])
  /\ \A i, j \in DOMAIN Checks : Checks[i].id = Checks[j].id => i = j
  /\ "FAST-013" \in Ids /\ MaxChunks \in Nat

VARIABLES
  step,      \* where run_fast_validation is
  wanted, commands,  \* commands the check in progress is to run and has run
  outcomes,  \* of the checks so far: class, errors, and how their commands
             \* ended (of those with a verdict on the product)
  protected, \* the protected-change decision has errors
  run,       \* the FastRunResult
  published, \* the evidence below reports/runs, or Nothing
  exit,      \* the exit code of the command
  changed,   \* the step at which the checkout was changed, or "never"
  faulted    \* something other than a check has failed

fast == <<step, wanted, commands, outcomes, protected, run, published, exit, changed, faulted>>
vars == <<process, fast>>

Classes == {"pass", "product-fail", "infrastructure-invalid", "contract-invalid"}
Steps == {"start", "checks", "recheck", "publish", "verify", "compare", "last look", "ended"}
Nothing == [verdict |-> "none", validations |-> <<>>]
NoRun == [verdict |-> "none", classes |-> <<>>, errors |-> {}]
ExitCode(verdict) ==
  CASE verdict = "pass" -> 0 [] verdict = "product-fail" -> 1
    [] verdict = "infrastructure-invalid" -> 2 [] verdict = "contract-invalid" -> 3

Init ==
  /\ ProcessInit
  /\ step = "start" /\ wanted = 0 /\ commands = <<>> /\ outcomes = <<>>
  /\ protected = FALSE /\ run = NoRun /\ published = Nothing
  /\ exit = -1 /\ changed = "never" /\ faulted = FALSE

Leave(value) == step' = "ended" /\ exit' = value

(* require_clean_candidate: HEAD and the tracked files.                    *)
CandidateThere == changed = "never"

-----------------------------------------------------------------------------
(* What is read before the checks, and refused (3) or unreadable (2).      *)
Begin ==
  /\ step = "start"
  /\ \/ CandidateThere /\ step' = "checks" /\ protected' \in BOOLEAN /\ UNCHANGED <<exit, faulted>>
     \/ Leave(3) /\ faulted' = TRUE /\ UNCHANGED protected
     \/ Leave(2) /\ faulted' = TRUE /\ UNCHANGED protected
  /\ UNCHANGED <<process, wanted, commands, outcomes, run, published, changed>>

InProgress == Checks[Len(outcomes) + 1]
Running(kind) == step = "checks" /\ Len(outcomes) < Len(Checks) /\ InProgress.kind = kind

About(error) == [code |-> error, of |-> InProgress.id]
AboutNone(error) == [code |-> error, of |-> "none"]
Did == [i \in DOMAIN commands |-> commands[i].truth]
Pass == [class |-> "pass", errors |-> {}, did |-> Did]
Fail(class, error) == [class |-> class, errors |-> {error},
                       did |-> IF class = "product-fail" THEN Did ELSE <<>>]

Observe(outcome) ==
  /\ outcomes' = Append(outcomes, outcome)
  /\ commands' = <<>> /\ wanted' = 0
  /\ UNCHANGED <<process, step, protected, run, published, exit, changed, faulted>>

(* AdapterResult.passed: validated before the checks.                      *)
ObserveGiven == Running("given") /\ Observe(Pass)

(* An adapter that raises is an infrastructure failure.                    *)
ObserveRaise ==
  /\ \E kind \in Kinds \ {"given"} : Running(kind)
  /\ call = "idle" /\ wanted = 0
  /\ Observe(Fail("infrastructure-invalid", About("FAST-ADAPTER-002")))

ObservePaths ==
  /\ Running("paths")
  /\ \/ Observe(Pass)
     \/ Observe(Fail("contract-invalid", AboutNone("FAST-PATH-001")))

(* A canary without commands; any canary may be unable to write its files. *)
ObserveCanary ==
  \/ Running("canary") /\ Observe(Pass)
  \/ Running("canary") /\ Observe(Fail("contract-invalid", About("FAST-CANARY-CONTROL")))
  \/ /\ Running("canary") \/ Running("assertion")
     /\ wanted = 0
     /\ Observe(Fail("infrastructure-invalid", About("FAST-CANARY-EXEC")))

ObserveNoInputs ==
  /\ Running("static") /\ wanted = 0
  /\ Observe(Fail("contract-invalid", AboutNone("FAST-STATIC-001")))

(* The commands of a check: ruff on each chunk of the Python paths, an     *)
(* import, or a mutation and its control.                                  *)
CommandsOf(kind) ==
  CASE kind = "static" -> 1..MaxChunks [] kind = "import" -> {1} [] kind = "assertion" -> {2}

BeginCommands ==
  /\ wanted = 0
  /\ \E kind \in {"static", "import", "assertion"} :
       Running(kind) /\ wanted' \in CommandsOf(kind)
  /\ UNCHANGED <<process, step, commands, outcomes, protected, run, published, exit, changed, faulted>>

BeginCommand ==
  /\ Len(commands) < wanted
  /\ Popen \/ PopenFails
  /\ UNCHANGED fast

EndCommand ==
  /\ call = "returned"
  /\ commands' = Append(commands, [code |-> result.code, class |-> result.class,
                                   error |-> result.error,
                                   truth |-> IF result.code = "none" THEN "none" ELSE code])
  /\ Forget
  /\ UNCHANGED <<step, wanted, outcomes, protected, run, published, exit, changed, faulted>>

CommandsDone == wanted > 0 /\ Len(commands) = wanted
Failed(cs) == {i \in DOMAIN cs : cs[i].error # "none"}
FirstFailed(cs) == cs[CHOOSE i \in Failed(cs) : \A j \in Failed(cs) : i <= j]

(* Mutant: the last command decides.                                       *)
ObserveLastCommand ==
  /\ Running("static") \/ Running("import")
  /\ CommandsDone
  /\ LET c == commands[Len(commands)] IN
     IF c.error = "none" THEN Observe(Pass) ELSE Observe(Fail(c.class, AboutNone(c.error)))

(* The first command that has an error decides.                            *)
ObserveCommands ==
  /\ Running("static") \/ Running("import")
  /\ CommandsDone
  /\ LET c == FirstFailed(commands) IN
     IF Failed(commands) = {} THEN Observe(Pass) ELSE Observe(Fail(c.class, AboutNone(c.error)))

(* FAST-008: the program without its assertion must run, the other fail.   *)
ObserveAssertion ==
  /\ Running("assertion") /\ CommandsDone
  /\ IF commands[1].code = "zero" /\ commands[2].code = "nonzero" THEN Observe(Pass)
     ELSE Observe(Fail("contract-invalid", About("FAST-CANARY-CONTROL")))

-----------------------------------------------------------------------------
(* evaluate_observations, of the classes observed.                         *)
Verdict(classes) ==
  LET seen == {classes[i] : i \in DOMAIN classes} IN
  IF "contract-invalid" \in seen THEN "contract-invalid"
  ELSE IF "infrastructure-invalid" \in seen THEN "infrastructure-invalid"
  ELSE IF "product-fail" \in seen THEN "product-fail" ELSE "pass"

RunErrors(classes) ==
  {[code |-> "FAST-RUN-001", of |-> Checks[i].id] : i \in {j \in DOMAIN classes : classes[j] # "pass"}}

Executed ==
  LET classes == [i \in DOMAIN outcomes |-> outcomes[i].class] IN
  [verdict |-> Verdict(classes), classes |-> classes,
   errors |-> UNION {outcomes[i].errors : i \in DOMAIN outcomes} \union RunErrors(classes)]

(* _attribute_protected_errors: only these errors are left.                *)
Attributed(r) ==
  [verdict |-> "contract-invalid",
   classes |-> [i \in DOMAIN r.classes |-> IF Checks[i].id = "FAST-013" THEN "contract-invalid" ELSE r.classes[i]],
   errors |-> {[code |-> "PROT", of |-> "FAST-013"]}]

EndChecks ==
  /\ step = "checks" /\ Len(outcomes) = Len(Checks)
  /\ run' = IF protected THEN Attributed(Executed) ELSE Executed
  /\ step' = "recheck"
  /\ UNCHANGED <<process, wanted, commands, outcomes, protected, published, exit, changed, faulted>>

(* Mutant: the checkout is not looked at behind the checks.                *)
RecheckNothing ==
  /\ step = "recheck"
  /\ step' = "publish" /\ UNCHANGED exit
  /\ UNCHANGED <<process, wanted, commands, outcomes, protected, run, published, changed, faulted>>

Recheck ==
  /\ step = "recheck"
  /\ IF CandidateThere THEN step' = "publish" /\ UNCHANGED exit ELSE Leave(3)
  /\ UNCHANGED <<process, wanted, commands, outcomes, protected, run, published, changed, faulted>>

(* evidence_validations: an error that names no validation goes to every   *)
(* one that failed.                                                        *)
Related(r, i) == {e \in r.errors : e.of \in {"none", Checks[i].id}}
Validations(r) ==
  [i \in DOMAIN r.classes |->
     [status |-> IF r.classes[i] = "pass" THEN "pass" ELSE "fail",
      errors |-> IF r.classes[i] = "pass" THEN {}
                 ELSE IF Related(r, i) # {} THEN Related(r, i)
                 ELSE {[code |-> "FAST-RUN-001", of |-> Checks[i].id]}]]

(* EvidenceWriter: what finalize refuses is answered with 3.               *)
Finalizable(r) ==
  r.verdict = "pass" <=> \A i \in DOMAIN Validations(r) : Validations(r)[i].status = "pass"

Publish ==
  /\ step = "publish"
  /\ \/ Leave(2) /\ faulted' = TRUE /\ UNCHANGED published
     \/ ~Finalizable(run) /\ Leave(3) /\ UNCHANGED <<published, faulted>>
     \/ /\ Finalizable(run)
        /\ published' = [verdict |-> run.verdict, validations |-> Validations(run)]
        /\ step' = "verify" /\ UNCHANGED <<exit, faulted>>
  /\ UNCHANGED <<process, wanted, commands, outcomes, protected, run, changed>>

(* verify_evidence on the published directory.                             *)
VerifyPublished ==
  /\ step = "verify"
  /\ \/ step' = "compare" /\ UNCHANGED <<exit, faulted>>
     \/ Leave(2) /\ faulted' = TRUE
  /\ UNCHANGED <<process, wanted, commands, outcomes, protected, run, published, changed>>

(* verify_fast_evidence evaluates the observations again and refuses what  *)
(* has errors, which every failed validation has.                          *)
Exact == /\ published = [verdict |-> run.verdict, validations |-> Validations(run)]
         /\ run.verdict = Verdict(run.classes)
         /\ run.verdict = "pass" => run.errors = {}
Compare ==
  /\ step = "compare"
  /\ IF Exact /\ RunErrors(run.classes) = {} THEN step' = "last look" /\ UNCHANGED exit ELSE Leave(2)
  /\ UNCHANGED <<process, wanted, commands, outcomes, protected, run, published, changed, faulted>>

LastLook ==
  /\ step = "last look"
  /\ Leave(IF CandidateThere THEN ExitCode(run.verdict) ELSE 3)
  /\ UNCHANGED <<process, wanted, commands, outcomes, protected, run, published, changed, faulted>>

(* Somebody edits a tracked file or moves HEAD, and leaves it so.  No check *)
(* is modelled to read the checkout: a change during the checks may as well *)
(* be one behind them.                                                     *)
ChangeCheckout ==
  /\ changed = "never" /\ step # "ended"
  /\ step = "checks" => Len(outcomes) = Len(Checks)
  /\ changed' = step
  /\ UNCHANGED <<process, step, wanted, commands, outcomes, protected, run, published, exit, faulted>>

-----------------------------------------------------------------------------
Runner ==
  \/ Begin \/ ObserveGiven \/ ObserveRaise \/ ObservePaths \/ ObserveCanary \/ ObserveNoInputs
  \/ BeginCommands \/ BeginCommand \/ EndCommand \/ ObserveCommands \/ ObserveAssertion
  \/ EndChecks \/ Recheck \/ Publish \/ VerifyPublished \/ Compare \/ LastLook

Next == Runner \/ ChangeCheckout \/ (ProcessNext /\ UNCHANGED fast)
Spec == Init /\ [][Next]_vars

(* The runner, its reader threads and the timeout make progress; neither   *)
(* the command nor a descendant has to.                                    *)
FairSpec ==
  /\ Spec
  /\ WF_vars(Runner) /\ WF_vars(CallerStep /\ UNCHANGED fast)
  /\ \A s \in Streams : WF_vars(ReaderStep(s) /\ UNCHANGED fast)

-----------------------------------------------------------------------------
FastTypeOK ==
  /\ ProcessTypeOK
  /\ step \in Steps /\ wanted \in 0..(MaxChunks + 2) /\ Len(commands) <= wanted
  /\ Len(outcomes) <= Len(Checks)
  /\ \A i \in DOMAIN outcomes : outcomes[i].class \in Classes
                                /\ (outcomes[i].class = "pass" <=> outcomes[i].errors = {})
  /\ protected \in BOOLEAN /\ faulted \in BOOLEAN
  /\ run.verdict \in Classes \union {"none"} /\ published.verdict \in Classes \union {"none"}
  /\ exit \in -1..3 /\ changed \in Steps \union {"never"}
  /\ call # "idle" => step = "checks" /\ Len(commands) < wanted

(* Evidence is published, and a run answered with success, only while the  *)
(* checkout still is the candidate whose checks were run.                  *)
CandidateSeen ==
  /\ published # Nothing => changed \notin {"start", "checks", "recheck"}
  /\ exit = 0 => changed = "never" /\ published.verdict = "pass"

(* A published pass means that every check passed, that every command of   *)
(* the static analysis and the import ended with 0 by itself, and that the *)
(* canary's programs ran and failed as they must.                          *)
PassMeansAllRan ==
  published.verdict = "pass" =>
    /\ Len(outcomes) = Len(Checks) /\ ~protected
    /\ \A i \in DOMAIN Checks :
         /\ outcomes[i].class = "pass"
         /\ Checks[i].kind \in {"static", "import"} =>
              outcomes[i].did # <<>> /\ \A k \in DOMAIN outcomes[i].did : outcomes[i].did[k] = "zero"
         /\ Checks[i].kind = "assertion" =>
              outcomes[i].did[1] = "zero" /\ outcomes[i].did[2] = "nonzero"

(* A product failure is published only when a command failed by itself and *)
(* no check is invalid: killing a command is no verdict on the product.    *)
ProductFailIsEarned ==
  published.verdict = "product-fail" =>
    /\ \E i \in DOMAIN outcomes : \E k \in DOMAIN outcomes[i].did : outcomes[i].did[k] = "nonzero"
    /\ \A i \in DOMAIN outcomes : outcomes[i].class \in {"pass", "product-fail"}

(* "Exits are 0 pass, 1 product failure, 2 infrastructure invalid, 3       *)
(* contract invalid" (docs/setup.md:140): of an undisturbed run.           *)
ExitsAsDocumented ==
  step = "ended" /\ published # Nothing /\ ~faulted /\ changed = "never" =>
    exit = ExitCode(published.verdict)

(* A run ends, unless a descendant of a command keeps a pipe for ever: the *)
(* timeout does not reach it and the readers are joined without one.       *)
RunEnds == <>(step = "ended") \/ <>[]("descendant" \in holders)
=============================================================================
