# Formal models of the code decoupling agent

This directory holds TLA+ models of the program in `src/`, configurations that
check them with TLC on small instances, and theorems about the gates, runs of
the program, the agents, the model client, the health check, the deterministic
analysis and the module reports, proved with TLAPS. Every module is written from the Python source; documents of
the repository are used only for the properties they promise.

Run inside this directory:

    tlc -workers 2 -config MCGateRunner.cfg MCGateRunner     # any run of PROJECT.json
    tlapm GateRunnerProofs.tla                               # a proof module

`PROJECT.json` lists the components, the runs, the source lines behind every
definition ("map"), the deviations that each property is known to catch
("mutants"), the findings, the hazards and the theorems.

## 1. The system

The program scans a Python repository, turns the scan into findings, lets three
agents (each by rules, or with a language model when one is configured) validate
the findings, plan a cleanup and review the plan, writes everything to an output
directory and, when asked to, runs the iteration gates, which decide whether an
iteration may go on. It is one thread; what makes it hard is everything it does
not control: the provider of the language model, the commands it starts, the
output directory that survives from run to run, the configuration file that
users edit, and its own death at any step.

| Component | State it keeps | Operations | Talks to | Hard behaviour |
|---|---|---|---|---|
| CLI (`main.py`) | output directory, exit code | a run with or without gates, `--check-llm-config`, refused command lines | governor, gates, health check | dies between or inside writes; outputs of several runs in one directory; exit codes with two meanings |
| Governor (`agents/governor.py`) | the results so far | `run_governed_analysis` | all agents | one agent's failure in the middle |
| Scanners | none | module index, imports, database signals, changed globals, consumers of shared modules, readers of variables | tool runner | relative imports, two files with one name, nested scopes |
| Tool runner | parsed files, counters | `run_deterministic_toolchain` | scanners, rules engine | files that do not parse, or that cannot be read |
| Rules engine | none | seven rules, import cycles | scanners; the validator reads its words | recursion over an unordered graph; thresholds in two places |
| Validator | verdicts, errors | one call per finding | LLM client | any mixture of answers and failures |
| Planner | triage, plan, backlog | triage, plan by rules, sanitize the model's plan | LLM client | an answer that names anything |
| Critic | review | review by rules, sanitize the model's review | policy engine, LLM client | an answer that contradicts the policy or itself |
| Policy engine | none (reads its file every time) | `evaluate_plan` | critic, gates | file edited between two reads, unusable file |
| Gate runner | checks, decision, two reports | `run_iteration_gates` | commands of others, policy engine | timeouts, side effects, crash between reports |
| LLM client | attempt | one call with retries | provider | lost answers, unusable answers, failing error description |
| Health check | probe cache | one probe per model | LLM client, routing | two ways to ask for the key |
| Model routing, environment | cache of variables, misses included | resolve roles to models, one question after the other | health check, agents | the registry is edited between two questions |
| Module reports | cached weights | inventory, deep reviews, cards | git, LLM client | partial failures, name collisions |
| Renderer, logging | none | text | CLI | - |

What makes each component correct:

* gates: an "allow" is earned by every check, a hard failure always blocks, the
  two reports never disagree, nothing is published before all checks are in;
* program over several runs: outputs, reports and exit codes of different runs
  are never mixed up, a protected file never gets through;
* agents: every finding is judged once, rejected findings stay out of the plan,
  no answer of a model takes the plan outside the repository or lifts a block,
  and an outage gives exactly the analysis without a model;
* toolchain: the edges are the modules Python would run, the cycles are exactly
  those of the graph in whatever order the neighbours come, every file that
  surely uses the database is reported once, every change of a global is seen,
  and the rules engine and the validator judge alike;
* routing: one process sees one environment, and the policy that is printed
  agrees with the check that is made;
* LLM client: bounded attempts, nothing asked again once it is answered, one
  outcome; health check: one probe per model and no failure hidden;
* module reports: all modules are ranked on one scale, no urgent module is
  passed over for a milder one, and every review says who wrote it.

## 2. Modules

| Module | Models | Kind |
|---|---|---|
| `Contracts` | the records the agents exchange | data |
| `Ordering` | what `sorted`, `list.sort` and a list comprehension with a condition return | operators |
| `PolicyEngine` | `policy/engine.py` | operators |
| `IterationGate` | what the gates promise, without checks, commands or files | abstract specification |
| `GateRunner` | `run_iteration_gates`, one action per step | state machine |
| `GateRefinement` | the mapping of `GateRunner` to `IterationGate` | refinement |
| `CriticAgent`, `ValidatorAgent`, `PlannerAgent` | the three agents: rules, sanitizers, fallbacks | operators |
| `AgentPipeline` | governor and agents: one analysis | state machine |
| `Iteration` | `main.py`: runs over one output directory; composes `GateRunner` and `CriticAgent` | state machine |
| `RepositoryScan` | `scanner/__init__.py`, `scanner/imports.py`: module names, module index, edges | operators |
| `DbUsage` | `scanner/db_usage.py`: database signals and how sure they are | operators |
| `GlobalState` | `scanner/globals.py`: objects that functions change | operators |
| `ImportCycles` | `detect_import_cycles`, step by step | state machine, part of `Toolchain` |
| `RulesEngine` | `run_rules`: the seven rules and the order of the findings | operators |
| `Toolchain` | `agents/tool_runner.py`: one deterministic analysis; composes the five above with `ValidatorAgent` | state machine |
| `ChatCall` | a model call as the agents see it | abstract specification |
| `LlmClient` | a model call as the client makes it; implements `ChatCall` | state machine |
| `ModelRouting` | `llm/catalog.py`, `llm/env.py`: configuration file, environment, registry, cache | state and one step, part of `HealthCheck` |
| `HealthCheck` | `llm/health.py` and its exit code, on top of the routing | state machine |
| `ModuleInventory` | metrics, score, priority and order of the modules of a repository | operators |
| `ModuleReviews` | ranking, deep reviews and cards of `agents/module_report_agent.py` | state machine |
| `MC...` | instances for TLC | instances |
| `...Proofs` | the theorems about the module of that name (`GateRunner`, `Iteration`, `AgentPipeline`, `LlmClient`, `HealthCheck`, `Toolchain`, `ModuleReviews`) and the lemmas about orders and sorted lists they share (`Ordering`) | proofs |

Definitions whose comment begins with "Deviation:" are never part of a
specification. Each is the definition that follows it with a plausible mistake,
and shows that the property named for it in `PROJECT.json` can fail.

### How state and actions correspond to the code

**GateRunner.** `pc` is the place in `run_iteration_gates`. `EvaluatePolicy` is
the head (lines 45-49). `RunSystemTests`, `RunGoldenTests`, `RunTargetCommand`,
`RunEntrypoint` and `RunCoreCommand` are one `_execute_command` each: the
command exits with zero or not or hits the timeout (return code -1), and may
remove outputs. `FinishTargetSuite` is the tail of
`_execute_multi_command_check`; `NoTargetCommands`, `NoRuntimeCommands` and
`NoCoreCommand` leave checks to a human. `RunPolicyGate` and `CheckArtifacts`
set their checks. `Decide`, `WriteAgentReport` and `WriteHumanReport` are the
tail. `Crash` is an uncaught exception or the end of the process at any of these
places; `TearAgentReport` and `TearHumanReport` are a `write_text` cut off after
it has truncated the file. A report is the decision it carries and the number of
the run that wrote it (`clock`); reports of earlier runs may be there from the
start. A command that outlives its timeout in a child process may remove an
output later still; that is no new behaviour before `CheckArtifacts`, because
any command before it may remove any such output, and nothing reads the outputs
after it.

**Iteration.** `StartRun` is a call of the program with any command line. It may
end before the analysis: `ParserExits` is argparse printing its help (code 0) or
an error (code 2), `CheckLlmConfig` is `--check-llm-config`, which comes before
everything else even when gates are asked for as well, and `RefuseRepo` is a
path that is no directory. All three leave everything on disk as it was and the
stage at "turned_away". After `BeginAnalysis` the analysis before the critic is
summed up in the choice of a plan. `RunCritic` evaluates the policy
and takes the review by rules or the sanitized answer; `WriteOutput` writes the
required outputs in the order of `main`; `RunGates` is any step of `GateRunner`.
`AnalysisDies`, `OutputsDie` and `GatesDie` end the process with code 1
(exception) or a signal. `EditPolicy` is a user changing
`config/policy_config.json`; the file is read when it is needed, as in the code.

**AgentPipeline.** `ValidateWithModel` and `ValidationCallFails` are one turn of
the validator's loop; `Triage` is what the governor does between validator and
planner; the planner and the critic have an action for each way out of their
functions. `CallRaisesTwice` is `provider_request_error` raising inside an
except clause. Triage keeps scores, severities and the sort key, because the
order of the plan depends on them. An answer of the model is a record whose
fields may be `Junk`, a value that fails the type test of the code; steps keep
repeated files, because the policy counts them. An item of a model's backlog is
kept when it names a rule, known or not, as in the code.

**Toolchain.** A repository is a function from its files to what is read out of
each: statements, expressions, bindings and sizes, or that it is broken or
cannot be read. `BuildContext` is `build_repo_context`, `SourceRaises` an
exception it does not catch, `ScanImports` the import scan, `KeepCycles` the
sort that ends `detect_import_cycles`, `ApplyRules` is `run_rules`. The other
scans have no state and meet no failure; each rule calls the operator it needs.
A file, its path and the place of its path in the sorted list are constants
(`PathOf`, `PathRank`); a dotted name is the sequence of its parts, and a file
`a.b.py` has two parts of its own, because the code joins the parts of a path
with dots and splits at dots again. Left out are names that begin or end with a
dot and directories called `__init__`. `RepositoryScan` resolves names as
`scanner/imports.py` does, longest prefix first; the property
`EdgesFollowImports` compares that with what the import system of Python runs
(`Executed`, `Innermost`). A relative import may climb as far as the topmost
directory of the file and no further (`StaysInside`): Python refuses the rest,
and what the code draws for such a statement is outside the property, as are
repositories with dots inside of names, which Python cannot import under the
names the scan gives them. An expression that may be a database signal has the
parts of its name and the place of the first one that is spelled with "high"
(`high`): the validator looks for that word, or its Chinese form, in lines that
begin with the name. `GlobalState` decides function
by function over a nest of functions, as the code does; `MutationsAreSeen`
compares that with the scoping rules (`ChangesGlobal`). Tests on the words of
paths, and the lists and thresholds of `rules/config.py`, are constants.

**ImportCycles.** `frames` is Python's call stack: `Enter` is the head of
`strongconnect`, `VisitNeighbor` and `SeeNeighbor` are the two branches of its
loop, and `ReturnFromCall` is its tail together with the `min` in the caller.
The neighbours of a node are taken in any order. `Rank` is the order of the
sorted files.

**LlmClient.** `PostAnswered`, `PostFails` and `PostRaises` are the ways `_post`
can end (`PostRaises`: a base URL that is no URL before anything is sent, a body
that cannot be read or is no JSON after the answer), `Pause` the sleep, `ReadAnswer` and `AnswerUnusable` the extraction of
the content, `DescribeFailure` the except clause of the caller.

**ModelRouting.** `Topics` is the list of all questions the program asks of its
environment, in order: who asks, and for which field. A question is a list of
names, a variable and its aliases (`NamesOf`), and may depend on the
configuration file that was loaded. One call of `resolve_env` is a sequence of
reads: the cache, then the process, then the user's and the machine's registry
key, one layer per step (`layer`), so that `EditRegistry` can fall between any
two of them. The two `_pick` helpers are `Pick` and `PickList`; a list of aliases
without a usable entry counts as none given. What was found, or that nothing was, stays in `cache`. The bound of
64 entries on the cache is an assumption on the number of names.

**HealthCheck.** `LoadConfig` or `LoadConfigRaises`, then `ResolveRouting` (one
step of the routing) until all questions are answered, then one action per role
and one for the summary. The client asks for its own key, the configuration may
name another; both are questions.

**ModuleReviews.** `CollectGitHotness`, `RankModule` (one turn of the loop over
the modules) and `SortInventory` are `build_module_inventory`; `weights` is the
module level cache, which the first `RankModule` fills or `WeightsRaise` dies
filling; `EditWeights` is a user changing `config/priority_weights.json`.
`StartReview`, `CallAnswered`, `CallFails`, `CallRaises` and `FinishReview` are
one turn of the loop of `build_module_deep_reviews`, `part` being the number of
the call that is next; `BuildCards` joins the reviews to the modules again.
`calls` is what the provider has seen. Modules are numbered in the order of
their names, because the code sorts by name.

## 3. Runs

| Run | Question | Bounds | Result |
|---|---|---|---|
| `gate_runner` | Is every verdict of one call earned, whole and in order? | 6 plans, 3 critic statuses, 3 policy files, 0-2 target and 0-2 runtime commands, one deletable output, stale "allow" reports | holds, 897 thousand states |
| `iteration` | Does anything of one run leak into another? | 2 calls with any command line, 2 files, plans for none or either of them, 2 policy files edited at will, an approving model, a command that may remove the summary | holds, 1.1 million states |
| `agent_pipeline` | Can failures or answers of the model break the analysis? | window 2, 6 lists of up to 3 findings, 4 files, 6 verdicts, about 100 plans and 3 reviews of the model, 3 policy files | holds, 481 thousand states |
| `import_cycles` | Does an analysis by rules find what is there: the edges, exactly the cycles, the handlers, the changed globals? | 7,647 repositories of up to 9 files: all 512 graphs of 3 files (self imports included), 1024 of 4; every form of import statement alone in a package tree, with broken and unreadable files and a file with dots in its name; all sets of up to 3 (and, in a handler, of 5) of 9 database expressions under 3 kinds of imports, and of up to 3 of these and one named with "high"; all sets of up to 3 of 18 statements about a global; readers, shared modules, sizes around each threshold | holds, 113 thousand states |
| `llm_client` | Are attempts bounded and outcomes unique? | 5 attempts, 3 more than the code makes | holds, 641 states |
| `health_check` | Does a process see one environment, and is the probe cache sound? | the 5 roles of the code, all its questions, 4 configuration files, 5 environments of the process, 2 registries, 1 edit at any moment | holds, 260 thousand states |
| `module_reviews` | Are the right modules reviewed, on one scale, and honestly marked? | 4 modules in 5 files, 2 reviewed (the code: 5), 3 lists of findings, 4 weights files edited at will, 2 histories | holds, 135 thousand states |
| `iteration_warnings` | Does a plan of high risk wait for a human? | 1 run | violated |
| `iteration_reports` | Is an allow always accompanied by both reports? | 1 run | violated |
| `agent_pipeline_backlog` | Is what the plan leaves out kept in the backlog? | as `agent_pipeline` | violated |
| `agent_pipeline_fallback` | Does every failed call fall back? | as `agent_pipeline`, without unusable policy files | violated |
| `health_check_silent` | Does success rest on a probe? | as `health_check` | violated |

Why the bounds are enough. Checks are decided by a conjunction and a
disjunction, so two target commands already separate "all", "any" and "last".
The plans of `gate_runner` hold one of each kind (empty, plain, too large,
protected by a keyword, protected by a user, executing). One deletable output
is enough because the completeness check treats all of them alike. Two runs are
enough for one run to meet the leftovers of another: a third one finds the same
kinds of leftovers. A window of two with up to three findings has plans shorter
than, equal to and longer than the window, and a rule with two findings inside
and outside of it. Four files give nested, overlapping and disjoint cycles; the graphs of four
files have no self imports and all have the edges from the first to the second
and from the third to the fourth file. An import statement is resolved on its
own, so repositories with one statement suffice for the forms of imports, and
the graphs for their combinations; the tree has two packages in one another, a
module beside a package of the same name, and a file at the root. The signals of
a file enter the rules through counts compared with small numbers and through
the first three lines of evidence, which the sets of five expressions exceed. A nest of two functions, and a third beside it, has declarations at the
place, above it and elsewhere. One edit of the registry is enough to make two
readings differ, and it may fall between any two reads of a layer.
Two reviewed modules of four are enough
for a counter to leak from one review into the next and for an urgent module to
fall behind the cut; the instance reaches all priorities, and a third urgent
module when two files of a finding lie in different modules. In all runs deadlock checking is off
because the system stops: a call returns, an analysis ends, and the number of
runs is bounded; that it stops only where it should is what the liveness
properties say.

### What the violated runs show

* `HighRiskIsHeld`: the critic's sanitizer keeps "approved" beside
  `blocked = true` or a high risk of the same answer, and the policy gate reads
  the status only; `ITERATION_LOOP.md` and `config/gate_spec.json` say such a
  plan waits for a human.
* `AllowNeedsBothReports`: the report for agents says "allow" before the one
  for humans exists, and a crash in between leaves it like that;
  `requires_reports` in `config/gate_spec.json` is read by no code.
* `NothingDropped`: the model's backlog replaces the deterministic one
  unchecked, while the summary says the remaining problems are kept there.
* `FailuresFallBack`: describing an HTTP error reads its body inside an except
  clause; when that fails, the analysis ends with a traceback instead of the
  deterministic fallback.
* `SuccessRestsOnProbe`: the health check and the client look at different
  keys; when they differ, every role is skipped and the check reports "healthy".

Seen on the way and covered by no run:

* exit codes: 2 is the code of hold_for_review and of argparse for a command line
  it does not like, and `--check-llm-config --run-gates` returns 0 without any
  gate; `ExitCodeMatchesReports` therefore speaks of calls that reach the
  analysis, and of the others it says that they leave no report of their own;
* gates and plan: `max_plan_window`, `gate_order` and `requires_reports` are read
  or echoed but never enforced; a step for a rule with several findings takes its
  priority from the last and its files from the first of them;
* texts: `report/renderer.py:299` says only planner and critic use a live model,
  but the validator and the module reviews do as well; `README.md:226` gives
  `ENABLE_LIVE_AGENTS` the default `0`, `llm/client.py:120` the default true;
* modules: findings the validator rejected still raise the priority of their
  module;
* scans: an augmented assignment at module level is a finding of RULE_D, which
  `README.md:107` and `rules_engine/engine.py:246` describe as a change inside a
  function; `del CACHE[k]` is seen by no branch; a relative import that climbs out
  of the topmost package, which Python refuses, still draws an edge, beyond the
  repository from its root; the path word "repo" also matches
  "report";
* validator: its confidence in RULE_D is always high, because the words it looks
  for are in every evidence; in a finding of RULE_A it is also high when a name such
as `session.high_scores.query` has the word in it (`RulesAndValidatorAgree` allows
that and no more); in a finding of RULE_A whose sure signal is beyond
  the first three lines of evidence it is medium although the severity is high;
  RULE_G says "several" operations where one `db.session.commit()` suffices.

### Fairness

Weak fairness of the whole next-state relation in `GateRunner`,
`AgentPipeline`, `Toolchain` and `LlmClient`: the code is one thread, every
command has a timeout, every socket operation has one, and an exception ends
the call, so some step is always taken. For `LlmClient` this contains the one
assumption the code cannot enforce, that an answer of the provider is finite
(the timeout is per operation). In `Iteration` only the steps of a run that has
been started are fair: nobody has to start a run or to edit the policy file.
`HealthCheck` and `ModuleReviews` have no liveness properties.

## 4. Proofs

Each theorem is `Spec => []Inv` or `Spec => [][A]_vars` for a property that a run
also checks, or a refinement; `FindingsAlwaysSuitAgents` is the exception, it
joins two models that no run runs together.

| Module | Theorems | Holds for |
|---|---|---|
| `GateRunnerProofs` | `TypeCorrect`, `AllowIsAlwaysEarned`, `HardFailureAlwaysBlocks`, `ReportsAlwaysAgree`, `NoVerdictIsEarly` | all plans, reviews, policy files, paths, numbers of commands, crashes |
| `GateRunnerProofs` | `GateRunnerImplementsIterationGate` | the same |
| `IterationProofs` | `GatesAlwaysSeeOwnOutputs`, `ProtectedIsNeverAllowed`, `ExitCodeAlwaysMatchesReports`, `NewestReportsAlwaysBelongTogether` | the same, and any number of runs, edits and deaths between them |
| `AgentPipelineProofs` | `EveryFindingIsJudgedOnce`, `ModeIsAlwaysHonest`, `ReviewIsNeverLifted`, `OutageAlwaysEqualsNoClient`, `RejectedIsNeverPlanned`, `PlansStayInside`, `WorstComeFirst` | all lists of findings, answers of the model, policy files, windows |
| `LlmClientProofs` | `CallTypeCorrect`, `CallGivesUpForAReason`, `CallAnsweredOnce`, `LlmClientImplementsChatCall` | all numbers of attempts |
| `HealthCheckProofs` | `RoutingSeesOneEnvironment`, `ModelsAreProbedOnce`, `RolesShareVerdicts`, `SummaryAgreesWithPolicy` | all configuration files, environments, registries and edits |
| `ToolchainProofs` | `CyclesAreFound`, `StackIsAlwaysInOrder`, `LowlinksAreAlwaysReached` | all repositories, all orders of the neighbours |
| `ToolchainProofs` | `EdgesAlwaysFollowImports`, `HandlersAreAlwaysCovered`, `MutationsAreAlwaysSeen`, `RulesAndValidatorAlwaysAgree`, `FindingsAlwaysSuitAgents` | all repositories and sets of statements, expressions and deeds; all lists and thresholds of the rules (the fourth: thresholds of overuse from 5, its value in `rules/config.py`) |
| `ModuleReviewsProofs` | `WeightsAreSettled`, `ModeIsTrue`, `TheUrgentGetCards` | all repositories, findings, histories, weights files, numbers of reviews, failures of the model |

The assumptions are the named `ASSUME`s of the modules; TLC evaluates them in
every run. They say that the constants have their types and that paths and places
are those of a file system, and these things beside:

* `RoutingAssumption`: the names of variables fit into the cache of 64 entries;
* `PipelineAssumption`: every finding names a file, and only files of the
  repository. `FindingsAlwaysSuitAgents` proves that of the findings that the
  toolchain hands to the agents;
* `RepositoryAssumption`: no part of a module name is the star of
  `from ... import *`, a path called plain has a stem without dots, and of two
  files with one module name an `__init__.py` comes first in the sorted list;
* `ToolchainAssumption`: a file reads finitely many variables, a `from` import
  names something, and a deed lies in a function;
* `RulesAssumption`: thresholds are numbers, the strong ones no smaller than the
  others, and that of overuse is not zero;
* `ReviewsAssumption`: the edges of a repository join its files, and the weights
  of a weights file are numbers.

`Junk` is left unspecified.

None of the invariants is inductive; each proof rests on a stronger one, with one
lemma per conjunct or action.

* **Gates.** `AllowIsEarned` speaks of the checks in the state of the report,
  while a step only knows its `pc`; so `GateInv` adds which checks are pending at
  which `pc` (`ChecksInOrder`), what a passed check is evidence of
  (`PolicyChecksSound`, `CommandChecksSound`), that the decision is the function
  of the final checks (`DecisionSound`) and that a report with the stamp of this
  call carries the decision of this call (`ReportsSound`). That is what makes
  crashes harmless: the crash actions leave `pc` at "crashed", where no clause
  about a `pc` applies, and the clauses about stamps do not mention `pc`. The
  refinement needs the same invariant: a gate is closed by the step that sets its
  last check, which can only be told from `ChecksInOrder`.
* **Runs.** A step of the gates inside `Iteration` is a step of `GateRunner`, so
  the lemmas about `GateInv` are used again; between runs `GateInv` has to survive
  a new start over old reports. `IterationInv` adds that no stamp lies in the
  future and a finished call has written both reports (`StampsSound`), what main
  has done at each stage, the stages before the analysis included (`StageSound`) and that a critic that saw a protected
  file has blocked the plan (`CriticSound`). The last one is what still protects a
  file when an edit takes it off the list before the gates read it. Nothing is
  ever removed, so reports of one run lie beside outputs of another;
  `NewestReportsBelongTogether` says how a reader tells them apart. Its proof needs
  that a run renews all its outputs before it writes a report (`StageSound`) and
  `ReportsSound` of the gates: a run that dies earlier leaves an output newer than
  the old reports, unless it wrote none.
* **Agents.** `VerdictsSound` says of the validator in the middle of its loop that
  its verdicts are those of the first findings in order and that the answers and
  the errors add up; `PlanningSound` and `ReviewSound` tie plan and review to what
  they were made from. `OutageEqualsNoClient` follows because the same functions
  are then applied to the same arguments. `TriageSound` says that the triage is
  the sorted list of the findings that were not rejected, and `PlanInv` that every
  step of the plan, whoever wrote it, is about a rule of the triage and names files
  of the repository (`StepsSound`). `WorstFirst` needs that the sort key orders the
  items as their severities do.
* **Model call.** The number of pauses is tied to the attempt
  (`AttemptsAccounted`), what is known to the place in the call (`StageSound`) and
  the outcome to its reason (`OutcomeSound`).
* **Routing and probes.** `RoutingInv` says that every answer is the first name
  of its question that the cache has as set, or the absence of all of them, in
  the cache as it is *now*; since entries of the cache never change, later edits
  cannot reach back. `ProbeInv` says the same of the results and the probe cache,
  and `AnswersInv` that the questions were asked in the order of `Topics`, so that
  when the roles are checked every question one of them depends on has its answer.
* **Search for cycles.** `SearchInv` adds to the two properties that a lowlink is
  no larger than its index (`NodesSound`) and that the active calls follow edges
  (`CallsSound`). The heart is `RootPops`: what a root takes off the stack is
  exactly what lies above it, so what is left is still in order, and no lowlink
  that is left is the index of something that was taken. That all cycles are
  found (`CyclesAreFound`) takes `FoundInv`: every edge of a node that is done
  leads to a node that is met or still to be looked at (`EdgesFollowed`), a node
  left on the stack by a call has handed its lowlink down to the caller
  (`LowlinksHandedOver`), active calls reach what lies above them on the stack
  (`CallsReach`), and what was popped is a whole cycle (`CyclesKept`). Paths do
  not occur in it: "reaches" is membership in every closed set, which needs no
  induction.
* **Findings.** `AnalysisInv` says what each step of an analysis leaves to the
  next. Its last clause, `Reports`, describes the sorted list: it has every
  finding of the rules that look at single files and at cycles exactly once, and
  beside them only findings about variables and shared modules. The rest is about
  single files. `ReportedOnce` reads a finding back to the rule that made it,
  `DueIsReported` is the converse; `MutationIsSeen` finds the innermost function
  that says something about a name; `FindingsAgree` puts the two sets of
  thresholds side by side. For the edges, `PrefixesNest` makes the prefixes of a
  name a chain, so that the longest match is the innermost module, and
  `IndexHasFirst` says which of two files with one name counts.
* **Module reports.** `RankInv` ties what was ranked to the weights in the cache,
  which are settled with the first module, and the inventory to its sorted list.
  `ReviewInv` says that of the module under review exactly the parts before the
  current one were asked, and who answered them. `FirstPlaces` describes a sorted
  list cut off; from it follows that nobody behind the cut is more urgent.
* **Sorted lists and sums.** `Ordering` defines a sorted list by the number of
  elements that come before each. `OrderingProofs` shows that it is a permutation
  in order, from cardinalities alone; where an induction is needed (sums over
  sets, the first difference of two lists of files) a smallest counterexample
  takes its place (`SmallestNumber`).

Only model-checked: the liveness properties (`CallEnds`, `EveryRunExits`,
`AnalysisEnds`, `CallReturns`, `ToolchainEnds`), since TLAPS cannot prove anything
under fairness here, and the five properties that the code violates. Every
invariant and every action property of a passing run is proved.

## 5. Not modelled

* The call graph and the records of definitions, which no rule reads.
* How names, bindings and statements are read out of a syntax tree, and aliases of
  `os` in the scan of variables: they are inputs. So are how a file gets its
  module and its layer in the module reports, and the words in paths.
* The lightweight cards and recommendations of the module reports, the file names
  of the cards (names that differ only in dots and double underscores share one),
  the hotspots of the inventory.
* The display texts of the routing, the models for embedding and reranking, which
  no role uses, and `clear_env_cache`, which only tests call.
* All texts (reports, prompts, reasons, titles), the report renderer, logging, and
  the artifacts no later step reads.
* In the health check, roles without an assignment: the routing assigns all
  five. In the gates, the gate specification file: it is echoed into the
  reports.
* Limits of the interpreter, such as the depth of recursion in the search for
  cycles.
* Two processes on one output directory at the same time: the program takes no
  lock and nothing suggests such a use.

## 6. Plan

Done first, because a wrong "allow" is the worst the program can do: the gates,
their abstract specification and proofs; then the program around them, the
agents, and the algorithms; then the routing, the scanners and the rules that
bring the findings; then the proofs for all of these.

Every safety property that a passing run checks is now a theorem. What is left:

1. The artifacts of a run other than the required outputs, among them the card
   files, whose names can collide.
2. The rest of the scanners: how names, bindings and statements are read out of a
   syntax tree, beginning with the aliases of imports that the database scan
   follows.
3. One theorem over all components. `FindingsAlwaysSuitAgents` joins the toolchain
   and the agents, and the lemmas about `GateInv` join the gates and the program;
   between the agents and `Iteration`, which sums up an analysis in its plan, a
   refinement mapping is missing.
