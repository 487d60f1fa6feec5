----------------------------- MODULE Iteration -----------------------------
(***************************************************************************)
(* main.py: the runs of the command line program over one output           *)
(* directory, one after the other.  A run analyses the repository, has the *)
(* plan reviewed, writes its outputs and, when asked to, runs the gates.   *)
(* Nothing is ever deleted by the program: a run that dies or skips the    *)
(* gates leaves what earlier runs wrote.  So does a call that is not a run *)
(* of the analysis: a command line that is refused, a call for help, the   *)
(* check of the model configuration.  Between any two steps a user may     *)
(* edit the policy file.                                                   *)
(***************************************************************************)
EXTENDS GateRunner, CriticAgent

CONSTANTS
    Inventories,  \* what build_repo_inventory may say of the repository
    LlmReviews,   \* what the language model may answer to the critic
    MaxRuns       \* bound on the runs of the program

ASSUME IterationAssumption ==
    /\ <<>> \in Plans
    /\ Reviews = CriticReview
    /\ Inventories \subseteq RepoInventory
    /\ LlmReviews \subseteq LlmReview
    /\ MaxRuns \in Nat

VARIABLES
    stage,        \* where main is
    withGates,    \* --run-gates
    inventory,    \* repo_inventory
    criticPolicy, \* the policy result the review was built from
    written,      \* required outputs this run has written
    torn,         \* outputs cut off by a crash in the middle of the write
    exitCode      \* of the run, as the caller sees it

mainVars == <<stage, withGates, inventory, criticPolicy, written, torn, exitCode>>
iterationVars == <<gateVars, mainVars>>

\* The order in which main writes the outputs the gates ask for.
OutputOrder == <<"findings.json", "validated_findings.json", "action_plan.json",
                 "critic_review.json", "summary.md">>

\* Deviation: success unless blocked.
ExitCodeUnlessBlocked(d) == IF d = "blocked" THEN "1" ELSE "0"

ExitCodeOf(d) == CASE d = "allow_next_iteration" -> "0"
                   [] d = "hold_for_review" -> "2"
                   [] OTHER -> "1"

\* An exception nobody catches ends the interpreter with code 1; a signal
\* ends the process without one.
Dies == stage' = "exited" /\ exitCode' \in {"1", "signal"}
-----------------------------------------------------------------------------
(* One run.                                                                *)

\* The program is called.  Until the arguments are read, withGates only says
\* that --run-gates is among them.
StartRun ==
    /\ stage \in {"idle", "exited", "turned_away"}
    /\ clock < MaxRuns
    /\ clock' = clock + 1
    /\ plan' \in Plans
    /\ inventory' \in Inventories
    /\ args' \in Args
    /\ withGates' \in BOOLEAN
    /\ stage' = "arguments"
    /\ exitCode' = "none"
    /\ written' = 0
    /\ criticPolicy' = NoPolicy
    /\ pc' = "load"
    /\ policy' = NoPolicy
    /\ checks' = Pending
    /\ targetResults' = <<>>
    /\ decision' = "none"
    /\ UNCHANGED <<policyFile, review, disk, torn, reportVars>>

beforeAnalysis == <<gateVars, withGates, inventory, criticPolicy, written, torn>>

\* argparse prints the help, or what it does not like about the arguments, and
\* ends the program itself; so does parse_args without --repo or --output.
ParserExits ==
    /\ stage = "arguments"
    /\ stage' = "turned_away"
    /\ exitCode' \in {"0", "2"}
    /\ UNCHANGED beforeAnalysis

\* --check-llm-config comes before everything else: the gates do not run even
\* if they are asked for.  What it finds is the matter of HealthCheck; it writes
\* nothing the gates look at.
CheckLlmConfig ==
    /\ stage = "arguments"
    /\ stage' = "turned_away"
    /\ exitCode' \in {"0", "1", "signal"}
    /\ UNCHANGED beforeAnalysis

\* The repository path is no directory, or resolving a path raises.
RefuseRepo ==
    /\ stage = "arguments"
    /\ stage' = "turned_away"
    /\ exitCode' \in {"1", "signal"}
    /\ UNCHANGED beforeAnalysis

BeginAnalysis ==
    /\ stage = "arguments"
    /\ stage' = "critic"
    /\ UNCHANGED <<beforeAnalysis, exitCode>>

RunCritic ==
    /\ stage = "critic"
    /\ ~ LoadRaises(policyFile)
    /\ criticPolicy' = EvaluatePlan(plan, policyFile)
    /\ review' \in CriticReviews(plan, inventory, criticPolicy', LlmReviews)
    /\ stage' = "outputs"
    /\ UNCHANGED <<pc, policyFile, plan, args, clock, disk, policy, checks,
                   targetResults, decision, reportVars, withGates, inventory,
                   written, torn, exitCode>>

\* The analysis may die: the policy file cannot be loaded, an error body of
\* the provider cannot be read, the process is killed.
AnalysisDies ==
    /\ stage = "critic"
    /\ Dies
    /\ UNCHANGED <<gateVars, withGates, inventory, criticPolicy, written, torn>>

\* Deviation: an output that is there already is not written again.
WriteMissingOutput ==
    /\ stage = "outputs"
    /\ written < Len(OutputOrder)
    /\ written' = written + 1
    /\ disk' = [disk EXCEPT ![OutputOrder[written']] = IF @ = 0 THEN clock ELSE @]
    /\ torn' = torn
    /\ UNCHANGED <<inputVars, pc, policy, checks, targetResults, decision,
                   reportVars, stage, withGates, inventory, criticPolicy, exitCode>>

WriteOutput ==
    /\ stage = "outputs"
    /\ written < Len(OutputOrder)
    /\ written' = written + 1
    /\ disk' = [disk EXCEPT ![OutputOrder[written']] = clock]
    /\ torn' = torn \ {OutputOrder[written']}
    /\ UNCHANGED <<inputVars, pc, policy, checks, targetResults, decision,
                   reportVars, stage, withGates, inventory, criticPolicy, exitCode>>

\* write_text truncates before it writes: the next output may be left torn.
OutputsDie ==
    /\ stage = "outputs"
    /\ Dies
    /\ \/ UNCHANGED <<disk, torn>>
       \/ /\ written < Len(OutputOrder)
          /\ disk' = [disk EXCEPT ![OutputOrder[written + 1]] = clock]
          /\ torn' = torn \cup {OutputOrder[written + 1]}
    /\ UNCHANGED <<inputVars, pc, policy, checks, targetResults, decision,
                   reportVars, withGates, inventory, criticPolicy, written>>

ReturnWithoutGates ==
    /\ stage = "outputs"
    /\ written = Len(OutputOrder)
    /\ ~ withGates
    /\ stage' = "exited"
    /\ exitCode' = "0"
    /\ UNCHANGED <<gateVars, withGates, inventory, criticPolicy, written, torn>>

\* Deviation: the gates run before the summary is written.
EnterGatesEarly ==
    /\ stage = "outputs"
    /\ written = Len(OutputOrder) - 1
    /\ withGates
    /\ stage' = "gates"
    /\ UNCHANGED <<gateVars, withGates, inventory, criticPolicy, written, torn,
                   exitCode>>

EnterGates ==
    /\ stage = "outputs"
    /\ written = Len(OutputOrder)
    /\ withGates
    /\ stage' = "gates"
    /\ UNCHANGED <<gateVars, withGates, inventory, criticPolicy, written, torn,
                   exitCode>>

RunGates ==
    /\ stage = "gates"
    /\ Next
    /\ UNCHANGED mainVars

ReturnDecision ==
    /\ stage = "gates"
    /\ pc = "done"
    /\ stage' = "exited"
    /\ exitCode' = ExitCodeOf(decision)
    /\ UNCHANGED <<gateVars, withGates, inventory, criticPolicy, written, torn>>

\* Deviation: an exception of the gates is swallowed.
GatesDieSilently ==
    /\ stage = "gates"
    /\ pc = "done"
    /\ Dies
    /\ UNCHANGED <<gateVars, withGates, inventory, criticPolicy, written, torn>>

\* The gates raised, or printing the decision did.
GatesDie ==
    /\ stage = "gates"
    /\ pc \in {"done", "crashed"}
    /\ Dies
    /\ UNCHANGED <<gateVars, withGates, inventory, criticPolicy, written, torn>>

\* A user edits the policy file.  An edit after the gates have loaded it is
\* not seen by this run: it counts as one at the start of the next run.
EditPolicy ==
    /\ \/ stage \in {"critic", "outputs"}
       \/ stage = "gates" /\ pc = "load"
    /\ policyFile' \in PolicyFiles
    /\ UNCHANGED <<pc, plan, review, args, clock, disk, policy, checks,
                   targetResults, decision, reportVars, mainVars>>
-----------------------------------------------------------------------------
\* The program has not run yet: the output directory is empty.
IterationInit ==
    /\ pc = "load"
    /\ policyFile \in PolicyFiles
    /\ plan = <<>>
    /\ review = DeterministicReview(<<>>, [parse_errors |-> FALSE, has_tests |-> TRUE],
                                    NoPolicy)
    /\ args = [targets |-> 0, runtimes |-> 0]
    /\ clock = 0
    /\ disk = [o \in RequiredOutputs |-> 0]
    /\ policy = NoPolicy
    /\ checks = Pending
    /\ targetResults = <<>>
    /\ decision = "none"
    /\ agentReport = NoReport
    /\ humanReport = NoReport
    /\ stage = "idle"
    /\ withGates = FALSE
    /\ inventory = [parse_errors |-> FALSE, has_tests |-> TRUE]
    /\ criticPolicy = NoPolicy
    /\ written = 0
    /\ torn = {}
    /\ exitCode = "none"

\* The steps of a run that has been started.
RunStep ==
    \/ ParserExits \/ CheckLlmConfig \/ RefuseRepo \/ BeginAnalysis
    \/ RunCritic \/ AnalysisDies
    \/ WriteOutput \/ OutputsDie
    \/ ReturnWithoutGates \/ EnterGates
    \/ RunGates \/ ReturnDecision \/ GatesDie

IterationNext == StartRun \/ EditPolicy \/ RunStep

IterationSpec == IterationInit /\ [][IterationNext]_iterationVars

\* A run that has been started goes on: every call it makes returns or raises
\* (requests and commands have timeouts).  Users owe nothing.
IterationFairSpec == IterationSpec /\ WF_iterationVars(RunStep)
-----------------------------------------------------------------------------
(* Properties.                                                             *)

\* The gates never judge an output of an earlier run or a torn one: whatever
\* runs died before, each file a gate finds was written, whole, by this run.
GatesSeeOwnOutputs ==
    stage = "gates" =>
        /\ torn = {}
        /\ \A o \in RequiredOutputs : disk[o] \in {0, clock}
        /\ pc \in {"load", "system"} => \A o \in RequiredOutputs : disk[o] = clock

\* A plan that named a protected file when the critic read the policy file, or
\* when the gates read it again, is never allowed, whatever the language model
\* answered and whoever edited the file in between.
ProtectedNeverAllowed ==
    Allows(agentReport) =>
        criticPolicy.protected_files = {} /\ policy.protected_files = {}

\* A caller that trusts the exit code of an analysis with gates can trust both
\* reports: 0 means that both say "allow" for this very run, 2 that both say
\* "hold", also when earlier runs left other reports behind.  The same codes of
\* a call that asks for gates and ends before the analysis (argparse exits with
\* 2, the check of the configuration with 0) mean neither: no report on disk is
\* of that call.
ExitCodeMatchesReports ==
    /\ stage = "exited" /\ withGates =>
        /\ exitCode = "0" => \A r \in {agentReport, humanReport} :
               r = [decision |-> "allow_next_iteration", at |-> clock]
        /\ exitCode = "2" => \A r \in {agentReport, humanReport} :
               r = [decision |-> "hold_for_review", at |-> clock]
    /\ stage = "turned_away" => \A r \in {agentReport, humanReport} : r.at < clock

\* Nothing is ever removed, so the reports of one run may lie beside outputs of
\* another.  They can be told apart, though: a report for humans that is whole
\* and as new as the newest output has a report for agents of the same run that
\* says the same, and every output that is there is of this run, too, and whole.
NewestReportsBelongTogether ==
    LET at == humanReport.at
    IN  /\ humanReport.decision \in Decisions
        /\ at \in {disk[o] : o \in RequiredOutputs}
        /\ \A o \in RequiredOutputs : disk[o] <= at
        => /\ agentReport = humanReport
           /\ torn = {}
           /\ \A o \in RequiredOutputs : disk[o] \in {0, at}

\* A run that has been started exits, and has an exit code.
EveryRunExits ==
    stage = "arguments" ~> (stage \in {"exited", "turned_away"} /\ exitCode # "none")

\* ITERATION_LOOP.md, section 7, and config/gate_spec.json: a plan the
\* critic marked as blocked or of high risk does not go on without a human.
HighRiskIsHeld ==
    Allows(agentReport) => ~ review.blocked /\ review.risk_level # "high"

\* config/gate_spec.json: an iteration is allowed only with both reports of it.
AllowNeedsBothReports ==
    stage = "exited" /\ Allows(agentReport) => humanReport.at = clock
=============================================================================
