----------------------------- MODULE GateRunner -----------------------------
(***************************************************************************)
(* iteration/gate_runner.py: run_iteration_gates, one call of it.          *)
(*                                                                         *)
(* The nine checks run one after the other, in the order of the code; most *)
(* of them start a command of somebody else (a test suite, a smoke run),   *)
(* which may succeed, fail, run into the timeout, make subprocess.run      *)
(* raise, and change files.  When all checks are in, a decision is taken   *)
(* and written twice: a report for agents, then a report for humans.  The  *)
(* process may die between any two steps and in the middle of a write.     *)
(***************************************************************************)
EXTENDS PolicyEngine, Integers

CONSTANTS
    Plans,              \* the action plans a call may be given
    Reviews,            \* the critic reviews a call may be given
    PolicyFiles,        \* the contents config/policy_config.json may have
    StaleDecisions,     \* what an earlier call may have left on disk
    MaxTargetCommands,  \* bound on --target-test-command options
    MaxRuntimeCommands, \* bound on --runtime-command options
    Deletable           \* outputs a command that is run may delete

RequiredOutputs == {"summary.md", "findings.json", "validated_findings.json",
                    "action_plan.json", "critic_review.json"}

ASSUME GateAssumption ==
    /\ Plans \subseteq Seq(PlanStep)
    /\ Reviews \subseteq CriticReview
    /\ PolicyFiles \subseteq PolicyFile
    /\ StaleDecisions \subseteq {"allow_next_iteration", "hold_for_review", "blocked"}
    /\ MaxTargetCommands \in Nat
    /\ MaxRuntimeCommands \in Nat
    /\ Deletable \subseteq RequiredOutputs

VARIABLES
    pc,            \* the next thing run_iteration_gates does
    policyFile,    \* config/policy_config.json
    plan,          \* action_plan["steps"]
    review,        \* critic_review
    args,          \* how many target test and runtime commands were given
    clock,         \* the present run; what it writes carries this stamp
    disk,          \* required outputs: stamp of the run that wrote each, 0 = absent
    policy,        \* policy_result
    checks,        \* status of each check, "pending" before it has run
    targetResults, \* return codes of the target test commands so far
    decision,      \* "none" until _decide_iteration has run
    agentReport,   \* artifacts/iteration_agent_report.json
    humanReport    \* iteration_human_report.md

inputVars == <<policyFile, plan, review, args, clock>>
gateVars == <<pc, policyFile, plan, review, args, clock, disk, policy, checks,
              targetResults, decision, agentReport, humanReport>>

TestChecks == {"system_test_suite", "golden_regression_suite",
               "target_repo_regression_suite"}
PolicyChecks == {"protected_path_check", "step_scope_check",
                 "no_auto_execution_check"}
RuntimeChecks == {"artifact_completeness_check",
                  "target_repo_entrypoint_smoke_run",
                  "target_repo_core_command_check"}
Checks == TestChecks \cup PolicyChecks \cup RuntimeChecks

Gates == {"test_gate", "policy_gate", "runtime_gate"}
ChecksOf == [g \in Gates |-> CASE g = "test_gate" -> TestChecks
                               [] g = "policy_gate" -> PolicyChecks
                               [] g = "runtime_gate" -> RuntimeChecks]

Statuses == {"passed", "failed", "manual_review"}
Decisions == {"allow_next_iteration", "hold_for_review", "blocked"}

\* A report file: the decision it carries, or nothing, or a torn text.
Report == [decision : Decisions \cup {"absent", "torn"}, at : Nat]
NoReport == [decision |-> "absent", at |-> 0]

reportVars == <<agentReport, humanReport>>

PcValues == {"load", "system", "golden", "target", "policy_gate", "artifacts",
             "entrypoint", "core", "decide", "agent_report", "human_report",
             "done", "crashed"}
-----------------------------------------------------------------------------
(* The verdicts.                                                           *)

\* _finalize_gate: one failed check fails the gate, else one open check
\* leaves it to a human.
FinalizeGate(cs, gateChecks) ==
    IF \E c \in gateChecks : cs[c] = "failed" THEN "failed"
    ELSE IF \E c \in gateChecks : cs[c] = "manual_review" THEN "manual_review"
    ELSE "passed"

\* Deviation: the policy gate only looks for a critic that blocks.
PolicyGateStatusIgnoringNeedsReview(cs, criticStatus) ==
    IF criticStatus = "blocked" THEN "failed" ELSE FinalizeGate(cs, PolicyChecks)

\* The policy gate also reads the status of the critic review.
PolicyGateStatus(cs, criticStatus) ==
    LET final == FinalizeGate(cs, PolicyChecks)
    IN  CASE criticStatus = "blocked" -> "failed"
          [] criticStatus = "needs_review" /\ final = "passed" -> "manual_review"
          [] OTHER -> final

GateStatus(g, cs, criticStatus) ==
    IF g = "policy_gate" THEN PolicyGateStatus(cs, criticStatus)
    ELSE FinalizeGate(cs, ChecksOf[g])

DecideIteration(cs, criticStatus) ==
    IF \E g \in Gates : GateStatus(g, cs, criticStatus) = "failed" THEN "blocked"
    ELSE IF \A g \in Gates : GateStatus(g, cs, criticStatus) = "passed"
    THEN "allow_next_iteration"
    ELSE "hold_for_review"

PlanIsNonExecuting(steps) == \A i \in DOMAIN steps : ~ steps[i].executing

PassedIf(condition) == IF condition THEN "passed" ELSE "failed"
-----------------------------------------------------------------------------
(* Commands.                                                               *)

CommandOutcomes == {"exit_zero", "exit_nonzero", "timeout"}

\* Deviation: a timeout is reported like the shell's timeout command does.
ReturncodeOfShell(outcome) == CASE outcome = "exit_zero" -> 0
                                [] outcome = "exit_nonzero" -> 1
                                [] outcome = "timeout" -> 124

\* _execute_command: a command that outlives SUBPROCESS_TIMEOUT_SECONDS is
\* killed and reported with return code -1.
Returncode(outcome) == CASE outcome = "exit_zero" -> 0
                         [] outcome = "exit_nonzero" -> 1
                         [] outcome = "timeout" -> -1

\* What a command may do to the output directory while it runs.
CommandEffects ==
    \E gone \in SUBSET Deletable :
        disk' = [o \in RequiredOutputs |-> IF o \in gone THEN 0 ELSE disk[o]]

\* _execute_command_check, followed by the step at next.
RunCommandCheck(check, next) ==
    /\ \E outcome \in CommandOutcomes :
          checks' = [checks EXCEPT ![check] = PassedIf(Returncode(outcome) = 0)]
    /\ CommandEffects
    /\ pc' = next

\* _manual_review_check, followed by the step at next.
LeaveToHuman(open, next) ==
    /\ checks' = [c \in Checks |->
                     IF c \in open THEN "manual_review" ELSE checks[c]]
    /\ pc' = next
    /\ UNCHANGED disk
-----------------------------------------------------------------------------
(* run_iteration_gates, step by step.                                      *)

\* Deviation: the call starts by clearing the reports of the last one.
EvaluatePolicyAndClearReports ==
    /\ pc = "load"
    /\ ~ LoadRaises(policyFile)
    /\ policy' = EvaluatePlan(plan, policyFile)
    /\ agentReport' = NoReport
    /\ humanReport' = NoReport
    /\ pc' = "system"
    /\ UNCHANGED <<inputVars, disk, checks, targetResults, decision>>

EvaluatePolicy ==
    /\ pc = "load"
    /\ ~ LoadRaises(policyFile)
    /\ policy' = EvaluatePlan(plan, policyFile)
    /\ pc' = "system"
    /\ UNCHANGED <<inputVars, disk, checks, targetResults, decision, reportVars>>

RunSystemTests ==
    /\ pc = "system"
    /\ RunCommandCheck("system_test_suite", "golden")
    /\ UNCHANGED <<inputVars, policy, targetResults, decision, reportVars>>

RunGoldenTests ==
    /\ pc = "golden"
    /\ RunCommandCheck("golden_regression_suite", "target")
    /\ UNCHANGED <<inputVars, policy, targetResults, decision, reportVars>>

\* One of the target test commands: all of them run, also after a failure.
RunTargetCommand ==
    /\ pc = "target"
    /\ Len(targetResults) < args.targets
    /\ \E outcome \in CommandOutcomes :
          targetResults' = Append(targetResults, Returncode(outcome))
    /\ CommandEffects
    /\ UNCHANGED <<pc, inputVars, policy, checks, decision, reportVars>>

\* Deviation: only the last command counts.
FinishTargetSuiteByLast ==
    /\ pc = "target"
    /\ args.targets > 0
    /\ Len(targetResults) = args.targets
    /\ checks' = [checks EXCEPT !["target_repo_regression_suite"] =
                     PassedIf(targetResults[args.targets] = 0)]
    /\ pc' = "policy_gate"
    /\ UNCHANGED <<inputVars, disk, policy, targetResults, decision, reportVars>>

\* Deviation: the suite is run again until it passes.
FinishTargetSuiteWhenGreen ==
    /\ pc = "target"
    /\ args.targets > 0
    /\ Len(targetResults) = args.targets
    /\ IF \A i \in DOMAIN targetResults : targetResults[i] = 0
       THEN /\ checks' = [checks EXCEPT !["target_repo_regression_suite"] = "passed"]
            /\ pc' = "policy_gate"
            /\ UNCHANGED targetResults
       ELSE /\ targetResults' = <<>>
            /\ UNCHANGED <<pc, checks>>
    /\ UNCHANGED <<inputVars, disk, policy, decision, reportVars>>

FinishTargetSuite ==
    /\ pc = "target"
    /\ args.targets > 0
    /\ Len(targetResults) = args.targets
    /\ checks' = [checks EXCEPT !["target_repo_regression_suite"] =
                     PassedIf(\A i \in DOMAIN targetResults : targetResults[i] = 0)]
    /\ pc' = "policy_gate"
    /\ UNCHANGED <<inputVars, disk, policy, targetResults, decision, reportVars>>

NoTargetCommands ==
    /\ pc = "target"
    /\ args.targets = 0
    /\ LeaveToHuman({"target_repo_regression_suite"}, "policy_gate")
    /\ UNCHANGED <<inputVars, policy, targetResults, decision, reportVars>>

RunPolicyGate ==
    /\ pc = "policy_gate"
    /\ checks' = [checks EXCEPT
           !["protected_path_check"] = PassedIf(policy.protected_files = {}),
           !["step_scope_check"] = PassedIf(policy.oversized_steps = {}),
           !["no_auto_execution_check"] = PassedIf(PlanIsNonExecuting(plan))]
    /\ pc' = "artifacts"
    /\ UNCHANGED <<inputVars, disk, policy, targetResults, decision, reportVars>>

\* Looks at the existence of the files only, before the runtime commands run.
CheckArtifacts ==
    /\ pc = "artifacts"
    /\ checks' = [checks EXCEPT !["artifact_completeness_check"] =
                     PassedIf(\A o \in RequiredOutputs : disk[o] # 0)]
    /\ pc' = "entrypoint"
    /\ UNCHANGED <<inputVars, disk, policy, targetResults, decision, reportVars>>

RunEntrypoint ==
    /\ pc = "entrypoint"
    /\ args.runtimes > 0
    /\ RunCommandCheck("target_repo_entrypoint_smoke_run", "core")
    /\ UNCHANGED <<inputVars, policy, targetResults, decision, reportVars>>

\* Deviation: the core command check is forgotten.
NoRuntimeCommandsForEntrypoint ==
    /\ pc = "entrypoint"
    /\ args.runtimes = 0
    /\ LeaveToHuman({"target_repo_entrypoint_smoke_run"}, "decide")
    /\ UNCHANGED <<inputVars, policy, targetResults, decision, reportVars>>

NoRuntimeCommands ==
    /\ pc = "entrypoint"
    /\ args.runtimes = 0
    /\ LeaveToHuman({"target_repo_entrypoint_smoke_run",
                     "target_repo_core_command_check"}, "decide")
    /\ UNCHANGED <<inputVars, policy, targetResults, decision, reportVars>>

\* Only the first two runtime commands are ever run.
RunCoreCommand ==
    /\ pc = "core"
    /\ args.runtimes > 1
    /\ RunCommandCheck("target_repo_core_command_check", "decide")
    /\ UNCHANGED <<inputVars, policy, targetResults, decision, reportVars>>

NoCoreCommand ==
    /\ pc = "core"
    /\ args.runtimes = 1
    /\ LeaveToHuman({"target_repo_core_command_check"}, "decide")
    /\ UNCHANGED <<inputVars, policy, targetResults, decision, reportVars>>

\* Deviation: the report for humans is written first.
DecideForHumansFirst ==
    /\ pc = "decide"
    /\ decision' = DecideIteration(checks, review.status)
    /\ pc' = "human_report"
    /\ UNCHANGED <<inputVars, disk, policy, checks, targetResults, reportVars>>

Decide ==
    /\ pc = "decide"
    /\ decision' = DecideIteration(checks, review.status)
    /\ pc' = "agent_report"
    /\ UNCHANGED <<inputVars, disk, policy, checks, targetResults, reportVars>>

WriteAgentReport ==
    /\ pc = "agent_report"
    /\ agentReport' = [decision |-> decision, at |-> clock]
    /\ pc' = "human_report"
    /\ UNCHANGED <<inputVars, disk, policy, checks, targetResults, decision,
                   humanReport>>

WriteHumanReport ==
    /\ pc = "human_report"
    /\ humanReport' = [decision |-> decision, at |-> clock]
    /\ pc' = "done"
    /\ UNCHANGED <<inputVars, disk, policy, checks, targetResults, decision,
                   agentReport>>
-----------------------------------------------------------------------------
(* Failures.                                                               *)

\* An exception that nobody catches (a policy file that cannot be loaded, a
\* working directory that is gone, output that is no UTF-8, a full disk), or
\* the end of the process.
Crash ==
    /\ pc \notin {"done", "crashed"}
    /\ pc' = "crashed"
    /\ UNCHANGED <<inputVars, disk, policy, checks, targetResults, decision,
                   reportVars>>

\* write_text truncates the file before it fills it.
TearAgentReport ==
    /\ pc = "agent_report"
    /\ agentReport' = [decision |-> "torn", at |-> clock]
    /\ pc' = "crashed"
    /\ UNCHANGED <<inputVars, disk, policy, checks, targetResults, decision,
                   humanReport>>

TearHumanReport ==
    /\ pc = "human_report"
    /\ humanReport' = [decision |-> "torn", at |-> clock]
    /\ pc' = "crashed"
    /\ UNCHANGED <<inputVars, disk, policy, checks, targetResults, decision,
                   agentReport>>
-----------------------------------------------------------------------------
Args == [targets : 0..MaxTargetCommands, runtimes : 0..MaxRuntimeCommands]

Pending == [c \in Checks |-> "pending"]

\* One call of run_iteration_gates on a directory that earlier runs, of
\* lower stamps, may have left anything in.
Init ==
    /\ pc = "load"
    /\ policyFile \in PolicyFiles
    /\ plan \in Plans
    /\ review \in Reviews
    /\ args \in Args
    /\ clock = 1
    /\ disk \in {[o \in RequiredOutputs |-> IF o \in gone THEN 0 ELSE 1] :
                    gone \in SUBSET Deletable}
    /\ policy = NoPolicy
    /\ checks = Pending
    /\ targetResults = <<>>
    /\ decision = "none"
    /\ agentReport \in [decision : StaleDecisions, at : {0}] \cup {NoReport}
    /\ humanReport = agentReport

Step ==
    \/ EvaluatePolicy
    \/ RunSystemTests \/ RunGoldenTests
    \/ RunTargetCommand \/ FinishTargetSuite \/ NoTargetCommands
    \/ RunPolicyGate
    \/ CheckArtifacts
    \/ RunEntrypoint \/ NoRuntimeCommands
    \/ RunCoreCommand \/ NoCoreCommand
    \/ Decide
    \/ WriteAgentReport \/ WriteHumanReport

Failure == Crash \/ TearAgentReport \/ TearHumanReport

Next == Step \/ Failure

Spec == Init /\ [][Next]_gateVars

\* Every command returns or is killed by the timeout, and an exception ends
\* the call: the call itself never waits for ever.
FairSpec == Spec /\ WF_gateVars(Next)
-----------------------------------------------------------------------------
(* Properties.                                                             *)

\* Type invariant of the variables of run_iteration_gates.
TypeOK ==
    /\ pc \in PcValues
    /\ policyFile \in PolicyFiles
    /\ plan \in Plans
    /\ review \in Reviews
    /\ args \in Args
    /\ clock \in Nat
    /\ disk \in [RequiredOutputs -> Nat]
    /\ policy \in PolicyResult
    /\ checks \in [Checks -> Statuses \cup {"pending"}]
    /\ targetResults \in Seq({-1, 0, 1})
    /\ decision \in Decisions \cup {"none"}
    /\ agentReport \in Report
    /\ humanReport \in Report

\* The reports of the present call that say the iteration may go on.
Allows(report) == report.decision = "allow_next_iteration" /\ report.at = clock

\* run_iteration_gates never lets an iteration go on unless it is earned: in
\* the state in which either report says "allow", every one of the nine checks
\* has passed (none failed, none was left to a human, none was skipped), the
\* critic approved, and the plan at hand names no protected file, has no
\* oversized step and asks for no automatic execution under the policy file.
AllowIsEarned ==
    Allows(agentReport) \/ Allows(humanReport) =>
        /\ \A c \in Checks : checks[c] = "passed"
        /\ review.status = "approved"
        /\ EvaluatePlan(plan, policyFile).protected_files = {}
        /\ EvaluatePlan(plan, policyFile).oversized_steps = {}
        /\ PlanIsNonExecuting(plan)
        /\ args.targets > 0 /\ args.runtimes > 1

\* A hard failure is never softened to "hold": a failed check, a failing
\* target command wherever it stood among the others, or a critic that blocks
\* leaves only "blocked" to be reported.
HardFailureBlocks ==
    /\ decision # "none"
    /\ \/ \E c \in Checks : checks[c] = "failed"
       \/ \E i \in DOMAIN targetResults : targetResults[i] # 0
       \/ review.status = "blocked"
    => decision = "blocked"

\* The two reports of one call never contradict each other, and the report for
\* humans of this call exists only after the one for agents: whoever reads it
\* finds the other one complete.
ReportsAgree ==
    humanReport.at = clock =>
        /\ agentReport.at = clock
        /\ agentReport.decision \in Decisions
        /\ humanReport.decision \in {agentReport.decision, "torn"}

\* Until every check of the present call has a status, the reports on disk,
\* also those of an earlier call, are left as they are.
NoEarlyVerdict ==
    [][(agentReport' # agentReport \/ humanReport' # humanReport)
           => \A c \in Checks : checks[c] # "pending"]_gateVars

\* A call ends: it returns with both reports written, or it dies.
CallEnds == <>(pc \in {"done", "crashed"})
-----------------------------------------------------------------------------
(* The inductive invariant behind the safety properties.                   *)

\* The steps at which the checks of each stage are still pending.
BeforeSystem == {"load", "system"}
BeforeGolden == BeforeSystem \cup {"golden"}
BeforeTarget == BeforeGolden \cup {"target"}
BeforePolicyGate == BeforeTarget \cup {"policy_gate"}
BeforeArtifacts == BeforePolicyGate \cup {"artifacts"}
BeforeEntrypoint == BeforeArtifacts \cup {"entrypoint"}
BeforeCore == BeforeEntrypoint \cup {"core"}
BeforeDecide == BeforeCore \cup {"decide"}
BeforeAgentReport == BeforeDecide \cup {"agent_report"}
BeforeHumanReport == BeforeAgentReport \cup {"human_report"}

PendingExactly(check, steps) == checks[check] = "pending" <=> pc \in steps

\* A check has a status from its own step on, and not before.
ChecksInOrder ==
    pc # "crashed" =>
        /\ PendingExactly("system_test_suite", BeforeSystem)
        /\ PendingExactly("golden_regression_suite", BeforeGolden)
        /\ PendingExactly("target_repo_regression_suite", BeforeTarget)
        /\ \A c \in PolicyChecks : PendingExactly(c, BeforePolicyGate)
        /\ PendingExactly("artifact_completeness_check", BeforeArtifacts)
        /\ PendingExactly("target_repo_entrypoint_smoke_run", BeforeEntrypoint)
        /\ PendingExactly("target_repo_core_command_check", BeforeCore)

\* What the policy checks found is what the policy says of the plan.
PolicyChecksSound ==
    /\ pc \notin {"load", "crashed"} => policy = EvaluatePlan(plan, policyFile)
    /\ checks["protected_path_check"] = "passed" =>
           EvaluatePlan(plan, policyFile).protected_files = {}
    /\ checks["step_scope_check"] = "passed" =>
           EvaluatePlan(plan, policyFile).oversized_steps = {}
    /\ checks["no_auto_execution_check"] = "passed" => PlanIsNonExecuting(plan)

\* A command check that passed had a command to run, and the target suite
\* speaks for all its commands.
CommandChecksSound ==
    /\ checks["target_repo_regression_suite"] \notin {"pending", "failed"} =>
           \A i \in DOMAIN targetResults : targetResults[i] = 0
    /\ checks["target_repo_regression_suite"] = "passed" => args.targets > 0
    /\ checks["target_repo_entrypoint_smoke_run"] = "passed" => args.runtimes > 0
    /\ checks["target_repo_core_command_check"] = "passed" => args.runtimes > 1
    /\ Len(targetResults) <= args.targets

\* The decision is taken from the final statuses, exactly once.
DecisionSound ==
    /\ pc \in BeforeDecide => decision = "none"
    /\ pc \in {"agent_report", "human_report", "done"} => decision # "none"
    /\ decision # "none" =>
           /\ \A c \in Checks : checks[c] # "pending"
           /\ decision = DecideIteration(checks, review.status)

\* A report with the stamp of this call tells the decision of this call.
ReportsSound ==
    /\ pc \in BeforeAgentReport => agentReport.at # clock
    /\ pc \in BeforeHumanReport => humanReport.at # clock
    /\ pc \in {"human_report", "done"} =>
           agentReport = [decision |-> decision, at |-> clock]
    /\ agentReport.at = clock =>
           /\ decision # "none"
           /\ agentReport.decision \in {decision, "torn"}
    /\ humanReport.at = clock =>
           /\ agentReport = [decision |-> decision, at |-> clock]
           /\ decision # "none"
           /\ humanReport.decision \in {decision, "torn"}

\* The inductive invariant of run_iteration_gates: it implies AllowIsEarned,
\* HardFailureBlocks and ReportsAgree, none of which is inductive by itself.
GateInv ==
    /\ TypeOK
    /\ ChecksInOrder
    /\ PolicyChecksSound
    /\ CommandChecksSound
    /\ DecisionSound
    /\ ReportsSound
=============================================================================
