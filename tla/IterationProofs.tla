-------------------------- MODULE IterationProofs --------------------------
(***************************************************************************)
(* Proofs about the runs of the program over one output directory, for any *)
(* number of runs, any plans, any policy files and edits of them, any      *)
(* answers of the language model, and deaths at any step.                  *)
(***************************************************************************)
EXTENDS Iteration, GateRunnerProofs

Last == Len(OutputOrder)

\* What a run of the gates leaves behind beyond GateInv: stamps never lie in
\* the future, and a finished call has written both reports.
StampsSound ==
    /\ agentReport.at <= clock /\ humanReport.at <= clock
    /\ humanReport.at = 0 => humanReport = NoReport
    /\ \A o \in RequiredOutputs : disk[o] <= clock
    /\ pc = "done" => humanReport = [decision |-> decision, at |-> clock]
    /\ checks["protected_path_check"] = "passed" => policy.protected_files = {}

\* What main has done when it is at each stage.
StageSound ==
    /\ stage \in {"idle", "arguments", "critic", "outputs", "gates", "exited", "turned_away"}
    /\ stage \in {"idle", "arguments", "critic", "outputs", "turned_away"} => pc = "load"
    /\ stage # "exited" /\ pc = "load" =>
          checks = Pending /\ targetResults = <<>> /\ decision = "none"
    /\ stage \in {"arguments", "critic", "outputs", "gates", "turned_away"} => clock > 0
    /\ clock = 0 => ~ withGates /\ agentReport = NoReport
    /\ written \in 0..Last
    /\ torn \subseteq RequiredOutputs
    /\ stage = "outputs" => \A i \in 1..written :
          disk[OutputOrder[i]] = clock /\ OutputOrder[i] \notin torn
    /\ stage \in {"arguments", "critic"} => written = 0
    /\ stage = "gates" => written = Last

\* A critic that saw a protected file has blocked the plan.
CriticSound == criticPolicy.protected_files # {} => review.status = "blocked"

\* The inductive invariant of the runs.  Before the first run no call of the
\* gates has a stamp.
IterationInv ==
    /\ TypeOK
    /\ clock > 0 => GateInv
    /\ StampsSound
    /\ StageSound
    /\ CriticSound
    /\ GatesSeeOwnOutputs
    /\ ExitCodeMatchesReports
    /\ NewestReportsBelongTogether

\* The steps before the analysis.
BeforeAnalysis == ParserExits \/ CheckLlmConfig \/ RefuseRepo \/ BeginAnalysis

\* The outputs written before the gates are those the gates ask for.
LEMMA OutputsAreRequired ==
    /\ Last = 5
    /\ \A i \in 1..Last : OutputOrder[i] \in RequiredOutputs
    /\ \A o \in RequiredOutputs : \E i \in 1..Last : OutputOrder[i] = o
<1>1. Last = 5
  BY DEF Last, OutputOrder
<1>2. \A i \in 1..5 : OutputOrder[i] \in RequiredOutputs
  BY DEF OutputOrder, RequiredOutputs
<1>3. /\ OutputOrder[1] = "findings.json" /\ OutputOrder[2] = "validated_findings.json"
      /\ OutputOrder[3] = "action_plan.json" /\ OutputOrder[4] = "critic_review.json"
      /\ OutputOrder[5] = "summary.md"
  BY DEF OutputOrder
<1>4. \A o \in RequiredOutputs : \E i \in 1..5 : OutputOrder[i] = o
  BY <1>3 DEF RequiredOutputs
<1>5. QED
  BY <1>1, <1>2, <1>4

\* The gates keep their invariant.
LEMMA GateStep == GateInv /\ [Next]_gateVars => GateInv'
BY TypeOKStep, ChecksInOrderStep, PolicyChecksSoundStep,
   CommandChecksSoundStep, DecisionSoundStep, ReportsSoundStep DEF GateInv

\* A review is a review, blocked if the policy result is, whatever the model
\* answered.
LEMMA ReviewType ==
    ASSUME NEW steps, NEW stock, NEW result \in PolicyResult,
           NEW r \in CriticReviews(steps, stock, result, LlmReviews)
    PROVE  /\ r \in CriticReview
           /\ result.protected_files # {} => r.status = "blocked"
<1> DEFINE rules == DeterministicReview(steps, stock, result)
<1>1. result.protected_files \in SUBSET Files
  BY DEF PolicyResult
<1>2. ChecksFor(steps) \in SUBSET ReviewChecks
  BY DEF ChecksFor, ReviewChecks
<1>3. /\ rules.status \in CriticStatuses /\ rules.blocked \in BOOLEAN
      /\ rules.risk_level \in RiskLevels
      /\ rules.required_checks = ChecksFor(steps)
      /\ rules.protected_files = result.protected_files
      /\ result.protected_files # {} => rules.status = "blocked"
      /\ rules = [status |-> rules.status, blocked |-> rules.blocked,
                  risk_level |-> rules.risk_level, required_checks |-> rules.required_checks,
                  protected_files |-> rules.protected_files]
  BY DEF DeterministicReview, CriticStatuses, RiskLevels
<1>4. rules \in CriticReview
  BY <1>1, <1>2, <1>3 DEF CriticReview
<1>5. CASE r = rules
  BY <1>3, <1>4, <1>5
<1>6. ASSUME NEW a \in LlmReviews, r = SanitizeReview(a, rules, result)
      PROVE  /\ r \in CriticReview
             /\ result.protected_files # {} => r.status = "blocked"
  <2>1. /\ a.status \in CriticStatuses \cup {Junk} /\ a.blocked \in BOOLEAN
        /\ a.risk_level \in RiskLevels \cup {Junk}
        /\ a.required_checks \in (SUBSET ReviewChecks) \cup {Junk}
    BY IterationAssumption DEF LlmReview
  <2>2. StringList(a.required_checks, rules.required_checks) \in SUBSET ReviewChecks
    BY <2>1, <1>2, <1>3 DEF StringList
  <2>3. /\ r.status \in CriticStatuses /\ r.blocked \in BOOLEAN /\ r.risk_level \in RiskLevels
        /\ result.protected_files # {} => r.status = "blocked"
    BY <1>3, <1>6, <2>1 DEF SanitizeReview, CriticStatuses, RiskLevels
  <2>4. /\ r.required_checks \in SUBSET ReviewChecks
        /\ r.protected_files \in SUBSET Files
    BY <1>1, <1>2, <1>3, <1>6, <2>2 DEF SanitizeReview
  <2>5. r = [status |-> r.status, blocked |-> r.blocked, risk_level |-> r.risk_level,
             required_checks |-> r.required_checks, protected_files |-> r.protected_files]
    BY <1>6 DEF SanitizeReview
  <2>6. QED
    BY <2>3, <2>4, <2>5 DEF CriticReview
<1>7. QED
  BY <1>5, <1>6 DEF CriticReviews
-----------------------------------------------------------------------------
(* The invariant of the gates, across the runs.                            *)

\* A call that has not begun satisfies the invariant of the gates.
LEMMA FreshCall ==
    ASSUME TypeOK', pc' = "load", checks' = Pending, targetResults' = <<>>,
           decision' = "none", agentReport'.at # clock', humanReport'.at # clock'
    PROVE  GateInv'
<1>1. ChecksInOrder'
  BY DEF ChecksInOrder, PendingExactly, Pending, Checks, TestChecks,
         PolicyChecks, RuntimeChecks, BeforeSystem, BeforeGolden, BeforeTarget,
         BeforePolicyGate, BeforeArtifacts, BeforeEntrypoint, BeforeCore
<1>2. PolicyChecksSound'
  BY DEF PolicyChecksSound, Pending, Checks, TestChecks, PolicyChecks, RuntimeChecks
<1>3. CommandChecksSound'
  <2>1. args'.targets \in Nat /\ Len(targetResults') = 0
    BY GateAssumption DEF TypeOK, Args
  <2>2. QED
    BY <2>1 DEF CommandChecksSound, Pending, Checks, TestChecks, PolicyChecks, RuntimeChecks
<1>4. DecisionSound' /\ ReportsSound'
  BY DEF DecisionSound, ReportsSound
<1>5. QED
  BY <1>1, <1>2, <1>3, <1>4 DEF GateInv

\* An empty output directory.
LEMMA IterationStarts ==
    ASSUME IterationInit
    PROVE  IterationInv
<1>1. review \in Reviews
  <2>1. NoPolicy \in PolicyResult
    BY DEF NoPolicy, PolicyResult
  <2>2. review \in CriticReviews(<<>>, [parse_errors |-> FALSE, has_tests |-> TRUE],
                                 NoPolicy, LlmReviews)
    BY DEF IterationInit, CriticReviews
  <2>3. QED
    BY <2>1, <2>2, ReviewType, IterationAssumption
<1>2. TypeOK
  <2>1. /\ args \in Args
    BY GateAssumption DEF IterationInit, Args
  <2>2. policy \in PolicyResult /\ checks \in [Checks -> Statuses \cup {"pending"}]
    BY DEF IterationInit, NoPolicy, PolicyResult, Pending
  <2>3. targetResults \in Seq({-1, 0, 1})
    BY DEF IterationInit
  <2>4. agentReport \in Report /\ humanReport \in Report
    BY DEF IterationInit, NoReport, Report
  <2>5. QED
    BY <1>1, <2>1, <2>2, <2>3, <2>4, IterationAssumption DEF IterationInit, TypeOK, PcValues
<1>3. StampsSound
  BY <1>2 DEF IterationInit, StampsSound, NoReport, NoPolicy
<1>4. StageSound
  <2>1. ~ withGates
    BY Zenon DEF IterationInit
  <2>2. QED
    BY <2>1, OutputsAreRequired DEF IterationInit, StageSound
<1>5. CriticSound
  BY DEF IterationInit, CriticSound, NoPolicy
<1>6. GatesSeeOwnOutputs /\ ExitCodeMatchesReports /\ NewestReportsBelongTogether
  BY DEF IterationInit, GatesSeeOwnOutputs, ExitCodeMatchesReports,
     NewestReportsBelongTogether, NoReport, Decisions
<1>7. QED
  BY <1>2, <1>3, <1>4, <1>5, <1>6 DEF IterationInv, IterationInit

\* A call that has not reached the gates has no reports.
LEMMA NothingReportedYet ==
    ASSUME IterationInv, clock > 0, pc = "load"
    PROVE  agentReport.at < clock /\ humanReport.at < clock
<1>1. agentReport.at # clock /\ humanReport.at # clock
  BY DEF IterationInv, GateInv, ReportsSound, BeforeHumanReport,
     BeforeAgentReport, BeforeDecide, BeforeCore, BeforeEntrypoint, BeforeArtifacts,
     BeforePolicyGate, BeforeTarget, BeforeGolden, BeforeSystem
<1>2. /\ agentReport.at \in Nat /\ humanReport.at \in Nat /\ clock \in Nat
      /\ agentReport.at <= clock /\ humanReport.at <= clock
  BY DEF IterationInv, TypeOK, Report, StampsSound
<1>3. QED
  BY <1>1, <1>2

\* Every step keeps the types and the invariant of the gates.
LEMMA GatesKept ==
    ASSUME IterationInv, [IterationNext]_iterationVars
    PROVE  TypeOK' /\ (clock' > 0 => GateInv')
<1>1. TypeOK /\ clock \in Nat /\ (clock > 0 => GateInv)
  BY DEF IterationInv, TypeOK
<1>2. ASSUME UNCHANGED gateVars
      PROVE  TypeOK' /\ (clock' > 0 => GateInv')
  <2>1. TypeOK'
    BY <1>1, <1>2 DEF TypeOK, gateVars
  <2>2. clock' = clock
    BY <1>2 DEF gateVars
  <2>3. QED
    BY <1>1, <1>2, <2>1, <2>2, GateStep
<1>3. ASSUME StartRun
      PROVE  TypeOK' /\ GateInv'
  <2>1. TypeOK'
    <3>1. policy' \in PolicyResult /\ checks' \in [Checks -> Statuses \cup {"pending"}]
      BY <1>3 DEF StartRun, NoPolicy, PolicyResult, Pending
    <3>2. targetResults' \in Seq({-1, 0, 1})
      BY <1>3 DEF StartRun
    <3>3. clock' \in Nat
      BY <1>1, <1>3 DEF StartRun
    <3>4. QED
      BY <1>1, <1>3, <3>1, <3>2, <3>3 DEF StartRun, TypeOK, PcValues, reportVars
  <2>2. agentReport'.at # clock' /\ humanReport'.at # clock'
    <3>1. agentReport.at \in Nat /\ humanReport.at \in Nat
      BY <1>1 DEF TypeOK, Report
    <3>2. agentReport.at <= clock /\ humanReport.at <= clock
      BY DEF IterationInv, StampsSound
    <3>3. QED
      BY <1>1, <1>3, <3>1, <3>2 DEF StartRun, reportVars
  <2>3. QED
    BY <1>3, <2>1, <2>2, FreshCall DEF StartRun
<1>4. ASSUME TypeOK', stage \in {"critic", "outputs"} \/ (stage = "gates" /\ pc = "load"),
             UNCHANGED <<pc, checks, targetResults, decision, clock, reportVars>>
      PROVE  TypeOK' /\ (clock' > 0 => GateInv')
  <2>1. /\ pc = "load" /\ clock > 0
        /\ checks = Pending /\ targetResults = <<>> /\ decision = "none"
    BY <1>4 DEF IterationInv, StageSound
  <2>2. GateInv
    BY <1>1, <2>1
  <2>3. agentReport.at # clock /\ humanReport.at # clock
    BY <1>1, <2>1, NothingReportedYet
  <2>4. QED
    BY <1>4, <2>1, <2>3, FreshCall DEF reportVars
<1>5. ASSUME RunCritic
      PROVE  TypeOK' /\ (clock' > 0 => GateInv')
  <2>1. policyFile \in PolicyFiles /\ plan \in Plans
    BY <1>1 DEF TypeOK
  <2>2. criticPolicy' \in PolicyResult
    BY <1>5, <2>1, EvaluatePlanType DEF RunCritic
  <2>3. review' \in Reviews
    BY <1>5, <2>2, ReviewType, IterationAssumption DEF RunCritic
  <2>4. TypeOK'
    BY <1>1, <1>5, <2>3 DEF RunCritic, TypeOK, reportVars
  <2>5. QED
    BY <1>4, <1>5, <2>4 DEF RunCritic, reportVars
<1>6. ASSUME WriteOutput \/ OutputsDie
      PROVE  TypeOK' /\ (clock' > 0 => GateInv')
  <2>1. written \in 0..Last
    BY DEF IterationInv, StageSound
  <2>2. disk' \in [RequiredOutputs -> Nat]
    BY <1>1, <1>6, <2>1, OutputsAreRequired DEF WriteOutput, OutputsDie, TypeOK, Last
  <2>3. TypeOK'
    BY <1>1, <1>6, <2>2 DEF WriteOutput, OutputsDie, TypeOK, inputVars, reportVars
  <2>4. QED
    BY <1>4, <1>6, <2>3 DEF WriteOutput, OutputsDie, inputVars
<1>7. ASSUME EditPolicy
      PROVE  TypeOK' /\ (clock' > 0 => GateInv')
  <2>1. TypeOK'
    BY <1>1, <1>7 DEF EditPolicy, TypeOK, reportVars
  <2>2. QED
    BY <1>4, <1>7, <2>1 DEF EditPolicy
<1>8. ASSUME RunGates
      PROVE  TypeOK' /\ (clock' > 0 => GateInv')
  <2>1. clock > 0
    BY <1>8 DEF RunGates, IterationInv, StageSound
  <2>2. GateInv'
    BY <1>1, <1>8, <2>1, GateStep DEF RunGates
  <2>3. QED
    BY <2>2 DEF GateInv
<1>9. AnalysisDies \/ ReturnWithoutGates \/ EnterGates \/ ReturnDecision \/ GatesDie
        \/ BeforeAnalysis \/ UNCHANGED iterationVars => UNCHANGED gateVars
  BY DEF AnalysisDies, ReturnWithoutGates, EnterGates, ReturnDecision, GatesDie,
         BeforeAnalysis, ParserExits, CheckLlmConfig, RefuseRepo, BeginAnalysis,
         beforeAnalysis, iterationVars
<1>10. QED
  BY <1>2, <1>3, <1>5, <1>6, <1>7, <1>8, <1>9 DEF IterationNext, RunStep, BeforeAnalysis

\* What a step of the gates does to the files they find and write.
LEMMA GateStepFacts ==
    ASSUME TypeOK, Next
    PROVE  /\ UNCHANGED inputVars
           /\ \A o \in RequiredOutputs : disk'[o] \in {0, disk[o]}
           /\ pc' # "load"
           /\ pc' = "system" => pc = "load" /\ disk' = disk
           /\ agentReport' = agentReport \/ (pc = "agent_report" /\ agentReport'.at = clock)
           /\ humanReport' = humanReport \/ (pc = "human_report" /\ humanReport'.at = clock)
           /\ pc' = "done" => humanReport' = [decision |-> decision', at |-> clock']
<1> USE DEF inputVars, reportVars
<1>1. disk \in [RequiredOutputs -> Nat]
  BY DEF TypeOK
<1>2. CommandEffects => \A o \in RequiredOutputs : disk'[o] \in {0, disk[o]}
  BY <1>1 DEF CommandEffects
<1>3. CASE EvaluatePolicy
  BY <1>3 DEF EvaluatePolicy
<1>4. CASE RunSystemTests \/ RunGoldenTests
  BY <1>2, <1>4 DEF RunSystemTests, RunGoldenTests, RunCommandCheck
<1>5. CASE RunTargetCommand
  BY <1>2, <1>5 DEF RunTargetCommand
<1>6. CASE FinishTargetSuite \/ RunPolicyGate \/ CheckArtifacts \/ Decide
  BY <1>6 DEF FinishTargetSuite, RunPolicyGate, CheckArtifacts, Decide
<1>7. CASE NoTargetCommands \/ NoRuntimeCommands \/ NoCoreCommand
  BY <1>7 DEF NoTargetCommands, NoRuntimeCommands, NoCoreCommand, LeaveToHuman
<1>8. CASE RunEntrypoint \/ RunCoreCommand
  BY <1>2, <1>8 DEF RunEntrypoint, RunCoreCommand, RunCommandCheck
<1>9. CASE WriteAgentReport \/ TearAgentReport
  BY <1>9 DEF WriteAgentReport, TearAgentReport
<1>10. CASE WriteHumanReport \/ TearHumanReport
  BY <1>10 DEF WriteHumanReport, TearHumanReport
<1>11. CASE Crash
  BY <1>11 DEF Crash
<1>12. QED
  BY <1>3, <1>4, <1>5, <1>6, <1>7, <1>8, <1>9, <1>10, <1>11 DEF Next, Step, Failure
-----------------------------------------------------------------------------
(* The other parts of the invariant.                                       *)

\* What passed the check for protected paths names none.
LEMMA PolicyStaysSound ==
    ASSUME GateInv, Next,
           checks["protected_path_check"] = "passed" => policy.protected_files = {},
           checks'["protected_path_check"] = "passed"
    PROVE  policy'.protected_files = {}
<1> USE DEF Checks, TestChecks, PolicyChecks, RuntimeChecks, TypeOK
<1>1. checks \in [Checks -> Statuses \cup {"pending"}]
  BY DEF GateInv
<1>2. CASE EvaluatePolicy
  <2>1. checks["protected_path_check"] = "pending"
    BY <1>2 DEF EvaluatePolicy, GateInv, ChecksInOrder, PendingExactly, BeforeSystem,
         BeforeGolden, BeforeTarget, BeforePolicyGate
  <2>2. QED
    BY <1>2, <2>1 DEF EvaluatePolicy
<1>3. CASE RunSystemTests \/ RunGoldenTests \/ RunEntrypoint \/ RunCoreCommand
  BY <1>1, <1>3 DEF RunSystemTests, RunGoldenTests, RunEntrypoint, RunCoreCommand,
     RunCommandCheck
<1>4. CASE NoTargetCommands \/ NoRuntimeCommands \/ NoCoreCommand
  BY <1>1, <1>4 DEF NoTargetCommands, NoRuntimeCommands, NoCoreCommand, LeaveToHuman
<1>5. CASE RunPolicyGate
  BY <1>1, <1>5 DEF RunPolicyGate, PassedIf
<1>6. CASE FinishTargetSuite \/ CheckArtifacts
  BY <1>1, <1>6 DEF FinishTargetSuite, CheckArtifacts
<1>7. CASE \/ RunTargetCommand \/ Decide \/ WriteAgentReport \/ WriteHumanReport
           \/ Crash \/ TearAgentReport \/ TearHumanReport
  BY <1>7 DEF RunTargetCommand, Decide, WriteAgentReport, WriteHumanReport, Crash,
     TearAgentReport, TearHumanReport
<1>8. QED
  BY <1>2, <1>3, <1>4, <1>5, <1>6, <1>7 DEF Next, Step, Failure

\* Stamps stay in the past.
LEMMA StampsStep ==
    ASSUME IterationInv, [IterationNext]_iterationVars
    PROVE  StampsSound'
<1>1. /\ TypeOK /\ clock \in Nat /\ StampsSound /\ StageSound
      /\ agentReport.at \in Nat /\ humanReport.at \in Nat
      /\ disk \in [RequiredOutputs -> Nat]
  BY DEF IterationInv, TypeOK, Report
<1>2. ASSUME UNCHANGED gateVars
      PROVE  StampsSound'
  BY <1>1, <1>2 DEF StampsSound, gateVars
<1>3. ASSUME StartRun
      PROVE  StampsSound'
  <2>1. clock <= clock'
    BY <1>1, <1>3 DEF StartRun
  <2>2. checks'["protected_path_check"] # "passed"
    BY <1>3 DEF StartRun, Pending, Checks, PolicyChecks
  <2>3. pc' # "done" /\ clock' \in Nat
    BY <1>1, <1>3 DEF StartRun
  <2>4. \A o \in RequiredOutputs : disk[o] \in Nat
    BY <1>1
  <2>5. QED
    BY <1>1, <1>3, <2>1, <2>2, <2>3, <2>4 DEF StartRun, StampsSound, reportVars
<1>4. ASSUME RunCritic \/ EditPolicy
      PROVE  StampsSound'
  BY <1>1, <1>4 DEF RunCritic, EditPolicy, StampsSound, reportVars
<1>5. ASSUME WriteOutput \/ OutputsDie
      PROVE  StampsSound'
  <2>1. \A o \in RequiredOutputs : disk'[o] \in {clock, disk[o]}
    BY <1>1, <1>5 DEF WriteOutput, OutputsDie
  <2>2. \A o \in RequiredOutputs : disk'[o] <= clock
    BY <1>1, <2>1 DEF StampsSound
  <2>3. pc' # "done"
    BY <1>1, <1>5 DEF WriteOutput, OutputsDie, StageSound
  <2>4. QED
    BY <1>1, <1>5, <2>2, <2>3 DEF WriteOutput, OutputsDie, StampsSound, inputVars, reportVars
<1>6. ASSUME RunGates
      PROVE  StampsSound'
  <2>1. Next /\ clock > 0
    BY <1>1, <1>6 DEF RunGates, StageSound
  <2>2. clock' = clock
    BY <1>1, <2>1, GateStepFacts DEF inputVars
  <2>3. agentReport'.at <= clock' /\ humanReport'.at <= clock'
    BY <1>1, <2>1, <2>2, GateStepFacts DEF StampsSound
  <2>4. \A o \in RequiredOutputs : disk'[o] <= clock'
    <3>1. \A o \in RequiredOutputs : disk'[o] \in {0, disk[o]}
      BY <1>1, <2>1, GateStepFacts
    <3>2. \A o \in RequiredOutputs : disk[o] <= clock
      BY <1>1 DEF StampsSound
    <3>3. QED
      BY <1>1, <2>2, <3>1, <3>2
  <2>5. pc' = "done" => humanReport' = [decision |-> decision', at |-> clock']
    BY <1>1, <2>1, GateStepFacts
  <2>6. checks'["protected_path_check"] = "passed" => policy'.protected_files = {}
    BY <1>1, <2>1, PolicyStaysSound DEF IterationInv, StampsSound
  <2>7. humanReport'.at = 0 => humanReport' = NoReport
    BY <1>1, <2>1, GateStepFacts DEF StampsSound
  <2>8. QED
    BY <2>3, <2>4, <2>5, <2>6, <2>7 DEF StampsSound
<1>7. AnalysisDies \/ ReturnWithoutGates \/ EnterGates \/ ReturnDecision \/ GatesDie
        \/ BeforeAnalysis \/ UNCHANGED iterationVars => UNCHANGED gateVars
  BY DEF AnalysisDies, ReturnWithoutGates, EnterGates, ReturnDecision, GatesDie,
         BeforeAnalysis, ParserExits, CheckLlmConfig, RefuseRepo, BeginAnalysis,
         beforeAnalysis, iterationVars
<1>8. QED
  BY <1>2, <1>3, <1>4, <1>5, <1>6, <1>7 DEF IterationNext, RunStep, BeforeAnalysis

\* main goes through its stages.
LEMMA StageStep ==
    ASSUME IterationInv, [IterationNext]_iterationVars
    PROVE  StageSound'
<1> USE DEF StageSound
<1>1. /\ TypeOK /\ clock \in Nat /\ StageSound /\ Last = 5 /\ written \in 0..5
      /\ disk \in [RequiredOutputs -> Nat]
      /\ \A i \in 1..5 : OutputOrder[i] \in RequiredOutputs
      /\ \A i, j \in 1..5 : OutputOrder[i] = OutputOrder[j] => i = j
  BY OutputsAreRequired DEF IterationInv, TypeOK, OutputOrder
<1>2. ASSUME StartRun
      PROVE  StageSound'
  BY <1>1, <1>2 DEF StartRun
<1>3. ASSUME BeforeAnalysis \/ AnalysisDies \/ ReturnWithoutGates
      PROVE  StageSound'
  BY <1>1, <1>3 DEF BeforeAnalysis, ParserExits, CheckLlmConfig, RefuseRepo, BeginAnalysis,
     beforeAnalysis, AnalysisDies, ReturnWithoutGates, Dies, gateVars
<1>4. ASSUME RunCritic
      PROVE  StageSound'
  BY <1>1, <1>4 DEF RunCritic, reportVars
<1>5. ASSUME WriteOutput
      PROVE  StageSound'
  <2>1. /\ stage = "outputs" /\ stage' = stage /\ written < 5 /\ written' = written + 1
        /\ disk' = [disk EXCEPT ![OutputOrder[written']] = clock]
        /\ torn' = torn \ {OutputOrder[written']}
        /\ clock' = clock /\ clock > 0 /\ withGates' = withGates
        /\ agentReport' = agentReport /\ pc' = pc
        /\ UNCHANGED <<checks, targetResults, decision>>
    BY <1>1, <1>5 DEF WriteOutput, inputVars, reportVars, Last
  <2>2. written' \in 1..5 /\ OutputOrder[written'] \in RequiredOutputs
    BY <1>1, <2>1
  <2>3. \A i \in 1..written' : disk'[OutputOrder[i]] = clock' /\ OutputOrder[i] \notin torn'
    <3>1. SUFFICES ASSUME NEW i \in 1..written'
                   PROVE  disk'[OutputOrder[i]] = clock /\ OutputOrder[i] \notin torn'
      BY <2>1
    <3>2. CASE i = written'
      BY <1>1, <2>1, <2>2, <3>2
    <3>3. CASE i # written'
      <4>1. i \in 1..written /\ i \in 1..5 /\ OutputOrder[i] \in RequiredOutputs
        BY <1>1, <2>1, <3>3
      <4>2. disk[OutputOrder[i]] = clock /\ OutputOrder[i] \notin torn
        BY <1>1, <2>1, <4>1
      <4>3. QED
        BY <1>1, <2>1, <4>1, <4>2
    <3>4. QED
      BY <3>2, <3>3
  <2>4. QED
    BY <1>1, <2>1, <2>2, <2>3
<1>6. ASSUME OutputsDie
      PROVE  StageSound'
  BY <1>1, <1>6 DEF OutputsDie, Dies, inputVars, Last
<1>7. ASSUME EnterGates \/ ReturnDecision \/ GatesDie
      PROVE  StageSound'
  BY <1>1, <1>7 DEF EnterGates, ReturnDecision, GatesDie, Dies, gateVars, Last
<1>8. ASSUME RunGates
      PROVE  StageSound'
  BY <1>1, <1>8, GateStepFacts DEF RunGates, mainVars, inputVars
<1>9. ASSUME EditPolicy \/ UNCHANGED iterationVars
      PROVE  StageSound'
  BY <1>1, <1>9 DEF EditPolicy, mainVars, iterationVars, gateVars, reportVars
<1>10. QED
  BY <1>2, <1>3, <1>4, <1>5, <1>6, <1>7, <1>8, <1>9 DEF IterationNext, RunStep, BeforeAnalysis

\* A blocked plan stays blocked until the next review.
LEMMA CriticStep ==
    ASSUME IterationInv, [IterationNext]_iterationVars
    PROVE  CriticSound'
<1>1. TypeOK /\ CriticSound
  BY DEF IterationInv
<1>2. ASSUME RunCritic
      PROVE  CriticSound'
  <2>1. criticPolicy' \in PolicyResult
    BY <1>1, <1>2, EvaluatePlanType DEF RunCritic, TypeOK
  <2>2. QED
    BY <1>2, <2>1, ReviewType DEF RunCritic, CriticSound
<1>3. ASSUME StartRun
      PROVE  CriticSound'
  BY <1>3 DEF StartRun, CriticSound, NoPolicy
<1>4. ASSUME RunGates
      PROVE  CriticSound'
  BY <1>1, <1>4, GateStepFacts DEF RunGates, CriticSound, mainVars, inputVars
<1>5. ASSUME \/ BeforeAnalysis \/ EditPolicy \/ AnalysisDies \/ WriteOutput \/ OutputsDie
             \/ ReturnWithoutGates \/ EnterGates \/ ReturnDecision \/ GatesDie
             \/ UNCHANGED iterationVars
      PROVE  CriticSound'
  <2>1. criticPolicy' = criticPolicy /\ review' = review
    BY <1>5 DEF BeforeAnalysis, ParserExits, CheckLlmConfig, RefuseRepo, BeginAnalysis,
       beforeAnalysis, EditPolicy, AnalysisDies, WriteOutput, OutputsDie,
       ReturnWithoutGates, EnterGates, ReturnDecision, GatesDie, iterationVars,
       gateVars, mainVars, inputVars
  <2>2. QED
    BY <1>1, <2>1 DEF CriticSound
<1>6. QED
  BY <1>2, <1>3, <1>4, <1>5 DEF IterationNext, RunStep, BeforeAnalysis

\* The gates only see what their own run has written.
LEMMA OwnOutputsStep ==
    ASSUME IterationInv, [IterationNext]_iterationVars
    PROVE  GatesSeeOwnOutputs'
<1> USE DEF GatesSeeOwnOutputs
<1>1. /\ TypeOK /\ StageSound /\ GatesSeeOwnOutputs /\ written \in 0..Last
      /\ torn \subseteq RequiredOutputs
  BY DEF IterationInv, StageSound
<1>2. ASSUME EnterGates
      PROVE  GatesSeeOwnOutputs'
  <2>1. /\ stage = "outputs" /\ written = Last /\ UNCHANGED <<torn, disk, clock>>
    BY <1>2 DEF EnterGates, gateVars, Last
  <2>2. \A i \in 1..Last : disk[OutputOrder[i]] = clock /\ OutputOrder[i] \notin torn
    BY <1>1, <2>1 DEF StageSound
  <2>3. \A o \in RequiredOutputs : disk[o] = clock /\ o \notin torn
    BY <2>2, OutputsAreRequired
  <2>4. QED
    BY <1>1, <2>1, <2>3
<1>3. ASSUME RunGates
      PROVE  GatesSeeOwnOutputs'
  <2>1. stage = "gates" /\ Next /\ torn' = torn
    BY <1>3 DEF RunGates, mainVars
  <2>2. clock' = clock
    BY <1>1, <2>1, GateStepFacts DEF inputVars
  <2>3. \A o \in RequiredOutputs : disk'[o] \in {0, disk[o]} /\ disk[o] \in {0, clock}
    BY <1>1, <2>1, GateStepFacts
  <2>4. pc' \in {"load", "system"} => pc = "load" /\ disk' = disk
    BY <1>1, <2>1, GateStepFacts
  <2>5. QED
    BY <1>1, <2>1, <2>2, <2>3, <2>4
<1>4. ASSUME EditPolicy \/ UNCHANGED iterationVars
      PROVE  GatesSeeOwnOutputs'
  BY <1>1, <1>4 DEF EditPolicy, mainVars, iterationVars, gateVars
<1>5. ASSUME \/ StartRun \/ BeforeAnalysis \/ RunCritic \/ AnalysisDies \/ WriteOutput
             \/ OutputsDie \/ ReturnWithoutGates \/ ReturnDecision \/ GatesDie
      PROVE  GatesSeeOwnOutputs'
  <2>1. stage' # "gates"
    BY <1>5 DEF StartRun, BeforeAnalysis, ParserExits, CheckLlmConfig, RefuseRepo,
       BeginAnalysis, RunCritic, AnalysisDies, WriteOutput, OutputsDie,
       ReturnWithoutGates, ReturnDecision, GatesDie, Dies
  <2>2. QED
    BY <2>1
<1>6. QED
  BY <1>2, <1>3, <1>4, <1>5 DEF IterationNext, RunStep, BeforeAnalysis

\* The exit code tells what the reports say.
LEMMA ExitStep ==
    ASSUME IterationInv, [IterationNext]_iterationVars
    PROVE  ExitCodeMatchesReports'
<1> USE DEF ExitCodeMatchesReports
<1>1. /\ StageSound /\ StampsSound /\ ExitCodeMatchesReports /\ (clock > 0 => GateInv)
  BY DEF IterationInv
<1>2. ASSUME ReturnDecision
      PROVE  ExitCodeMatchesReports'
  <2>1. /\ stage = "gates" /\ pc = "done" /\ exitCode' = ExitCodeOf(decision)
        /\ UNCHANGED <<agentReport, humanReport, clock>>
    BY <1>2 DEF ReturnDecision, gateVars
  <2>2. GateInv
    BY <1>1, <2>1 DEF StageSound
  <2>3. /\ agentReport = [decision |-> decision, at |-> clock]
        /\ humanReport = [decision |-> decision, at |-> clock]
    BY <1>1, <2>1, <2>2 DEF GateInv, ReportsSound, StampsSound
  <2>4. /\ exitCode' = "0" => decision = "allow_next_iteration"
        /\ exitCode' = "2" => decision = "hold_for_review"
    BY <2>1, Zenon DEF ExitCodeOf
  <2>5. QED
    BY <1>2, <2>1, <2>3, <2>4 DEF ReturnDecision
<1>3. ASSUME AnalysisDies \/ OutputsDie \/ GatesDie
      PROVE  ExitCodeMatchesReports'
  <2>1. exitCode' \notin {"0", "2"} /\ stage' = "exited"
    BY <1>3 DEF AnalysisDies, OutputsDie, GatesDie, Dies
  <2>2. QED
    BY <2>1
<1>4. ASSUME ReturnWithoutGates
      PROVE  ExitCodeMatchesReports'
  <2>1. ~ withGates' /\ stage' = "exited"
    BY <1>4 DEF ReturnWithoutGates
  <2>2. QED
    BY <2>1
<1>5. ASSUME \/ StartRun \/ BeginAnalysis \/ RunCritic \/ WriteOutput \/ EnterGates
             \/ RunGates \/ EditPolicy
      PROVE  ExitCodeMatchesReports'
  <2>1. stage' \notin {"exited", "turned_away"}
    BY <1>5 DEF StartRun, BeginAnalysis, RunCritic, WriteOutput, EnterGates, RunGates, EditPolicy, mainVars
  <2>2. QED
    BY <2>1
<1>6. ASSUME UNCHANGED iterationVars
      PROVE  ExitCodeMatchesReports'
  BY <1>1, <1>6 DEF iterationVars, gateVars, mainVars
<1>7. ASSUME ParserExits \/ CheckLlmConfig \/ RefuseRepo
      PROVE  ExitCodeMatchesReports'
  <2>1. /\ stage = "arguments" /\ stage' = "turned_away"
        /\ UNCHANGED <<agentReport, humanReport, clock>>
    BY <1>7 DEF ParserExits, CheckLlmConfig, RefuseRepo, beforeAnalysis, gateVars
  <2>2. agentReport.at < clock /\ humanReport.at < clock
    BY <1>1, <2>1, NothingReportedYet DEF StageSound
  <2>3. QED
    BY <2>1, <2>2
<1>8. QED
  BY <1>2, <1>3, <1>4, <1>5, <1>6, <1>7 DEF IterationNext, RunStep

\* A report for humans that is as new as the newest output is one of the run
\* that wrote the outputs.
LEMMA NewestStep ==
    ASSUME IterationInv, [IterationNext]_iterationVars
    PROVE  NewestReportsBelongTogether'
<1>1. /\ TypeOK /\ StageSound /\ NewestReportsBelongTogether /\ clock \in Nat
      /\ disk \in [RequiredOutputs -> Nat] /\ humanReport.at \in Nat
      /\ humanReport.at = 0 => humanReport = NoReport
  BY DEF StampsSound, IterationInv, TypeOK, Report
<1>2. ASSUME UNCHANGED <<agentReport, humanReport, disk, torn>>
      PROVE  NewestReportsBelongTogether'
  BY <1>1, <1>2 DEF NewestReportsBelongTogether
<1>3. ASSUME WriteOutput \/ OutputsDie, ~ UNCHANGED <<disk, torn>>
      PROVE  NewestReportsBelongTogether'
  <2>1. stage = "outputs" /\ written \in 0..(Last - 1) /\ UNCHANGED reportVars
    BY <1>1, <1>3 DEF WriteOutput, OutputsDie, StageSound, Last
  <2>2. OutputOrder[written + 1] \in RequiredOutputs
    BY <2>1, OutputsAreRequired
  <2>3. disk' = [disk EXCEPT ![OutputOrder[written + 1]] = clock]
    BY <1>3, <2>1 DEF WriteOutput, OutputsDie, Last
  <2>4. disk'[OutputOrder[written + 1]] = clock
    BY <1>1, <2>2, <2>3
  <2>5. humanReport.at < clock
    BY <1>1, <2>1, NothingReportedYet DEF StageSound
  <2>6. QED
    BY <1>1, <2>1, <2>2, <2>4, <2>5 DEF reportVars, NewestReportsBelongTogether
<1>4. ASSUME RunGates
      PROVE  NewestReportsBelongTogether'
  <2>1. /\ stage = "gates" /\ Next /\ UNCHANGED torn /\ clock > 0 /\ torn = {} /\ GateInv
        /\ \A o \in RequiredOutputs : disk[o] \in {0, clock}
    BY <1>1, <1>4 DEF RunGates, mainVars, StageSound, IterationInv, GatesSeeOwnOutputs
  <2>2. \A o \in RequiredOutputs : disk'[o] \in {0, clock}
    BY <1>1, <2>1, GateStepFacts
  <2>3. CASE WriteHumanReport
    <3>1. agentReport' = [decision |-> decision, at |-> clock]
      BY <2>1, <2>3 DEF WriteHumanReport, GateInv, ReportsSound
    <3>2. humanReport' = agentReport'
      BY <2>3, <3>1 DEF WriteHumanReport
    <3>3. QED
      BY <2>1, <2>2, <3>1, <3>2 DEF NewestReportsBelongTogether
  <2>4. CASE TearHumanReport
    BY <2>4 DEF TearHumanReport, Decisions, NewestReportsBelongTogether
  <2>5. CASE ~ WriteHumanReport /\ ~ TearHumanReport
    <3>1. UNCHANGED humanReport /\ pc \notin {"done", "crashed"}
      BY <1>1, <2>1, <2>5 DEF Next, Step, Failure, EvaluatePolicy, RunSystemTests,
         RunGoldenTests, RunTargetCommand, FinishTargetSuite, NoTargetCommands, RunPolicyGate,
         CheckArtifacts, RunEntrypoint, NoRuntimeCommands, RunCoreCommand, NoCoreCommand,
         Decide, WriteAgentReport, Crash, TearAgentReport, reportVars
    <3>2. humanReport.at # clock
      BY <2>1, <3>1 DEF GateInv, TypeOK, PcValues, ReportsSound, BeforeHumanReport,
         BeforeAgentReport, BeforeDecide, BeforeCore, BeforeEntrypoint, BeforeArtifacts,
         BeforePolicyGate, BeforeTarget, BeforeGolden, BeforeSystem
    <3>3. CASE humanReport.at = 0
      <4>1. humanReport.decision \notin Decisions
        BY <1>1, <3>3 DEF NoReport, Decisions
      <4>2. QED
        BY <3>1, <4>1 DEF NewestReportsBelongTogether
    <3>4. CASE humanReport.at # 0
      BY <2>2, <3>1, <3>2, <3>4 DEF NewestReportsBelongTogether
    <3>5. QED
      BY <3>3, <3>4
  <2>6. QED
    BY <2>3, <2>4, <2>5
<1>5. ASSUME WriteOutput \/ OutputsDie
      PROVE  NewestReportsBelongTogether'
  <2>1. CASE UNCHANGED <<disk, torn>>
    BY <1>2, <1>5, <2>1 DEF WriteOutput, OutputsDie, reportVars
  <2>2. CASE ~ UNCHANGED <<disk, torn>>
    BY <1>3, <1>5, <2>2
  <2>3. QED
    BY <2>1, <2>2
<1>6. ASSUME \/ StartRun \/ BeforeAnalysis \/ EditPolicy \/ RunCritic \/ AnalysisDies
             \/ ReturnWithoutGates \/ EnterGates \/ ReturnDecision \/ GatesDie
             \/ UNCHANGED iterationVars
      PROVE  NewestReportsBelongTogether'
  <2>1. UNCHANGED <<agentReport, humanReport, disk, torn>>
    BY <1>6 DEF StartRun, BeforeAnalysis, ParserExits, CheckLlmConfig, RefuseRepo,
       BeginAnalysis, beforeAnalysis, EditPolicy, RunCritic, AnalysisDies,
       ReturnWithoutGates, EnterGates, ReturnDecision, GatesDie, iterationVars,
       gateVars, mainVars, reportVars
  <2>2. QED
    BY <1>2, <2>1
<1>7. QED
  BY <1>4, <1>5, <1>6 DEF IterationNext, RunStep, BeforeAnalysis

\* The invariant holds in every reachable state.
LEMMA IterationInvariant == IterationSpec => []IterationInv
<1>1. IterationInit => IterationInv
  BY IterationStarts
<1>2. IterationInv /\ [IterationNext]_iterationVars => IterationInv'
  BY GatesKept, StampsStep, StageStep, CriticStep, OwnOutputsStep, ExitStep,
     NewestStep DEF IterationInv
<1>3. QED
  BY <1>1, <1>2, PTL DEF IterationSpec
-----------------------------------------------------------------------------
(* The theorems.                                                           *)

\* No run's gates ever judge an output of an earlier run or a torn one.
THEOREM GatesAlwaysSeeOwnOutputs == IterationSpec => []GatesSeeOwnOutputs
<1>1. IterationInv => GatesSeeOwnOutputs
  BY DEF IterationInv
<1>2. QED
  BY <1>1, IterationInvariant, PTL

\* A plan in which the critic or the gates saw a protected file is never
\* allowed.
THEOREM ProtectedIsNeverAllowed == IterationSpec => []ProtectedNeverAllowed
<1>1. ASSUME IterationInv, Allows(agentReport)
      PROVE  criticPolicy.protected_files = {} /\ policy.protected_files = {}
  <2>1. clock > 0
    <3>1. clock \in Nat /\ (clock = 0 => agentReport = NoReport)
      BY <1>1 DEF IterationInv, TypeOK, StageSound
    <3>2. agentReport # NoReport
      BY <1>1 DEF Allows, NoReport
    <3>3. QED
      BY <3>1, <3>2
  <2>2. GateInv
    BY <1>1, <2>1 DEF IterationInv
  <2>3. /\ decision = "allow_next_iteration" /\ DecideIteration(checks, review.status) = decision
        /\ \A c \in Checks : checks[c] # "pending"
    BY <1>1, <2>2 DEF GateInv, ReportsSound, DecisionSound, Allows
  <2>4. checks \in [Checks -> Statuses]
    BY <2>2, <2>3 DEF GateInv, TypeOK
  <2>5. review.status \in CriticStatuses
    BY <2>2, GateAssumption DEF GateInv, TypeOK, CriticReview
  <2>6. checks["protected_path_check"] = "passed" /\ review.status = "approved"
    BY <2>3, <2>4, <2>5, AllowNeedsEverything DEF Checks, PolicyChecks
  <2>7. QED
    BY <1>1, <2>6 DEF IterationInv, CriticSound, StampsSound
<1>2. IterationInv => ProtectedNeverAllowed
  BY <1>1 DEF ProtectedNeverAllowed
<1>3. QED
  BY <1>2, IterationInvariant, PTL

\* Exit codes 0 and 2 of an analysis with gates are what both its reports say,
\* and a call that ends before the analysis has no reports.
THEOREM ExitCodeAlwaysMatchesReports == IterationSpec => []ExitCodeMatchesReports
<1>1. IterationInv => ExitCodeMatchesReports
  BY DEF IterationInv
<1>2. QED
  BY <1>1, IterationInvariant, PTL

\* Reports as new as the newest output belong to the run that wrote the outputs.
THEOREM NewestReportsAlwaysBelongTogether == IterationSpec => []NewestReportsBelongTogether
<1>1. IterationInv => NewestReportsBelongTogether
  BY DEF IterationInv
<1>2. QED
  BY <1>1, IterationInvariant, PTL
=============================================================================
