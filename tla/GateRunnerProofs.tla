-------------------------- MODULE GateRunnerProofs --------------------------
(***************************************************************************)
(* Proofs about run_iteration_gates, for any set of files, any policy      *)
(* file, any plan, any number of commands and any state that earlier runs  *)
(* left on disk.                                                           *)
(***************************************************************************)
EXTENDS GateRefinement, TLAPS

\* Evaluating a plan yields a policy result, whatever the policy file holds.
LEMMA EvaluatePlanType ==
    ASSUME NEW steps \in Plans, NEW file \in PolicyFiles
    PROVE  EvaluatePlan(steps, file) \in PolicyResult
<1>1. steps \in Seq(PlanStep)
  BY GateAssumption
<1>2. \A i \in DOMAIN steps : steps[i].step_id \in Nat
  <2>1. \A i \in DOMAIN steps : steps[i] \in PlanStep
    BY <1>1
  <2>2. QED
    BY <2>1 DEF PlanStep
<1>3. QED
  BY <1>2 DEF EvaluatePlan, PolicyResult

\* The decision is always one of the three documented ones.
LEMMA DecideIterationType ==
    ASSUME NEW cs, NEW status
    PROVE  DecideIteration(cs, status) \in Decisions
BY DEF DecideIteration, Decisions

\* A gate whose checks were all run passes only if each of them passed.
LEMMA FinalizeGatePassed ==
    ASSUME NEW cs, NEW group, cs \in [Checks -> Statuses],
           group \subseteq Checks, FinalizeGate(cs, group) = "passed"
    PROVE  \A c \in group : cs[c] = "passed"
BY DEF FinalizeGate, Statuses

\* A failed check, or a critic that blocks, fails its gate.
LEMMA FailedCheckBlocks ==
    ASSUME NEW cs, NEW status,
           \/ \E c \in Checks : cs[c] = "failed"
           \/ status = "blocked"
    PROVE  DecideIteration(cs, status) = "blocked"
<1>1. CASE status = "blocked"
  <2>1. GateStatus("policy_gate", cs, status) = "failed"
    BY <1>1 DEF GateStatus, PolicyGateStatus
  <2>2. QED
    BY <2>1 DEF DecideIteration, Gates
<1>2. CASE \E c \in Checks : cs[c] = "failed"
  <2>1. PICK c \in Checks : cs[c] = "failed"
    BY <1>2
  <2>2. CASE c \in TestChecks
    BY <2>1, <2>2 DEF DecideIteration, GateStatus, FinalizeGate, Gates, ChecksOf
  <2>3. CASE c \in PolicyChecks
    <3>1. FinalizeGate(cs, PolicyChecks) = "failed"
      BY <2>1, <2>3 DEF FinalizeGate
    <3>2. PolicyGateStatus(cs, status) = "failed"
      BY <3>1 DEF PolicyGateStatus
    <3>3. QED
      BY <3>2 DEF DecideIteration, GateStatus, Gates
  <2>4. CASE c \in RuntimeChecks
    BY <2>1, <2>4 DEF DecideIteration, GateStatus, FinalizeGate, Gates, ChecksOf
  <2>5. QED
    BY <2>2, <2>3, <2>4 DEF Checks
<1>3. QED
  BY <1>1, <1>2

\* The decision is "allow" only if all nine checks passed and the critic
\* neither blocks nor asks for a review.
LEMMA AllowNeedsEverything ==
    ASSUME NEW cs \in [Checks -> Statuses], NEW status \in CriticStatuses,
           DecideIteration(cs, status) = "allow_next_iteration"
    PROVE  /\ \A c \in Checks : cs[c] = "passed"
           /\ status = "approved"
<1>1. \A g \in Gates : GateStatus(g, cs, status) = "passed"
  BY DEF DecideIteration
<1>2. FinalizeGate(cs, TestChecks) = "passed"
  BY <1>1 DEF GateStatus, Gates, ChecksOf
<1>3. FinalizeGate(cs, RuntimeChecks) = "passed"
  BY <1>1 DEF GateStatus, Gates, ChecksOf
<1>4. PolicyGateStatus(cs, status) = "passed"
  BY <1>1 DEF GateStatus, Gates
<1>5. status = "approved" /\ FinalizeGate(cs, PolicyChecks) = "passed"
  BY <1>4 DEF PolicyGateStatus, CriticStatuses
<1>6. QED
  BY <1>2, <1>3, <1>5, FinalizeGatePassed DEF Checks
-----------------------------------------------------------------------------
(* The inductive invariant, one conjunct at a time.                        *)

\* The initial states satisfy the invariant, whatever earlier runs left.
LEMMA GateInvInit == Init => GateInv
<1>. USE GateAssumption
<1>1. Init => TypeOK
  <2>. SUFFICES ASSUME Init
                PROVE  TypeOK
    OBVIOUS
  <2>1. agentReport \in Report /\ humanReport \in Report
    <3>1. \A r \in [decision : StaleDecisions, at : {0}] : r \in Report
      <4>1. StaleDecisions \subseteq Decisions \cup {"absent", "torn"}
        BY DEF Decisions
      <4>2. {0} \subseteq Nat
        OBVIOUS
      <4>3. QED
        BY ONLY <4>1, <4>2 DEF Report
    <3>2. NoReport \in Report
      BY DEF NoReport, Report
    <3>3. QED
      BY <3>1, <3>2 DEF Init
  <2>2. disk \in [RequiredOutputs -> Nat]
    BY DEF Init
  <2>3. policy \in PolicyResult /\ checks \in [Checks -> Statuses \cup {"pending"}]
    BY DEF Init, NoPolicy, PolicyResult, Pending
  <2>4. targetResults \in Seq({-1, 0, 1})
    <3>1. <<>> \in Seq({-1, 0, 1})
      OBVIOUS
    <3>2. QED
      BY <3>1 DEF Init
  <2>5. QED
    BY <2>1, <2>2, <2>3, <2>4 DEF Init, TypeOK, PcValues
<1>2. Init => ChecksInOrder
  BY DEF Init, ChecksInOrder, PendingExactly, Pending, Checks, TestChecks,
         PolicyChecks, RuntimeChecks, BeforeSystem, BeforeGolden, BeforeTarget,
         BeforePolicyGate, BeforeArtifacts, BeforeEntrypoint, BeforeCore
<1>3. Init => PolicyChecksSound /\ CommandChecksSound
  BY DEF Init, PolicyChecksSound, CommandChecksSound, Pending, Checks,
         TestChecks, PolicyChecks, RuntimeChecks, Args
<1>4. Init => DecisionSound
  BY DEF Init, DecisionSound
<1>5. Init => ReportsSound
  <2>. SUFFICES ASSUME Init
                PROVE  ReportsSound
    OBVIOUS
  <2>1. agentReport.at = 0 /\ humanReport.at = 0
    BY DEF Init, NoReport
  <2>2. QED
    BY <2>1 DEF Init, ReportsSound
<1>6. QED
  BY <1>1, <1>2, <1>3, <1>4, <1>5 DEF GateInv

\* Every step keeps the types.
LEMMA TypeOKStep == GateInv /\ [Next]_gateVars => TypeOK'
<1>. USE GateAssumption
<1>. SUFFICES ASSUME TypeOK, DecisionSound, [Next]_gateVars
              PROVE  TypeOK'
  BY DEF GateInv
<1>. USE DEF TypeOK, inputVars, reportVars
<1>0. CommandEffects => disk' \in [RequiredOutputs -> Nat]
  BY DEF CommandEffects
<1>a. ASSUME NEW check \in Checks, NEW next \in PcValues,
             RunCommandCheck(check, next)
      PROVE  /\ checks' \in [Checks -> Statuses \cup {"pending"}]
             /\ disk' \in [RequiredOutputs -> Nat]
             /\ pc' \in PcValues
  BY <1>0, <1>a DEF RunCommandCheck, PassedIf, Statuses
<1>b. ASSUME NEW open, NEW next \in PcValues, LeaveToHuman(open, next)
      PROVE  /\ checks' \in [Checks -> Statuses \cup {"pending"}]
             /\ disk' \in [RequiredOutputs -> Nat]
             /\ pc' \in PcValues
  BY <1>b DEF LeaveToHuman, Statuses
<1>1. CASE EvaluatePolicy
  BY <1>1, EvaluatePlanType DEF EvaluatePolicy, PcValues
<1>2. CASE RunSystemTests
  BY <1>2, <1>a DEF RunSystemTests, PcValues, Checks, TestChecks
<1>3. CASE RunGoldenTests
  BY <1>3, <1>a DEF RunGoldenTests, PcValues, Checks, TestChecks
<1>4. CASE RunTargetCommand
  <2>1. \A o \in CommandOutcomes : Returncode(o) \in {-1, 0, 1}
    BY DEF CommandOutcomes, Returncode
  <2>2. targetResults' \in Seq({-1, 0, 1})
    BY <1>4, <2>1 DEF RunTargetCommand
  <2>3. QED
    BY <1>4, <2>2, <1>0 DEF RunTargetCommand
<1>5. CASE FinishTargetSuite
  BY <1>5 DEF FinishTargetSuite, PassedIf, Statuses, PcValues
<1>6. CASE NoTargetCommands
  BY <1>6, <1>b DEF NoTargetCommands, PcValues
<1>7. CASE RunPolicyGate
  BY <1>7 DEF RunPolicyGate, PassedIf, Statuses, PcValues
<1>8. CASE CheckArtifacts
  BY <1>8 DEF CheckArtifacts, PassedIf, Statuses, PcValues
<1>9. CASE RunEntrypoint
  BY <1>9, <1>a DEF RunEntrypoint, PcValues, Checks, RuntimeChecks
<1>10. CASE NoRuntimeCommands
  BY <1>10, <1>b DEF NoRuntimeCommands, PcValues
<1>11. CASE RunCoreCommand
  BY <1>11, <1>a DEF RunCoreCommand, PcValues, Checks, RuntimeChecks
<1>12. CASE NoCoreCommand
  BY <1>12, <1>b DEF NoCoreCommand, PcValues
<1>13. CASE Decide
  BY <1>13, DecideIterationType DEF Decide, PcValues
<1>14. CASE WriteAgentReport \/ TearAgentReport
  <2>1. agentReport' \in Report
    BY <1>14 DEF WriteAgentReport, TearAgentReport, Report, DecisionSound
  <2>2. QED
    BY <1>14, <2>1 DEF WriteAgentReport, TearAgentReport, PcValues
<1>15. CASE WriteHumanReport \/ TearHumanReport
  <2>1. humanReport' \in Report
    BY <1>15 DEF WriteHumanReport, TearHumanReport, Report, DecisionSound
  <2>2. QED
    BY <1>15, <2>1 DEF WriteHumanReport, TearHumanReport, PcValues
<1>16. CASE Crash
  BY <1>16 DEF Crash, PcValues
<1>17. CASE UNCHANGED gateVars
  BY <1>17 DEF gateVars
<1>18. QED
  BY <1>1, <1>2, <1>3, <1>4, <1>5, <1>6, <1>7, <1>8, <1>9, <1>10, <1>11,
     <1>12, <1>13, <1>14, <1>15, <1>16, <1>17 DEF Next, Step, Failure

\* Every step leaves the checks in order: it settles those of its stage only.
LEMMA ChecksInOrderStep == GateInv /\ [Next]_gateVars => ChecksInOrder'
<1>. SUFFICES ASSUME TypeOK, ChecksInOrder,
                     [Next]_gateVars
              PROVE  ChecksInOrder'
  BY DEF GateInv
<1>. USE DEF TypeOK, inputVars, reportVars, ChecksInOrder, PendingExactly,
             Checks, TestChecks, PolicyChecks, RuntimeChecks,
             BeforeSystem, BeforeGolden, BeforeTarget,
             BeforePolicyGate, BeforeArtifacts, BeforeEntrypoint, BeforeCore
<1>1. CASE EvaluatePolicy
  BY <1>1 DEF EvaluatePolicy
<1>2. CASE RunSystemTests
  BY <1>2 DEF RunSystemTests, RunCommandCheck, PassedIf
<1>3. CASE RunGoldenTests
  BY <1>3 DEF RunGoldenTests, RunCommandCheck, PassedIf
<1>4. CASE RunTargetCommand
  BY <1>4 DEF RunTargetCommand
<1>5. CASE FinishTargetSuite
  BY <1>5 DEF FinishTargetSuite, PassedIf
<1>6. CASE NoTargetCommands
  BY <1>6 DEF NoTargetCommands, LeaveToHuman
<1>7. CASE RunPolicyGate
  BY <1>7 DEF RunPolicyGate, PassedIf
<1>8. CASE CheckArtifacts
  BY <1>8 DEF CheckArtifacts, PassedIf
<1>9. CASE RunEntrypoint
  BY <1>9 DEF RunEntrypoint, RunCommandCheck, PassedIf
<1>10. CASE NoRuntimeCommands
  BY <1>10 DEF NoRuntimeCommands, LeaveToHuman
<1>11. CASE RunCoreCommand
  BY <1>11 DEF RunCoreCommand, RunCommandCheck, PassedIf
<1>12. CASE NoCoreCommand
  BY <1>12 DEF NoCoreCommand, LeaveToHuman
<1>13. CASE Decide
  BY <1>13 DEF Decide
<1>14. CASE WriteAgentReport
  BY <1>14 DEF WriteAgentReport
<1>15. CASE WriteHumanReport
  BY <1>15 DEF WriteHumanReport
<1>16. CASE Crash
  BY <1>16 DEF Crash
<1>17. CASE TearAgentReport
  BY <1>17 DEF TearAgentReport
<1>18. CASE TearHumanReport
  BY <1>18 DEF TearHumanReport
<1>19. CASE UNCHANGED gateVars
  BY <1>19 DEF gateVars
<1>20. QED
  BY <1>1, <1>2, <1>3, <1>4, <1>5, <1>6, <1>7, <1>8, <1>9, <1>10, <1>11,
     <1>12, <1>13, <1>14, <1>15, <1>16, <1>17, <1>18, <1>19 DEF Next, Step,
     Failure

\* Every step keeps what the policy checks say true of the plan.
LEMMA PolicyChecksSoundStep == GateInv /\ [Next]_gateVars => PolicyChecksSound'
<1>. SUFFICES ASSUME TypeOK, ChecksInOrder, PolicyChecksSound,
                     [Next]_gateVars
              PROVE  PolicyChecksSound'
  BY DEF GateInv
<1>. USE DEF TypeOK, inputVars, reportVars, PolicyChecksSound, Checks,
             TestChecks, PolicyChecks, RuntimeChecks
<1>1. CASE EvaluatePolicy
  BY <1>1 DEF EvaluatePolicy
<1>2. CASE RunSystemTests
  BY <1>2 DEF RunSystemTests, RunCommandCheck, PassedIf
<1>3. CASE RunGoldenTests
  BY <1>3 DEF RunGoldenTests, RunCommandCheck, PassedIf
<1>4. CASE RunTargetCommand
  BY <1>4 DEF RunTargetCommand
<1>5. CASE FinishTargetSuite
  BY <1>5 DEF FinishTargetSuite, PassedIf
<1>6. CASE NoTargetCommands
  BY <1>6 DEF NoTargetCommands, LeaveToHuman
<1>7. CASE RunPolicyGate
  BY <1>7 DEF RunPolicyGate, PassedIf
<1>8. CASE CheckArtifacts
  BY <1>8 DEF CheckArtifacts, PassedIf
<1>9. CASE RunEntrypoint
  BY <1>9 DEF RunEntrypoint, RunCommandCheck, PassedIf
<1>10. CASE NoRuntimeCommands
  BY <1>10 DEF NoRuntimeCommands, LeaveToHuman
<1>11. CASE RunCoreCommand
  BY <1>11 DEF RunCoreCommand, RunCommandCheck, PassedIf
<1>12. CASE NoCoreCommand
  BY <1>12 DEF NoCoreCommand, LeaveToHuman
<1>13. CASE Decide
  BY <1>13 DEF Decide
<1>14. CASE WriteAgentReport
  BY <1>14 DEF WriteAgentReport
<1>15. CASE WriteHumanReport
  BY <1>15 DEF WriteHumanReport
<1>16. CASE Crash
  BY <1>16 DEF Crash
<1>17. CASE TearAgentReport
  BY <1>17 DEF TearAgentReport
<1>18. CASE TearHumanReport
  BY <1>18 DEF TearHumanReport
<1>19. CASE UNCHANGED gateVars
  BY <1>19 DEF gateVars
<1>20. QED
  BY <1>1, <1>2, <1>3, <1>4, <1>5, <1>6, <1>7, <1>8, <1>9, <1>10, <1>11,
     <1>12, <1>13, <1>14, <1>15, <1>16, <1>17, <1>18, <1>19 DEF Next, Step,
     Failure

\* Every step keeps what the command checks say true of the commands.
LEMMA CommandChecksSoundStep == GateInv /\ [Next]_gateVars => CommandChecksSound'
<1>. SUFFICES ASSUME TypeOK, ChecksInOrder, CommandChecksSound,
                     [Next]_gateVars
              PROVE  CommandChecksSound'
  BY DEF GateInv
<1>. USE DEF TypeOK, inputVars, reportVars, CommandChecksSound, Checks,
             TestChecks, RuntimeChecks, Args
<1>1. CASE EvaluatePolicy
  BY <1>1 DEF EvaluatePolicy
<1>2. CASE RunSystemTests
  BY <1>2 DEF RunSystemTests, RunCommandCheck, PassedIf
<1>3. CASE RunGoldenTests
  BY <1>3 DEF RunGoldenTests, RunCommandCheck, PassedIf
<1>4. CASE RunTargetCommand
  <2>1. checks["target_repo_regression_suite"] = "pending"
    BY <1>4 DEF RunTargetCommand, ChecksInOrder, PendingExactly, BeforeTarget
  <2>2. Len(targetResults') = Len(targetResults) + 1
    BY <1>4 DEF RunTargetCommand
  <2>3. Len(targetResults) < args.targets /\ Len(targetResults) \in Nat
    BY <1>4 DEF RunTargetCommand
  <2>4. QED
    BY <2>1, <2>2, <2>3, <1>4 DEF RunTargetCommand
<1>5. CASE FinishTargetSuite
  BY <1>5 DEF FinishTargetSuite, PassedIf
<1>6. CASE NoTargetCommands
  BY <1>6 DEF NoTargetCommands, LeaveToHuman
<1>7. CASE RunPolicyGate
  BY <1>7 DEF RunPolicyGate, PassedIf
<1>8. CASE CheckArtifacts
  BY <1>8 DEF CheckArtifacts, PassedIf
<1>9. CASE RunEntrypoint
  BY <1>9 DEF RunEntrypoint, RunCommandCheck, PassedIf
<1>10. CASE NoRuntimeCommands
  BY <1>10 DEF NoRuntimeCommands, LeaveToHuman
<1>11. CASE RunCoreCommand
  BY <1>11 DEF RunCoreCommand, RunCommandCheck, PassedIf
<1>12. CASE NoCoreCommand
  BY <1>12 DEF NoCoreCommand, LeaveToHuman
<1>13. CASE Decide
  BY <1>13 DEF Decide
<1>14. CASE WriteAgentReport
  BY <1>14 DEF WriteAgentReport
<1>15. CASE WriteHumanReport
  BY <1>15 DEF WriteHumanReport
<1>16. CASE Crash
  BY <1>16 DEF Crash
<1>17. CASE TearAgentReport
  BY <1>17 DEF TearAgentReport
<1>18. CASE TearHumanReport
  BY <1>18 DEF TearHumanReport
<1>19. CASE UNCHANGED gateVars
  BY <1>19 DEF gateVars
<1>20. QED
  BY <1>1, <1>2, <1>3, <1>4, <1>5, <1>6, <1>7, <1>8, <1>9, <1>10, <1>11,
     <1>12, <1>13, <1>14, <1>15, <1>16, <1>17, <1>18, <1>19 DEF Next, Step,
     Failure

\* Every step keeps the decision what _decide_iteration says of the checks.
LEMMA DecisionSoundStep == GateInv /\ [Next]_gateVars => DecisionSound'
<1>. SUFFICES ASSUME TypeOK, ChecksInOrder, DecisionSound,
                     [Next]_gateVars
              PROVE  DecisionSound'
  BY DEF GateInv
<1>. USE DEF TypeOK, inputVars, reportVars, DecisionSound,
             BeforeDecide, BeforeCore,
             BeforeEntrypoint, BeforeArtifacts, BeforePolicyGate, BeforeTarget,
             BeforeGolden, BeforeSystem
<1>1. CASE EvaluatePolicy
  BY <1>1 DEF EvaluatePolicy
<1>2. CASE RunSystemTests
  BY <1>2 DEF RunSystemTests, RunCommandCheck, PassedIf
<1>3. CASE RunGoldenTests
  BY <1>3 DEF RunGoldenTests, RunCommandCheck, PassedIf
<1>4. CASE RunTargetCommand
  BY <1>4 DEF RunTargetCommand
<1>5. CASE FinishTargetSuite
  BY <1>5 DEF FinishTargetSuite, PassedIf
<1>6. CASE NoTargetCommands
  BY <1>6 DEF NoTargetCommands, LeaveToHuman
<1>7. CASE RunPolicyGate
  BY <1>7 DEF RunPolicyGate, PassedIf
<1>8. CASE CheckArtifacts
  BY <1>8 DEF CheckArtifacts, PassedIf
<1>9. CASE RunEntrypoint
  BY <1>9 DEF RunEntrypoint, RunCommandCheck, PassedIf
<1>10. CASE NoRuntimeCommands
  BY <1>10 DEF NoRuntimeCommands, LeaveToHuman
<1>11. CASE RunCoreCommand
  BY <1>11 DEF RunCoreCommand, RunCommandCheck, PassedIf
<1>12. CASE NoCoreCommand
  BY <1>12 DEF NoCoreCommand, LeaveToHuman
<1>13. CASE Decide
  <2>1. \A c \in Checks : checks[c] # "pending"
    BY <1>13 DEF Decide, ChecksInOrder, PendingExactly, Checks, TestChecks,
              PolicyChecks, RuntimeChecks, BeforeSystem, BeforeGolden,
              BeforeTarget, BeforePolicyGate, BeforeArtifacts,
              BeforeEntrypoint, BeforeCore
  <2>2. decision' # "none"
    BY <1>13, DecideIterationType DEF Decide, Decisions
  <2>3. QED
    BY <2>1, <2>2, <1>13 DEF Decide
<1>14. CASE WriteAgentReport
  BY <1>14 DEF WriteAgentReport
<1>15. CASE WriteHumanReport
  BY <1>15 DEF WriteHumanReport
<1>16. CASE Crash
  BY <1>16 DEF Crash
<1>17. CASE TearAgentReport
  BY <1>17 DEF TearAgentReport
<1>18. CASE TearHumanReport
  BY <1>18 DEF TearHumanReport
<1>19. CASE UNCHANGED gateVars
  BY <1>19 DEF gateVars
<1>20. QED
  BY <1>1, <1>2, <1>3, <1>4, <1>5, <1>6, <1>7, <1>8, <1>9, <1>10, <1>11,
     <1>12, <1>13, <1>14, <1>15, <1>16, <1>17, <1>18, <1>19 DEF Next, Step,
     Failure

\* Every step keeps the reports of this call true to its decision.
LEMMA ReportsSoundStep == GateInv /\ [Next]_gateVars => ReportsSound'
<1>. SUFFICES ASSUME TypeOK, DecisionSound, ReportsSound,
                     [Next]_gateVars
              PROVE  ReportsSound'
  BY DEF GateInv
<1>. USE DEF TypeOK, inputVars, reportVars, ReportsSound, DecisionSound,
             BeforeHumanReport, BeforeAgentReport, BeforeDecide, BeforeCore,
             BeforeEntrypoint, BeforeArtifacts, BeforePolicyGate, BeforeTarget,
             BeforeGolden, BeforeSystem
<1>1. CASE EvaluatePolicy
  BY <1>1 DEF EvaluatePolicy
<1>2. CASE RunSystemTests
  BY <1>2 DEF RunSystemTests, RunCommandCheck, PassedIf
<1>3. CASE RunGoldenTests
  BY <1>3 DEF RunGoldenTests, RunCommandCheck, PassedIf
<1>4. CASE RunTargetCommand
  BY <1>4 DEF RunTargetCommand
<1>5. CASE FinishTargetSuite
  BY <1>5 DEF FinishTargetSuite, PassedIf
<1>6. CASE NoTargetCommands
  BY <1>6 DEF NoTargetCommands, LeaveToHuman
<1>7. CASE RunPolicyGate
  BY <1>7 DEF RunPolicyGate, PassedIf
<1>8. CASE CheckArtifacts
  BY <1>8 DEF CheckArtifacts, PassedIf
<1>9. CASE RunEntrypoint
  BY <1>9 DEF RunEntrypoint, RunCommandCheck, PassedIf
<1>10. CASE NoRuntimeCommands
  BY <1>10 DEF NoRuntimeCommands, LeaveToHuman
<1>11. CASE RunCoreCommand
  BY <1>11 DEF RunCoreCommand, RunCommandCheck, PassedIf
<1>12. CASE NoCoreCommand
  BY <1>12 DEF NoCoreCommand, LeaveToHuman
<1>13. CASE Decide
  BY <1>13 DEF Decide
<1>14. CASE WriteAgentReport
  BY <1>14 DEF WriteAgentReport
<1>15. CASE WriteHumanReport
  BY <1>15 DEF WriteHumanReport
<1>16. CASE Crash
  BY <1>16 DEF Crash
<1>17. CASE TearAgentReport
  BY <1>17 DEF TearAgentReport
<1>18. CASE TearHumanReport
  BY <1>18 DEF TearHumanReport
<1>19. CASE UNCHANGED gateVars
  BY <1>19 DEF gateVars
<1>20. QED
  BY <1>1, <1>2, <1>3, <1>4, <1>5, <1>6, <1>7, <1>8, <1>9, <1>10, <1>11,
     <1>12, <1>13, <1>14, <1>15, <1>16, <1>17, <1>18, <1>19 DEF Next, Step,
     Failure
-----------------------------------------------------------------------------
(* The theorems.                                                           *)

\* The inductive invariant holds in every reachable state.
LEMMA GateInvariant == Spec => []GateInv
<1>1. GateInv /\ [Next]_gateVars => GateInv'
  BY TypeOKStep, ChecksInOrderStep, PolicyChecksSoundStep,
     CommandChecksSoundStep, DecisionSoundStep, ReportsSoundStep DEF GateInv
<1>2. QED
  BY GateInvInit, <1>1, PTL DEF Spec

\* The variables of run_iteration_gates keep their types.
THEOREM TypeCorrect == Spec => []TypeOK
<1>1. GateInv => TypeOK
  BY DEF GateInv
<1>2. QED
  BY GateInvariant, <1>1, PTL

\* run_iteration_gates never reports "allow" unless all nine checks passed,
\* the critic approved and the plan is within the policy: for every plan,
\* policy file, number of commands and whatever the commands did.
THEOREM AllowIsAlwaysEarned == Spec => []AllowIsEarned
<1>1. GateInv => AllowIsEarned
  <2>. SUFFICES ASSUME GateInv, Allows(agentReport) \/ Allows(humanReport)
                PROVE  /\ \A c \in Checks : checks[c] = "passed"
                       /\ review.status = "approved"
                       /\ EvaluatePlan(plan, policyFile).protected_files = {}
                       /\ EvaluatePlan(plan, policyFile).oversized_steps = {}
                       /\ PlanIsNonExecuting(plan)
                       /\ args.targets > 0 /\ args.runtimes > 1
    BY DEF AllowIsEarned
  <2>1. decision = "allow_next_iteration"
    BY DEF GateInv, ReportsSound, Allows
  <2>2. checks \in [Checks -> Statuses]
    BY <2>1 DEF GateInv, TypeOK, DecisionSound
  <2>3. review.status \in CriticStatuses
    BY GateAssumption DEF GateInv, TypeOK, CriticReview
  <2>4. DecideIteration(checks, review.status) = "allow_next_iteration"
    BY <2>1 DEF GateInv, DecisionSound
  <2>5. /\ \A c \in Checks : checks[c] = "passed"
        /\ review.status = "approved"
    BY <2>2, <2>3, <2>4, AllowNeedsEverything
  <2>6. QED
    BY <2>5 DEF GateInv, PolicyChecksSound, CommandChecksSound, Checks,
                TestChecks, PolicyChecks, RuntimeChecks
<1>2. QED
  BY GateInvariant, <1>1, PTL

\* A failed check, a failing target command or a blocking critic is never
\* softened to "hold" or "allow".
THEOREM HardFailureAlwaysBlocks == Spec => []HardFailureBlocks
<1>1. GateInv => HardFailureBlocks
  <2>. SUFFICES ASSUME GateInv, decision # "none",
                       \/ \E c \in Checks : checks[c] = "failed"
                       \/ \E i \in DOMAIN targetResults : targetResults[i] # 0
                       \/ review.status = "blocked"
                PROVE  decision = "blocked"
    BY DEF HardFailureBlocks
  <2>1. \/ \E c \in Checks : checks[c] = "failed"
        \/ review.status = "blocked"
    BY DEF GateInv, CommandChecksSound, DecisionSound, Checks, TestChecks
  <2>2. QED
    BY <2>1, FailedCheckBlocks DEF GateInv, DecisionSound
<1>2. QED
  BY GateInvariant, <1>1, PTL

\* The reports of one call agree, and the human one never stands alone.
THEOREM ReportsAlwaysAgree == Spec => []ReportsAgree
<1>1. GateInv => ReportsAgree
  <2>. SUFFICES ASSUME GateInv, humanReport.at = clock
                PROVE  /\ agentReport.at = clock
                       /\ agentReport.decision \in Decisions
                       /\ humanReport.decision \in {agentReport.decision, "torn"}
    BY DEF ReportsAgree
  <2>1. QED
    BY DEF GateInv, TypeOK, ReportsSound
<1>2. QED
  BY GateInvariant, <1>1, PTL

\* No report on disk changes before every check has its status.
THEOREM NoVerdictIsEarly == Spec => NoEarlyVerdict
<1>1. GateInv /\ [Next]_gateVars =>
          [(agentReport' # agentReport \/ humanReport' # humanReport)
              => \A c \in Checks : checks[c] # "pending"]_gateVars
  <2>. SUFFICES ASSUME GateInv, Next,
                       agentReport' # agentReport \/ humanReport' # humanReport
                PROVE  \A c \in Checks : checks[c] # "pending"
    OBVIOUS
  <2>1. pc \in {"agent_report", "human_report"}
    BY DEF Next, Step, Failure, reportVars, EvaluatePolicy, RunSystemTests,
           RunGoldenTests, RunTargetCommand, FinishTargetSuite,
           NoTargetCommands, RunPolicyGate, CheckArtifacts, RunEntrypoint,
           NoRuntimeCommands, RunCoreCommand, NoCoreCommand, Decide,
           WriteAgentReport, WriteHumanReport, Crash, TearAgentReport,
           TearHumanReport
  <2>2. QED
    BY <2>1 DEF GateInv, DecisionSound
<1>2. QED
  BY GateInvariant, <1>1, PTL DEF Spec, NoEarlyVerdict
-----------------------------------------------------------------------------
(***************************************************************************)
(* run_iteration_gates implements the abstract iteration gate: initial     *)
(* states map to initial states and every step maps to an abstract step or *)
(* to a stutter.                                                           *)
(***************************************************************************)

\* A gate none of whose checks changes keeps its abstract verdict.
LEMMA SameGate ==
    ASSUME NEW g \in Gates, review' = review,
           \A c \in ChecksOf[g] : checks'[c] = checks[c]
    PROVE  AbstractGate'[g] = AbstractGate[g]
<1>1. GateClosed(g)' <=> GateClosed(g)
  BY DEF GateClosed
<1>2. FinalizeGate(checks', ChecksOf[g]) = FinalizeGate(checks, ChecksOf[g])
  BY DEF FinalizeGate
<1>3. GateStatus(g, checks', review.status) = GateStatus(g, checks, review.status)
  <2>1. CASE g = "policy_gate"
    <3>1. ChecksOf[g] = PolicyChecks
      BY <2>1 DEF ChecksOf, Gates
    <3>2. QED
      BY <2>1, <3>1, <1>2 DEF GateStatus, PolicyGateStatus
  <2>2. CASE g # "policy_gate"
    BY <2>2, <1>2 DEF GateStatus
  <2>3. QED
    BY <2>1, <2>2
<1>4. QED
  BY <1>1, <1>3 DEF AbstractGate

\* A gate with a check that is pending before and after a step stays open.
LEMMA OpenGate ==
    ASSUME NEW g \in Gates, NEW c \in ChecksOf[g],
           checks[c] = "pending", checks'[c] = "pending"
    PROVE  AbstractGate'[g] = AbstractGate[g]
BY DEF AbstractGate, GateClosed

\* The verdict of a gate is one of three.
LEMMA GateStatusType ==
    ASSUME NEW g, NEW cs, NEW status
    PROVE  GateStatus(g, cs, status) \in Abstract!Verdicts
<1>1. \A group : FinalizeGate(cs, group) \in Abstract!Verdicts
  BY DEF FinalizeGate, Abstract!Verdicts
<1>2. PolicyGateStatus(cs, status) \in Abstract!Verdicts
  BY <1>1 DEF PolicyGateStatus, Abstract!Verdicts
<1>3. QED
  BY <1>1, <1>2 DEF GateStatus

\* A step that closes one gate and leaves the others alone is a CloseGate.
LEMMA ClosingStep ==
    ASSUME NEW g \in Gates, GateClosed(g)', ~ GateClosed(g),
           \A h \in Gates \ {g} : AbstractGate'[h] = AbstractGate[h],
           decision' = decision, UNCHANGED AbstractPublished
    PROVE  Abstract!Next
<1>1. AbstractGate[g] = "pending"
  BY DEF AbstractGate
<1>2. AbstractGate'[g] \in Abstract!Verdicts
  BY GateStatusType DEF AbstractGate
<1>3. AbstractGate' = [AbstractGate EXCEPT ![g] = AbstractGate'[g]]
  BY DEF AbstractGate
<1>4. Abstract!CloseGate(g)
  BY <1>1, <1>2, <1>3 DEF Abstract!CloseGate
<1>5. QED
  BY <1>4 DEF Abstract!Next

\* Steps that leave the clock and the reports alone publish nothing.
LEMMA NothingPublished ==
    ASSUME UNCHANGED <<clock, agentReport, humanReport>>
    PROVE  UNCHANGED AbstractPublished
BY DEF AbstractPublished, IsPublished

\* A step that settles checks only is abstractly a stutter if every gate
\* keeps its abstract verdict.
LEMMA QuietStep ==
    ASSUME \A g \in Gates : AbstractGate'[g] = AbstractGate[g],
           decision' = decision, UNCHANGED AbstractPublished
    PROVE  UNCHANGED Abstract!vars
<1>1. AbstractGate' = AbstractGate
  BY DEF AbstractGate
<1>2. QED
  BY <1>1 DEF Abstract!vars
-----------------------------------------------------------------------------
(* The actions of the gate runner, by what they are abstractly.            *)

\* The first steps of a gate leave every gate as open as it was.
LEMMA GateStaysOpen ==
    ASSUME GateInv,
           RunSystemTests \/ RunGoldenTests \/ CheckArtifacts \/ RunEntrypoint
    PROVE  UNCHANGED Abstract!vars
<1>. USE DEF GateInv, TypeOK, ChecksInOrder, PendingExactly, Checks, TestChecks,
             PolicyChecks, RuntimeChecks, inputVars, reportVars
<1>0. UNCHANGED <<clock, agentReport, humanReport, review, decision>>
  BY DEF RunSystemTests, RunGoldenTests, CheckArtifacts, RunEntrypoint
<1>1. \A g \in Gates : AbstractGate'[g] = AbstractGate[g]
  <2>1. CASE RunSystemTests \/ RunGoldenTests
    <3>1. \A c \in PolicyChecks \cup RuntimeChecks : checks'[c] = checks[c]
      BY <2>1 DEF RunSystemTests, RunGoldenTests, RunCommandCheck
    <3>2. /\ checks["target_repo_regression_suite"] = "pending"
          /\ checks'["target_repo_regression_suite"] = "pending"
      BY <2>1 DEF RunSystemTests, RunGoldenTests, RunCommandCheck,
                  BeforeTarget, BeforeGolden, BeforeSystem
    <3>3. AbstractGate'["test_gate"] = AbstractGate["test_gate"]
      <4>1. "target_repo_regression_suite" \in ChecksOf["test_gate"]
        BY DEF ChecksOf, Gates
      <4>2. QED
        BY <4>1, <3>2, OpenGate DEF Gates
    <3>4. \A g \in {"policy_gate", "runtime_gate"} :
              AbstractGate'[g] = AbstractGate[g]
      <4>1. \A g \in {"policy_gate", "runtime_gate"} :
                ChecksOf[g] \subseteq PolicyChecks \cup RuntimeChecks
        BY DEF ChecksOf, Gates
      <4>2. QED
        BY <4>1, <3>1, <1>0, SameGate DEF Gates
    <3>5. QED
      BY <3>3, <3>4 DEF Gates
  <2>2. CASE CheckArtifacts \/ RunEntrypoint
    <3>1. \A c \in TestChecks \cup PolicyChecks : checks'[c] = checks[c]
      BY <2>2 DEF CheckArtifacts, RunEntrypoint, RunCommandCheck
    <3>2. /\ checks["target_repo_core_command_check"] = "pending"
          /\ checks'["target_repo_core_command_check"] = "pending"
      BY <2>2 DEF CheckArtifacts, RunEntrypoint, RunCommandCheck, BeforeCore,
                  BeforeEntrypoint, BeforeArtifacts
    <3>3. AbstractGate'["runtime_gate"] = AbstractGate["runtime_gate"]
      <4>1. "target_repo_core_command_check" \in ChecksOf["runtime_gate"]
        BY DEF ChecksOf, Gates
      <4>2. QED
        BY <4>1, <3>2, OpenGate DEF Gates
    <3>4. \A g \in {"test_gate", "policy_gate"} :
              AbstractGate'[g] = AbstractGate[g]
      <4>1. \A g \in {"test_gate", "policy_gate"} :
                ChecksOf[g] \subseteq TestChecks \cup PolicyChecks
        BY DEF ChecksOf, Gates
      <4>2. QED
        BY <4>1, <3>1, <1>0, SameGate DEF Gates
    <3>5. QED
      BY <3>3, <3>4 DEF Gates
  <2>3. QED
    BY <2>1, <2>2
<1>2. QED
  BY <1>0, <1>1, NothingPublished, QuietStep

\* The end of the target test suite closes the test gate.
LEMMA TestGateCloses ==
    ASSUME GateInv, FinishTargetSuite \/ NoTargetCommands
    PROVE  Abstract!Next
<1>. USE DEF GateInv, TypeOK, ChecksInOrder, PendingExactly, Checks, TestChecks,
             PolicyChecks, RuntimeChecks, inputVars, reportVars
<1>1. UNCHANGED <<clock, agentReport, humanReport, review, decision>>
  BY DEF FinishTargetSuite, NoTargetCommands
<1>2. \A c \in PolicyChecks \cup RuntimeChecks : checks'[c] = checks[c]
  BY DEF FinishTargetSuite, NoTargetCommands, PassedIf, LeaveToHuman
<1>3. \A c \in TestChecks : checks'[c] # "pending"
  BY DEF FinishTargetSuite, NoTargetCommands, PassedIf, LeaveToHuman,
     BeforeSystem, BeforeGolden, BeforeTarget, BeforePolicyGate,
     BeforeArtifacts, BeforeEntrypoint, BeforeCore
<1>4. checks["target_repo_regression_suite"] = "pending"
  BY DEF FinishTargetSuite, NoTargetCommands, BeforeSystem, BeforeGolden,
     BeforeTarget, BeforePolicyGate, BeforeArtifacts, BeforeEntrypoint,
     BeforeCore
<1>5. ChecksOf["test_gate"] = TestChecks /\ "test_gate" \in Gates
  BY DEF ChecksOf, Gates
<1>6. GateClosed("test_gate")' /\ ~ GateClosed("test_gate")
  BY <1>3, <1>4, <1>5 DEF GateClosed
<1>7. \A h \in Gates \ {"test_gate"} : AbstractGate'[h] = AbstractGate[h]
  <2>1. \A h \in Gates \ {"test_gate"} :
            ChecksOf[h] \subseteq PolicyChecks \cup RuntimeChecks
    BY DEF ChecksOf, Gates
  <2>2. QED
    BY <2>1, <1>1, <1>2, SameGate
<1>8. QED
  BY <1>1, <1>5, <1>6, <1>7, NothingPublished, ClosingStep

\* The policy gate is closed in one step.
LEMMA PolicyGateCloses ==
    ASSUME GateInv, RunPolicyGate
    PROVE  Abstract!Next
<1>. USE DEF GateInv, TypeOK, ChecksInOrder, PendingExactly, Checks, TestChecks,
             PolicyChecks, RuntimeChecks, inputVars, reportVars
<1>1. UNCHANGED <<clock, agentReport, humanReport, review, decision>>
  BY DEF RunPolicyGate
<1>2. \A c \in TestChecks \cup RuntimeChecks : checks'[c] = checks[c]
  BY DEF RunPolicyGate, PassedIf
<1>3. \A c \in PolicyChecks : checks'[c] # "pending"
  BY DEF RunPolicyGate, PassedIf, BeforeSystem, BeforeGolden, BeforeTarget,
     BeforePolicyGate, BeforeArtifacts, BeforeEntrypoint, BeforeCore
<1>4. checks["protected_path_check"] = "pending"
  BY DEF RunPolicyGate, BeforeSystem, BeforeGolden, BeforeTarget,
     BeforePolicyGate, BeforeArtifacts, BeforeEntrypoint, BeforeCore
<1>5. ChecksOf["policy_gate"] = PolicyChecks /\ "policy_gate" \in Gates
  BY DEF ChecksOf, Gates
<1>6. GateClosed("policy_gate")' /\ ~ GateClosed("policy_gate")
  BY <1>3, <1>4, <1>5 DEF GateClosed
<1>7. \A h \in Gates \ {"policy_gate"} : AbstractGate'[h] = AbstractGate[h]
  <2>1. \A h \in Gates \ {"policy_gate"} :
            ChecksOf[h] \subseteq TestChecks \cup RuntimeChecks
    BY DEF ChecksOf, Gates
  <2>2. QED
    BY <2>1, <1>1, <1>2, SameGate
<1>8. QED
  BY <1>1, <1>5, <1>6, <1>7, NothingPublished, ClosingStep

\* The core command, or its absence, closes the runtime gate.
LEMMA RuntimeGateCloses ==
    ASSUME GateInv, NoRuntimeCommands \/ RunCoreCommand \/ NoCoreCommand
    PROVE  Abstract!Next
<1>. USE DEF GateInv, TypeOK, ChecksInOrder, PendingExactly, Checks, TestChecks,
             PolicyChecks, RuntimeChecks, inputVars, reportVars
<1>1. UNCHANGED <<clock, agentReport, humanReport, review, decision>>
  BY DEF NoRuntimeCommands, RunCoreCommand, NoCoreCommand
<1>2. \A c \in TestChecks \cup PolicyChecks : checks'[c] = checks[c]
  BY DEF NoRuntimeCommands, RunCoreCommand, NoCoreCommand, PassedIf,
     LeaveToHuman, RunCommandCheck
<1>3. \A c \in RuntimeChecks : checks'[c] # "pending"
  BY DEF NoRuntimeCommands, RunCoreCommand, NoCoreCommand, PassedIf,
     LeaveToHuman, RunCommandCheck, BeforeSystem, BeforeGolden,
     BeforeTarget, BeforePolicyGate, BeforeArtifacts, BeforeEntrypoint,
     BeforeCore
<1>4. checks["target_repo_core_command_check"] = "pending"
  BY DEF NoRuntimeCommands, RunCoreCommand, NoCoreCommand, BeforeSystem,
     BeforeGolden, BeforeTarget, BeforePolicyGate, BeforeArtifacts,
     BeforeEntrypoint, BeforeCore
<1>5. ChecksOf["runtime_gate"] = RuntimeChecks /\ "runtime_gate" \in Gates
  BY DEF ChecksOf, Gates
<1>6. GateClosed("runtime_gate")' /\ ~ GateClosed("runtime_gate")
  BY <1>3, <1>4, <1>5 DEF GateClosed
<1>7. \A h \in Gates \ {"runtime_gate"} : AbstractGate'[h] = AbstractGate[h]
  <2>1. \A h \in Gates \ {"runtime_gate"} :
            ChecksOf[h] \subseteq TestChecks \cup PolicyChecks
    BY DEF ChecksOf, Gates
  <2>2. QED
    BY <2>1, <1>1, <1>2, SameGate
<1>8. QED
  BY <1>1, <1>5, <1>6, <1>7, NothingPublished, ClosingStep

\* Steps that touch neither checks nor decision nor whole reports.
LEMMA InvisibleStep ==
    ASSUME GateInv,
           \/ EvaluatePolicy \/ RunTargetCommand \/ Crash
           \/ TearAgentReport \/ TearHumanReport \/ UNCHANGED gateVars
    PROVE  UNCHANGED Abstract!vars
<1>1. UNCHANGED <<clock, checks, review, decision>>
  BY DEF EvaluatePolicy, RunTargetCommand, Crash, TearAgentReport,
         TearHumanReport, gateVars, inputVars
<1>2. \A g \in Gates : AbstractGate'[g] = AbstractGate[g]
  BY <1>1, SameGate
<1>3. UNCHANGED AbstractPublished
  <2>1. CASE UNCHANGED <<agentReport, humanReport>>
    BY <1>1, <2>1, NothingPublished
  <2>2. CASE TearAgentReport
    <3>1. ~ IsPublished(agentReport)
      BY <2>2 DEF TearAgentReport, IsPublished, GateInv, ReportsSound,
                  BeforeAgentReport
    <3>2. ~ IsPublished(agentReport)'
      BY <2>2 DEF TearAgentReport, IsPublished, Decisions
    <3>3. IsPublished(humanReport)' <=> IsPublished(humanReport)
      BY <1>1, <2>2 DEF TearAgentReport, IsPublished
    <3>4. QED
      BY <3>1, <3>2, <3>3 DEF AbstractPublished
  <2>3. CASE TearHumanReport
    <3>1. ~ IsPublished(humanReport)
      BY <2>3 DEF TearHumanReport, IsPublished, GateInv, ReportsSound,
                  BeforeHumanReport
    <3>2. ~ IsPublished(humanReport)'
      BY <2>3 DEF TearHumanReport, IsPublished, Decisions
    <3>3. IsPublished(agentReport)' <=> IsPublished(agentReport)
      BY <1>1, <2>3 DEF TearHumanReport, IsPublished
    <3>4. QED
      BY <3>1, <3>2, <3>3 DEF AbstractPublished
  <2>4. QED
    BY <2>1, <2>2, <2>3 DEF EvaluatePolicy, RunTargetCommand, Crash, gateVars,
                            reportVars
<1>4. QED
  BY <1>1, <1>2, <1>3, QuietStep

\* _decide_iteration decides as the documented table does.
LEMMA DecideIsDecide ==
    ASSUME GateInv, Decide
    PROVE  Abstract!Next
<1>1. /\ UNCHANGED <<clock, checks, review, agentReport, humanReport>>
      /\ decision' = DecideIteration(checks, review.status)
      /\ decision = "none"
  BY DEF Decide, inputVars, reportVars, GateInv, DecisionSound, BeforeDecide
<1>2. \A c \in Checks : checks[c] # "pending"
  BY DEF Decide, GateInv, ChecksInOrder, PendingExactly, Checks, TestChecks,
         PolicyChecks, RuntimeChecks, BeforeSystem, BeforeGolden,
         BeforeTarget, BeforePolicyGate, BeforeArtifacts, BeforeEntrypoint,
         BeforeCore
<1>3. \A g \in Gates : AbstractGate[g] = GateStatus(g, checks, review.status)
  <2>1. \A g \in Gates : ChecksOf[g] \subseteq Checks
    BY DEF ChecksOf, Gates, Checks
  <2>2. QED
    BY <1>2, <2>1 DEF AbstractGate, GateClosed
<1>4. \A g \in Gates : AbstractGate[g] \in Abstract!Verdicts
  BY <1>3, GateStatusType
<1>5. decision' = Abstract!DecisionFor({AbstractGate[g] : g \in Gates})
  <2>1. "failed" \in {AbstractGate[g] : g \in Gates}
            <=> \E g \in Gates : GateStatus(g, checks, review.status) = "failed"
    BY <1>3
  <2>2. "manual_review" \in {AbstractGate[g] : g \in Gates}
            <=> \E g \in Gates :
                    GateStatus(g, checks, review.status) = "manual_review"
    BY <1>3
  <2>3. \A g \in Gates : GateStatus(g, checks, review.status)
                             \in {"passed", "failed", "manual_review"}
    BY GateStatusType DEF Abstract!Verdicts
  <2>4. QED
    BY <1>1, <2>1, <2>2, <2>3 DEF DecideIteration, Abstract!DecisionFor
<1>6. UNCHANGED <<AbstractGate, AbstractPublished>>
  <2>1. \A g \in Gates : AbstractGate'[g] = AbstractGate[g]
    BY <1>1, SameGate
  <2>2. AbstractGate' = AbstractGate
    BY <2>1 DEF AbstractGate
  <2>3. QED
    BY <1>1, <2>2, NothingPublished
<1>7. Abstract!Decide
  BY <1>1, <1>4, <1>5, <1>6 DEF Abstract!Decide, Abstract!Verdicts
<1>8. QED
  BY <1>7 DEF Abstract!Next

\* Writing a report publishes the decision, first for agents.
LEMMA WriteIsPublish ==
    ASSUME GateInv, WriteAgentReport \/ WriteHumanReport
    PROVE  Abstract!Next
<1>. USE DEF GateInv, TypeOK, DecisionSound, ReportsSound, IsPublished,
             AbstractPublished
<1>1. UNCHANGED <<clock, checks, review, decision>>
  BY DEF WriteAgentReport, WriteHumanReport, inputVars
<1>2. decision # "none" /\ decision \in Decisions
  BY DEF WriteAgentReport, WriteHumanReport
<1>3. UNCHANGED AbstractGate
  <2>1. \A g \in Gates : AbstractGate'[g] = AbstractGate[g]
    BY <1>1, SameGate
  <2>2. QED
    BY <2>1 DEF AbstractGate
<1>4. CASE WriteAgentReport
  <2>1. AbstractPublished = {}
    BY <1>4 DEF WriteAgentReport, BeforeAgentReport, BeforeHumanReport
  <2>2. AbstractPublished' = {"agent"}
    <3>1. IsPublished(agentReport)'
      BY <1>4, <1>1, <1>2 DEF WriteAgentReport
    <3>2. ~ IsPublished(humanReport)'
      BY <1>4, <1>1 DEF WriteAgentReport, BeforeAgentReport, BeforeHumanReport
    <3>3. QED
      BY <3>1, <3>2
  <2>3. Abstract!Publish("agent")
    BY <1>1, <1>2, <1>3, <2>1, <2>2 DEF Abstract!Publish
  <2>4. QED
    BY <2>3 DEF Abstract!Next
<1>5. CASE WriteHumanReport
  <2>1. AbstractPublished = {"agent"}
    BY <1>5, <1>2 DEF WriteHumanReport, BeforeHumanReport
  <2>2. AbstractPublished' = {"agent", "human"}
    <3>1. IsPublished(humanReport)'
      BY <1>5, <1>1, <1>2 DEF WriteHumanReport
    <3>2. IsPublished(agentReport)'
      BY <1>5, <1>1, <1>2 DEF WriteHumanReport
    <3>3. QED
      BY <3>1, <3>2
  <2>3. Abstract!Publish("human")
    BY <1>1, <1>2, <1>3, <2>1, <2>2 DEF Abstract!Publish
  <2>4. QED
    BY <2>3 DEF Abstract!Next
<1>6. QED
  BY <1>4, <1>5

\* run_iteration_gates implements the abstract iteration gate.
THEOREM GateRunnerImplementsIterationGate == Spec => ImplementsIterationGate
<1>1. Init => Abstract!Init
  <2>. SUFFICES ASSUME Init
                PROVE  Abstract!Init
    OBVIOUS
  <2>1. \A g \in Gates : ~ GateClosed(g)
    <3>1. \A g \in Gates : \E c \in ChecksOf[g] : checks[c] = "pending"
      BY DEF Init, Pending, ChecksOf, Gates, Checks, TestChecks, PolicyChecks,
             RuntimeChecks
    <3>2. QED
      BY <3>1 DEF GateClosed
  <2>2. AbstractGate = [g \in Gates |-> "pending"]
    BY <2>1 DEF AbstractGate
  <2>3. agentReport.at # clock /\ humanReport.at # clock
    BY GateInvInit DEF GateInv, ReportsSound, Init, BeforeAgentReport,
       BeforeHumanReport, BeforeDecide, BeforeCore, BeforeEntrypoint,
       BeforeArtifacts, BeforePolicyGate, BeforeTarget, BeforeGolden,
       BeforeSystem
  <2>4. AbstractPublished = {}
    BY <2>3 DEF AbstractPublished, IsPublished
  <2>5. QED
    BY <2>2, <2>4 DEF Abstract!Init, Init
<1>2. GateInv /\ [Next]_gateVars => [Abstract!Next]_(Abstract!vars)
  BY GateStaysOpen, TestGateCloses, PolicyGateCloses, RuntimeGateCloses,
     InvisibleStep, DecideIsDecide, WriteIsPublish DEF Next, Step, Failure
<1>3. QED
  BY <1>1, <1>2, GateInvariant, PTL
     DEF Spec, ImplementsIterationGate, Abstract!Spec
=============================================================================
