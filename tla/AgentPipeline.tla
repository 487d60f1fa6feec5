--------------------------- MODULE AgentPipeline ---------------------------
(***************************************************************************)
(* agents/governor.py with the validator, planner and critic agents: one   *)
(* analysis, from the findings of the rules engine to the reviewed plan.   *)
(* Every agent works by rules when there is no client; with one, each call *)
(* may bring an answer, fail (timeout, HTTP error, no JSON, a value the    *)
(* sanitizer cannot hash), or fail in such a way that describing the       *)
(* failure raises too.                                                     *)
(***************************************************************************)
EXTENDS ValidatorAgent, PlannerAgent, CriticAgent

CONSTANTS
    FindingLists, \* what the rules engine may hand over
    Inventories,  \* what build_repo_inventory may say of the repository
    PolicyFiles,  \* the contents config/policy_config.json may have
    LlmVerdicts, LlmPlans, LlmReviews \* what the language model may answer

\* The rules engine finds in the files that the planner is given as repo_files:
\* both are those of the context, and every finding names one.
ASSUME PipelineAssumption ==
    /\ FindingLists \subseteq Seq(Finding)
    /\ \A list \in FindingLists : \A i \in DOMAIN list :
          list[i].files \in Seq(RepoFiles) /\ list[i].files # <<>>
    /\ Inventories \subseteq RepoInventory
    /\ PolicyFiles \subseteq PolicyFile
    /\ LlmVerdicts \subseteq LlmVerdict
    /\ LlmPlans \subseteq RawPlan
    /\ LlmReviews \subseteq LlmReview

VARIABLES
    pc,           \* the agent at work
    findings, inventory, policyFile,
    client,       \* whether build_bailian_client gives a client
    validated,    \* validated_items so far
    errors,       \* errors of the validator
    mode,         \* generation mode of the validator
    triage,       \* the deterministic triage
    plan,         \* the action plan: steps and backlog
    planMode,     \* planner_agent["mode"]
    policyResult, \* the policy result the critic works from
    review,
    reviewMode    \* critic_agent["mode"]

input == <<findings, inventory, policyFile, client>>
validation == <<validated, errors, mode>>
planning == <<triage, plan, planMode>>
reviewing == <<policyResult, review, reviewMode>>
vars == <<pc, input, validation, planning, reviewing>>

ToValidate == pc = "validator" /\ Len(validated) < Len(findings)

Current == findings[Len(validated) + 1]

NoPlan == [steps |-> <<>>, backlog |-> <<>>]
-----------------------------------------------------------------------------
(* Validator.                                                              *)

ValidateByRules ==
    /\ pc = "validator"
    /\ ~ client
    /\ validated' = [i \in DOMAIN findings |-> DeterministicValidation(findings[i])]
    /\ mode' = "deterministic_fallback"
    /\ pc' = "triage"
    /\ UNCHANGED <<input, errors, planning, reviewing>>

ValidateWithModel ==
    /\ ToValidate
    /\ client
    /\ \E answer \in LlmVerdicts :
          validated' = Append(validated, LlmValidation(Current, answer))
    /\ UNCHANGED <<pc, input, errors, mode, planning, reviewing>>

\* Deviation: a failed call leaves the finding to a human.
ValidationCallFailsOpen ==
    /\ ToValidate
    /\ client
    /\ errors' = errors + 1
    /\ validated' = Append(validated, Verdict(Current, "needs_review", "low",
                                              "deterministic_fallback"))
    /\ UNCHANGED <<pc, input, mode, planning, reviewing>>

\* The finding at hand keeps the verdict by rules; the next one is asked for.
ValidationCallFails ==
    /\ ToValidate
    /\ client
    /\ errors' = errors + 1
    /\ validated' = Append(validated, DeterministicValidation(Current))
    /\ UNCHANGED <<pc, input, mode, planning, reviewing>>

\* Deviation: only live answers count as judged findings.
FinishValidationOfAnswers ==
    /\ pc = "validator"
    /\ client
    /\ Len(validated) - errors = Len(findings)
    /\ mode' = GenerationMode(Len(validated) - errors, Len(findings))
    /\ pc' = "triage"
    /\ UNCHANGED <<input, validated, errors, planning, reviewing>>

FinishValidation ==
    /\ pc = "validator"
    /\ client
    /\ Len(validated) = Len(findings)
    /\ mode' = GenerationMode(Len(validated) - errors, Len(findings))
    /\ pc' = "triage"
    /\ UNCHANGED <<input, validated, errors, planning, reviewing>>
-----------------------------------------------------------------------------
(* Planner.                                                                *)

Triage ==
    /\ pc = "triage"
    /\ triage' = BuildTriage(ActionableFindings(validated))
    /\ pc' = "planner"
    /\ UNCHANGED <<input, validation, plan, planMode, reviewing>>

FallBackToRules ==
    /\ plan' = BuildActionPlan(triage)
    /\ planMode' = "deterministic_fallback"

PlanByRules ==
    /\ pc = "planner"
    /\ ~ client
    /\ FallBackToRules
    /\ pc' = "critic"
    /\ UNCHANGED <<input, validation, triage, reviewing>>

PlanWithModel ==
    /\ pc = "planner"
    /\ client
    /\ \E raw \in LlmPlans : plan' = SanitizeActionPlan(raw, triage)
    /\ planMode' = "llm"
    /\ pc' = "critic"
    /\ UNCHANGED <<input, validation, triage, reviewing>>

\* Deviation: a failed call leaves no plan.
PlanningCallFailsEmpty ==
    /\ pc = "planner"
    /\ client
    /\ plan' = NoPlan
    /\ planMode' = "deterministic_fallback"
    /\ pc' = "critic"
    /\ UNCHANGED <<input, validation, triage, reviewing>>

PlanningCallFails ==
    /\ pc = "planner"
    /\ client
    /\ FallBackToRules
    /\ pc' = "critic"
    /\ UNCHANGED <<input, validation, triage, reviewing>>
-----------------------------------------------------------------------------
(* Critic.  The rules come first, whether or not there is a client.        *)

ReviewByRules ==
    /\ pc = "critic"
    /\ ~ LoadRaises(policyFile)
    /\ policyResult' = EvaluatePlan(plan.steps, policyFile)
    /\ review' = DeterministicReview(plan.steps, inventory, policyResult')
    /\ reviewMode' = "deterministic_fallback"
    /\ pc' = IF client THEN "review_call" ELSE "done"
    /\ UNCHANGED <<input, validation, planning>>

ReviewWithModel ==
    /\ pc = "review_call"
    /\ \E answer \in LlmReviews :
          review' = SanitizeReview(answer, review, policyResult)
    /\ reviewMode' = "llm"
    /\ pc' = "done"
    /\ UNCHANGED <<input, validation, planning, policyResult>>

ReviewCallFails ==
    /\ pc = "review_call"
    /\ pc' = "done"
    /\ UNCHANGED <<input, validation, planning, reviewing>>
-----------------------------------------------------------------------------
(* Failures nobody catches.                                                *)

\* A failed call whose error body cannot be read: provider_request_error
\* raises inside the except clause.  Between validation and triage these are
\* the calls of the module deep reviews, whose answers no later step reads.
CallRaisesTwice ==
    /\ client
    /\ ToValidate \/ pc \in {"triage", "planner", "review_call"}
    /\ pc' = "crashed"
    /\ UNCHANGED <<input, validation, planning, reviewing>>

PolicyFileRaises ==
    /\ pc = "critic"
    /\ LoadRaises(policyFile)
    /\ pc' = "crashed"
    /\ UNCHANGED <<input, validation, planning, reviewing>>
-----------------------------------------------------------------------------
NoReview == [status |-> "approved", blocked |-> FALSE, risk_level |-> "low",
             required_checks |-> {}, protected_files |-> {}]

Init ==
    /\ pc = "validator"
    /\ findings \in FindingLists
    /\ inventory \in Inventories
    /\ policyFile \in PolicyFiles
    /\ client \in BOOLEAN
    /\ validated = <<>>
    /\ errors = 0
    /\ mode = "none"
    /\ triage = <<>>
    /\ plan = NoPlan
    /\ planMode = "none"
    /\ policyResult = NoPolicy
    /\ review = NoReview
    /\ reviewMode = "none"

Next ==
    \/ ValidateByRules \/ ValidateWithModel \/ ValidationCallFails \/ FinishValidation
    \/ Triage
    \/ PlanByRules \/ PlanWithModel \/ PlanningCallFails
    \/ ReviewByRules \/ ReviewWithModel \/ ReviewCallFails
    \/ CallRaisesTwice \/ PolicyFileRaises

Spec == Init /\ [][Next]_vars

\* The analysis is one thread, and each of its calls answers or fails.
FairSpec == Spec /\ WF_vars(Next)
-----------------------------------------------------------------------------
(* Properties.                                                             *)

FromModel(item) == item.source = "llm"

\* run_validator_agent judges every finding once and in order, whatever
\* mixture of answers and failures the calls bring: a failed call costs its
\* own finding the live verdict and no other finding anything.
OneVerdictPerFinding ==
    /\ Len(validated) <= Len(findings)
    /\ pc \notin {"validator", "crashed"} => Len(validated) = Len(findings)
    /\ \A i \in DOMAIN validated :
          /\ validated[i].finding = findings[i]
          /\ ~ FromModel(validated[i]) =>
                 validated[i] = DeterministicValidation(findings[i])

\* The generation mode that is published tells where the verdicts came from,
\* and with a client the errors are as many as the verdicts by rules: nothing is
\* called a fallback unless a call failed, also when there was nothing to ask.
ModeIsHonest ==
    LET live == {i \in DOMAIN validated : FromModel(validated[i])}
    IN  /\ mode = "llm" => client /\ live = DOMAIN validated
        /\ mode = "hybrid" => live # {} /\ live # DOMAIN validated
        /\ mode = "deterministic_fallback" => live = {}
        /\ client => errors = Len(validated) - Cardinality(live)
        /\ client /\ mode # "none" => (mode = "llm" <=> errors = 0)

Planned == pc \in {"critic", "review_call", "done"}

\* Whatever plan the model proposes, its steps only concern rules of which
\* some finding was not rejected by the validator.
RejectedNeverPlanned ==
    Planned => \A s \in DOMAIN plan.steps : \E i \in DOMAIN validated :
        /\ Actionable(validated[i])
        /\ validated[i].finding.rule_id = plan.steps[s].finding_rule

\* A plan, also one of the model, stays inside the repository and inside the
\* window: known files only, at least one per step, distinct step ids that
\* grow and never pass the window.
PlanStaysInside ==
    Planned =>
        /\ Len(plan.steps) <= PlanWindow
        /\ \A i, j \in DOMAIN plan.steps :
              i < j => plan.steps[i].step_id < plan.steps[j].step_id
        /\ \A i \in DOMAIN plan.steps :
              /\ plan.steps[i].step_id \in 1..PlanWindow
              /\ FilesOf(plan.steps[i]) # {}
              /\ FilesOf(plan.steps[i]) \subseteq RepoFiles

Urgency == [P0 |-> 0, P1 |-> 1, P2 |-> 2]

\* A plan by rules takes the worst findings, and loses none of the others.
WorstFirst ==
    Planned /\ planMode = "deterministic_fallback" =>
        /\ Len(plan.steps) + Len(plan.backlog) = Len(ActionableFindings(validated))
        /\ \A i \in DOMAIN plan.steps, j \in DOMAIN plan.backlog :
              Urgency[plan.steps[i].priority] <= Urgency[plan.backlog[j].priority]

\* A plan that touches a protected file is blocked at high risk, and a
\* targeted regression test the rules ask for stays asked for: no answer of
\* the model to the critic lifts either.
ModelCannotLiftReview ==
    pc = "done" =>
        /\ EvaluatePlan(plan.steps, policyFile).protected_files # {} =>
               review.status = "blocked" /\ review.blocked /\ review.risk_level = "high"
        /\ ChecksFor(plan.steps) \subseteq review.required_checks

\* An outage of the provider degrades the analysis to the one by rules: when
\* no call brought an answer, the published plan and review are those of a run
\* without a client.
OutageEqualsNoClient ==
    /\ pc = "done"
    /\ mode = "deterministic_fallback"
    /\ planMode = "deterministic_fallback"
    /\ reviewMode = "deterministic_fallback"
    => LET byRules == BuildActionPlan(BuildTriage(ActionableFindings(
               [i \in DOMAIN findings |-> DeterministicValidation(findings[i])])))
       IN  /\ plan = byRules
           /\ review = DeterministicReview(byRules.steps, inventory,
                                  EvaluatePlan(byRules.steps, policyFile))

\* An analysis ends, with a reviewed plan or by an exception.
AnalysisEnds == <>(pc \in {"done", "crashed"})

\* report/renderer.py, limitations: when the plan shows fewer steps than there
\* are triaged findings, the remaining problems are kept in the backlog.
NothingDropped ==
    pc = "done" /\ Len(triage) > Len(plan.steps) => \A r \in RulesOf(triage) :
        \/ \E i \in DOMAIN plan.steps : plan.steps[i].finding_rule = r
        \/ \E i \in DOMAIN plan.backlog : plan.backlog[i].finding_rule = r

\* ARCHITECTURE.md: a failed call falls back to the deterministic logic.
FailuresFallBack == pc = "crashed" => LoadRaises(policyFile)
=============================================================================
