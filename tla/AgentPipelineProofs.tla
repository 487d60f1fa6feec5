------------------------ MODULE AgentPipelineProofs ------------------------
(***************************************************************************)
(* Proofs about one analysis, for any findings, any policy file and any    *)
(* answers of the language model.                                          *)
(***************************************************************************)
EXTENDS AgentPipeline, OrderingProofs, SequenceTheorems, FiniteSetTheorems, TLAPS

\* A sequence with one more element.
LEMMA AppendOne ==
    ASSUME NEW S, NEW s \in Seq(S), NEW x
    PROVE  /\ Append(s, x) \in Seq(S \cup {x})
           /\ Len(Append(s, x)) = Len(s) + 1
           /\ \A i \in 1..Len(s) : Append(s, x)[i] = s[i]
           /\ Append(s, x)[Len(s) + 1] = x
<1>1. s \in Seq(S \cup {x})
  OBVIOUS
<1>2. QED
  BY <1>1

\* A verdict names its finding and its author.
LEMMA VerdictFields ==
    ASSUME NEW f, NEW answer
    PROVE  /\ DeterministicValidation(f).finding = f
           /\ ~ FromModel(DeterministicValidation(f))
           /\ LlmValidation(f, answer).finding = f
           /\ FromModel(LlmValidation(f, answer))
BY DEF DeterministicValidation, LlmValidation, Verdict, FromModel

\* Verdicts of the language model so far.
Live == {i \in 1..Len(validated) : FromModel(validated[i])}

\* The verdicts are those of the first findings, in order; with a client every
\* call that failed is counted.
VerdictsSound ==
    /\ findings \in Seq(Finding)
    /\ \E S : validated \in Seq(S)
    /\ Len(validated) <= Len(findings)
    /\ \A i \in 1..Len(validated) :
          /\ validated[i].finding = findings[i]
          /\ ~ FromModel(validated[i]) => validated[i] = DeterministicValidation(findings[i])
    /\ errors \in Nat
    /\ client \in BOOLEAN
    /\ client => Cardinality(Live) = Len(validated) - errors
    /\ ~ client => Live = {}
    /\ pc = "validator" => mode = "none" /\ (~ client => validated = <<>>)
    /\ pc \notin {"validator", "crashed"} =>
          /\ Len(validated) = Len(findings)
          /\ mode = IF client THEN GenerationMode(Len(validated) - errors, Len(findings))
                    ELSE "deterministic_fallback"
    /\ mode \in {"none", "llm", "hybrid", "deterministic_fallback"}
    /\ mode # "none" =>
          /\ Len(validated) = Len(findings)
          /\ mode = IF client THEN GenerationMode(Len(validated) - errors, Len(findings))
                    ELSE "deterministic_fallback"

\* What the agents after the validator work from.
PlanningSound ==
    /\ pc \notin {"validator", "triage", "crashed"} =>
          triage = BuildTriage(ActionableFindings(validated))
    /\ pc \in {"critic", "review_call", "done"} /\ planMode = "deterministic_fallback" =>
          plan = BuildActionPlan(triage)

\* A review is at least as strict as the policy and the rules.
ReviewSound ==
    pc \in {"review_call", "done"} =>
        /\ policyResult = EvaluatePlan(plan.steps, policyFile)
        /\ policyResult.protected_files # {} =>
              review.status = "blocked" /\ review.blocked /\ review.risk_level = "high"
        /\ ChecksFor(plan.steps) \subseteq review.required_checks
        /\ reviewMode = "deterministic_fallback" =>
              review = DeterministicReview(plan.steps, inventory, policyResult)
        /\ pc = "review_call" => reviewMode = "deterministic_fallback"

\* The inductive invariant of an analysis.
PipelineInv == VerdictsSound /\ PlanningSound /\ ReviewSound

\* An analysis starts in the invariant.
LEMMA PipelineInit ==
    ASSUME Init
    PROVE  PipelineInv
<1>1. findings \in Seq(Finding)
  BY PipelineAssumption DEF Init
<1>2. validated = <<>> /\ validated \in Seq({}) /\ Len(validated) = 0
  BY DEF Init
<1>3. Live = {}
  BY <1>2 DEF Live
<1>4. Cardinality(Live) = 0
  BY <1>3, FS_EmptySet
<1>5. VerdictsSound
  BY <1>1, <1>2, <1>3, <1>4 DEF Init, VerdictsSound
<1>6. QED
  BY <1>5 DEF Init, PipelineInv, PlanningSound, ReviewSound

\* One more verdict, by the model or by the rules, keeps the verdicts sound.
LEMMA VerdictAppended ==
    ASSUME VerdictsSound, ToValidate, client, NEW item, validated' = Append(validated, item),
           item.finding = Current,
           ~ FromModel(item) => item = DeterministicValidation(Current),
           errors' = IF FromModel(item) THEN errors ELSE errors + 1,
           UNCHANGED <<pc, input, mode>>
    PROVE  VerdictsSound'
<1>1. PICK S : validated \in Seq(S)
  BY DEF VerdictsSound
<1>2. /\ validated' \in Seq(S \cup {item})
      /\ Len(validated') = Len(validated) + 1 /\ Len(validated) \in Nat
      /\ \A i \in 1..Len(validated) : validated'[i] = validated[i]
      /\ validated'[Len(validated) + 1] = item
  BY <1>1, AppendOne
<1>3. Current = findings[Len(validated) + 1] /\ Len(validated') <= Len(findings)
  BY <1>2 DEF ToValidate, Current, VerdictsSound
<1>4. \A i \in 1..Len(validated') :
          /\ validated'[i].finding = findings[i]
          /\ ~ FromModel(validated'[i]) => validated'[i] = DeterministicValidation(findings[i])
  BY <1>2, <1>3 DEF VerdictsSound
<1>5. IsFiniteSet(1..Len(validated)) /\ Live \subseteq 1..Len(validated)
  BY <1>2, FS_Interval DEF Live
<1>6. IsFiniteSet(Live) /\ Len(validated) + 1 \notin Live
  <2>1. IsFiniteSet(Live)
    BY <1>5, FS_Subset, Zenon
  <2>2. Len(validated) + 1 \notin 1..Len(validated)
    BY <1>2
  <2>3. QED
    BY <1>5, <2>1, <2>2
<1>7. Live' = IF FromModel(item) THEN Live \cup {Len(validated) + 1} ELSE Live
  BY <1>2 DEF Live, FromModel
<1>8. Cardinality(Live) = Len(validated) - errors /\ errors \in Nat
  BY DEF VerdictsSound
<1>9. Cardinality(Live') = Len(validated') - errors'
  <2>1. CASE FromModel(item)
    <3>1. Cardinality(Live') = Cardinality(Live) + 1
      BY <1>6, <1>7, <2>1, FS_AddElement
    <3>2. QED
      BY <1>2, <1>8, <2>1, <3>1
  <2>2. CASE ~ FromModel(item)
    BY <1>2, <1>7, <1>8, <2>2
  <2>3. QED
    BY <2>1, <2>2
<1>10. QED
  BY <1>2, <1>3, <1>4, <1>8, <1>9 DEF ToValidate, input, VerdictsSound, FromModel

\* Steps after the validation leave the verdicts alone.
LEMMA VerdictsKept ==
    ASSUME VerdictsSound, UNCHANGED <<input, validation>>,
           pc \notin {"validator", "crashed"} \/ pc' \in {"crashed", pc},
           pc' = "validator" => pc' = pc
    PROVE  VerdictsSound'
<1>1. /\ findings' = findings /\ client' = client
      /\ validated' = validated /\ errors' = errors /\ mode' = mode
  BY DEF input, validation
<1>2. Live' = Live
  BY <1>1 DEF Live, FromModel
<1>3. pc' = "validator" => pc = "validator"
  OBVIOUS
<1>4. pc' \notin {"validator", "crashed"} => pc \notin {"validator", "crashed"}
  OBVIOUS
<1>5. /\ pc' = "validator" => mode = "none" /\ (~ client => validated = <<>>)
      /\ pc' \notin {"validator", "crashed"} =>
            /\ Len(validated) = Len(findings)
            /\ mode = IF client THEN GenerationMode(Len(validated) - errors, Len(findings))
                      ELSE "deterministic_fallback"
  BY <1>3, <1>4, Zenon DEF VerdictsSound
<1>6. QED
  BY <1>1, <1>2, <1>5, Zenon DEF VerdictsSound, FromModel

\* Every step keeps the verdicts sound.
LEMMA VerdictsStep ==
    ASSUME VerdictsSound, [Next]_vars
    PROVE  VerdictsSound'
<1>1. ASSUME ValidateByRules
      PROVE  VerdictsSound'
  <2>1. Len(findings) \in Nat /\ DOMAIN findings = 1..Len(findings)
    BY DEF VerdictsSound
  <2>2. /\ validated' = [i \in 1..Len(findings) |-> DeterministicValidation(findings[i])]
        /\ validated' \in Seq({DeterministicValidation(findings[i]) : i \in 1..Len(findings)})
        /\ Len(validated') = Len(findings)
    BY <1>1, <2>1 DEF ValidateByRules
  <2>3. \A i \in 1..Len(validated') :
            /\ validated'[i] = DeterministicValidation(findings[i])
            /\ validated'[i].finding = findings[i]
            /\ ~ FromModel(validated'[i])
    BY <2>1, <2>2, VerdictFields
  <2>4. Live' = {}
    BY <2>3 DEF Live, FromModel
  <2>5. /\ findings' = findings /\ client' = client /\ ~ client /\ errors' = errors
        /\ pc' = "triage" /\ mode' = "deterministic_fallback"
    BY <1>1 DEF ValidateByRules, input
  <2>6. /\ findings' \in Seq(Finding) /\ errors' \in Nat /\ client' \in BOOLEAN
    BY <2>5 DEF VerdictsSound
  <2>7. \E S : validated' \in Seq(S)
    BY <2>2
  <2>8. Len(validated') = Len(findings') /\ Len(validated') <= Len(findings')
    BY <2>1, <2>2, <2>5
  <2>9. \A i \in 1..Len(validated') :
            /\ validated'[i].finding = findings'[i]
            /\ ~ FromModel(validated'[i]) => validated'[i] = DeterministicValidation(findings'[i])
    BY <2>3, <2>5
  <2>10. QED
    BY <2>4, <2>5, <2>6, <2>7, <2>8, <2>9, Zenon DEF VerdictsSound, FromModel
<1>2. ASSUME ValidateWithModel
      PROVE  VerdictsSound'
  <2>1. PICK answer \in LlmVerdicts : validated' = Append(validated, LlmValidation(Current, answer))
    BY <1>2 DEF ValidateWithModel
  <2>2. LlmValidation(Current, answer).finding = Current
          /\ FromModel(LlmValidation(Current, answer))
    BY VerdictFields
  <2>3. QED
    BY <1>2, <2>1, <2>2, VerdictAppended DEF ValidateWithModel
<1>3. ASSUME ValidationCallFails
      PROVE  VerdictsSound'
  <2>1. DeterministicValidation(Current).finding = Current
          /\ ~ FromModel(DeterministicValidation(Current))
    BY VerdictFields
  <2>2. QED
    BY <1>3, <2>1, VerdictAppended DEF ValidationCallFails
<1>4. ASSUME FinishValidation
      PROVE  VerdictsSound'
  <2>1. mode' \in {"none", "llm", "hybrid", "deterministic_fallback"}
    BY <1>4 DEF FinishValidation, GenerationMode
  <2>2. Live' = Live
    BY <1>4 DEF FinishValidation, Live, FromModel
  <2>3. QED
    BY <1>4, <2>1, <2>2 DEF FinishValidation, VerdictsSound, input, FromModel
<1>5. ASSUME \/ Triage \/ PlanByRules \/ PlanWithModel \/ PlanningCallFails \/ ReviewByRules
             \/ ReviewWithModel \/ ReviewCallFails \/ CallRaisesTwice \/ PolicyFileRaises
             \/ UNCHANGED vars
      PROVE  VerdictsSound'
  <2>1. UNCHANGED <<input, validation>>
    BY <1>5 DEF Triage, PlanByRules, PlanWithModel, PlanningCallFails, ReviewByRules,
                ReviewWithModel, ReviewCallFails, CallRaisesTwice, PolicyFileRaises, vars
  <2>2. pc \notin {"validator", "crashed"} \/ pc' \in {"crashed", pc}
    BY <1>5 DEF Triage, PlanByRules, PlanWithModel, PlanningCallFails, ReviewByRules,
                ReviewWithModel, ReviewCallFails, CallRaisesTwice, PolicyFileRaises, vars
  <2>3. pc' = "validator" => pc' = pc
    BY <1>5 DEF Triage, PlanByRules, PlanWithModel, PlanningCallFails, ReviewByRules,
                ReviewWithModel, ReviewCallFails, CallRaisesTwice, PolicyFileRaises, vars
  <2>4. QED
    BY <2>1, <2>2, <2>3, VerdictsKept
<1>6. QED
  BY <1>1, <1>2, <1>3, <1>4, <1>5 DEF Next

\* The agents after the validator work from its verdicts, and stay so.
LEMMA PlanningStep ==
    ASSUME PlanningSound, [Next]_vars
    PROVE  PlanningSound'
<1> USE DEF PlanningSound
<1>1. ASSUME ValidateByRules \/ ValidateWithModel \/ ValidationCallFails \/ FinishValidation
      PROVE  PlanningSound'
  BY <1>1 DEF ValidateByRules, ValidateWithModel, ValidationCallFails, FinishValidation, ToValidate
<1>2. ASSUME Triage
      PROVE  PlanningSound'
  BY <1>2 DEF Triage, validation
<1>3. ASSUME PlanByRules \/ PlanningCallFails
      PROVE  PlanningSound'
  BY <1>3 DEF PlanByRules, PlanningCallFails, FallBackToRules, validation
<1>4. ASSUME PlanWithModel
      PROVE  PlanningSound'
  BY <1>4 DEF PlanWithModel, validation
<1>5. ASSUME ReviewByRules \/ ReviewWithModel \/ ReviewCallFails
      PROVE  PlanningSound'
  BY <1>5 DEF ReviewByRules, ReviewWithModel, ReviewCallFails, validation, planning
<1>6. ASSUME CallRaisesTwice \/ PolicyFileRaises \/ UNCHANGED vars
      PROVE  PlanningSound'
  BY <1>6 DEF CallRaisesTwice, PolicyFileRaises, vars, validation, planning
<1>7. QED
  BY <1>1, <1>2, <1>3, <1>4, <1>5, <1>6 DEF Next

\* Whatever the model answers to the critic, its review keeps what the policy
\* and the rules demand.
LEMMA SanitizedReview ==
    ASSUME NEW answer, NEW deterministic, NEW result
    PROVE  LET r == SanitizeReview(answer, deterministic, result)
           IN  /\ result.protected_files # {} =>
                     r.status = "blocked" /\ r.blocked /\ r.risk_level = "high"
               /\ deterministic.required_checks \subseteq r.required_checks
BY DEF SanitizeReview

\* The review by rules blocks on protected files and asks for every check.
LEMMA ReviewOfRules ==
    ASSUME NEW steps, NEW stock, NEW result
    PROVE  LET r == DeterministicReview(steps, stock, result)
           IN  /\ result.protected_files # {} =>
                     r.status = "blocked" /\ r.blocked /\ r.risk_level = "high"
               /\ ChecksFor(steps) \subseteq r.required_checks
<1> DEFINE r == DeterministicReview(steps, stock, result)
           protected == result.protected_files # {}
<1>1. r.required_checks = ChecksFor(steps)
  BY DEF DeterministicReview
<1>2. r.blocked = protected /\ (protected => r.status = "blocked")
  BY DEF DeterministicReview
<1>3. protected => r.risk_level = "high"
  BY DEF DeterministicReview
<1>4. QED
  BY <1>1, <1>2, <1>3

\* Every step keeps the review sound.
LEMMA ReviewStep ==
    ASSUME ReviewSound, [Next]_vars
    PROVE  ReviewSound'
<1> USE DEF ReviewSound
<1>1. ASSUME \/ ValidateByRules \/ ValidateWithModel \/ ValidationCallFails \/ FinishValidation
             \/ Triage \/ PlanByRules \/ PlanWithModel \/ PlanningCallFails
             \/ CallRaisesTwice \/ PolicyFileRaises
      PROVE  ReviewSound'
  BY <1>1 DEF ValidateByRules, ValidateWithModel, ValidationCallFails, FinishValidation,
              ToValidate, Triage, PlanByRules, PlanWithModel, PlanningCallFails,
              CallRaisesTwice, PolicyFileRaises
<1>2. ASSUME ReviewByRules
      PROVE  ReviewSound'
  <2>1. /\ plan' = plan /\ policyFile' = policyFile /\ inventory' = inventory
        /\ policyResult' = EvaluatePlan(plan.steps, policyFile)
        /\ review' = DeterministicReview(plan.steps, inventory, policyResult')
        /\ reviewMode' = "deterministic_fallback"
    BY <1>2 DEF ReviewByRules, input, planning
  <2>2. /\ policyResult'.protected_files # {} =>
              review'.status = "blocked" /\ review'.blocked /\ review'.risk_level = "high"
        /\ ChecksFor(plan.steps) \subseteq review'.required_checks
    BY <2>1, ReviewOfRules
  <2>3. QED
    BY <2>1, <2>2
<1>3. ASSUME ReviewWithModel
      PROVE  ReviewSound'
  <2>1. PICK answer \in LlmReviews : review' = SanitizeReview(answer, review, policyResult)
    BY <1>3 DEF ReviewWithModel
  <2>2. /\ policyResult.protected_files # {} =>
              review'.status = "blocked" /\ review'.blocked /\ review'.risk_level = "high"
        /\ review.required_checks \subseteq review'.required_checks
    BY <2>1, SanitizedReview
  <2>3. QED
    BY <1>3, <2>2 DEF ReviewWithModel, input, planning
<1>4. ASSUME ReviewCallFails \/ UNCHANGED vars
      PROVE  ReviewSound'
  BY <1>4 DEF ReviewCallFails, vars, input, planning, reviewing
<1>5. QED
  BY <1>1, <1>2, <1>3, <1>4 DEF Next

\* The invariant holds throughout.
LEMMA PipelineInvariant == Spec => []PipelineInv
<1>1. Init => PipelineInv
  BY PipelineInit
<1>2. PipelineInv /\ [Next]_vars => PipelineInv'
  BY VerdictsStep, PlanningStep, ReviewStep DEF PipelineInv
<1>3. QED
  BY <1>1, <1>2, PTL DEF Spec
-----------------------------------------------------------------------------
(* The theorems.                                                           *)

\* Every finding is judged once and in order, by the model or by the rules.
THEOREM EveryFindingIsJudgedOnce == Spec => []OneVerdictPerFinding
<1>1. PipelineInv => OneVerdictPerFinding
  BY DEF PipelineInv, VerdictsSound, OneVerdictPerFinding
<1>2. QED
  BY <1>1, PipelineInvariant, PTL

\* The mode that is published tells where the verdicts came from.
THEOREM ModeIsAlwaysHonest == Spec => []ModeIsHonest
<1>1. ASSUME PipelineInv
      PROVE  ModeIsHonest
  <2>1. PICK S : validated \in Seq(S)
    BY <1>1 DEF PipelineInv, VerdictsSound
  <2>2. Len(validated) \in Nat /\ DOMAIN validated = 1..Len(validated)
    BY <2>1
  <2>3. {i \in DOMAIN validated : FromModel(validated[i])} = Live
    BY <2>2 DEF Live
  <2>4. /\ IsFiniteSet(1..Len(validated)) /\ Cardinality(1..Len(validated)) = Len(validated)
        /\ Live \subseteq 1..Len(validated)
    <3>1. /\ IsFiniteSet(1..Len(validated))
          /\ Cardinality(1..Len(validated)) =
                IF 1 > Len(validated) THEN 0 ELSE Len(validated) - 1 + 1
      BY <2>2, FS_Interval
    <3>2. Live \subseteq 1..Len(validated)
      BY DEF Live
    <3>3. QED
      BY <2>2, <3>1, <3>2
  <2>5. /\ IsFiniteSet(Live) /\ Cardinality(Live) \in Nat
        /\ Cardinality(Live) = Len(validated) => Live = 1..Len(validated)
        /\ Cardinality(Live) = 0 <=> Live = {}
    <3>1. IsFiniteSet(Live) /\ Cardinality(Live) \in Nat
      BY <2>4, FS_Subset, FS_CardinalityType, Zenon
    <3>2. Cardinality(Live) = Cardinality(1..Len(validated)) => Live = 1..Len(validated)
      BY <2>4, FS_Subset, Zenon
    <3>3. Cardinality(Live) = 0 <=> Live = {}
      BY <3>1, FS_EmptySet
    <3>4. QED
      BY <2>4, <3>1, <3>2, <3>3
  <2>6. client => Cardinality(Live) = Len(validated) - errors
    BY <1>1 DEF PipelineInv, VerdictsSound
  <2>12. /\ ~ client => Live = {}
         /\ errors \in Nat
         /\ mode # "none" =>
               /\ Len(validated) = Len(findings)
               /\ mode = IF client THEN GenerationMode(Len(validated) - errors, Len(findings))
                         ELSE "deterministic_fallback"
    BY <1>1, Zenon DEF PipelineInv, VerdictsSound
  <2>13. mode # "none" /\ client => mode = GenerationMode(Cardinality(Live), Len(validated))
    BY <2>6, <2>12
  <2>14. mode # "none" /\ ~ client => mode = "deterministic_fallback" /\ Live = {}
    BY <2>12
  <2>7. mode = "llm" => client /\ Live = DOMAIN validated
    BY <2>2, <2>5, <2>13, <2>14 DEF GenerationMode
  <2>8. mode = "hybrid" => Live # {} /\ Live # DOMAIN validated
    BY <2>2, <2>4, <2>5, <2>13, <2>14 DEF GenerationMode
  <2>9. mode = "deterministic_fallback" => Live = {}
    BY <2>2, <2>5, <2>13, <2>14 DEF GenerationMode
  <2>10. client => errors = Len(validated) - Cardinality(Live)
    BY <1>1, <2>2, <2>6 DEF PipelineInv, VerdictsSound
  <2>15. client /\ mode # "none" => (mode = "llm" <=> errors = 0)
    BY <2>2, <2>5, <2>10, <2>12, <2>13 DEF GenerationMode
  <2>11. QED
    BY <2>3, <2>7, <2>8, <2>9, <2>10, <2>15 DEF ModeIsHonest
<1>2. QED
  BY <1>1, PipelineInvariant, PTL

\* No answer of the model to the critic lifts a block of the policy or a test
\* the rules ask for, whatever plan it is about.
THEOREM ReviewIsNeverLifted == Spec => []ModelCannotLiftReview
<1>1. PipelineInv => ModelCannotLiftReview
  BY DEF PipelineInv, ReviewSound, ModelCannotLiftReview
<1>2. QED
  BY <1>1, PipelineInvariant, PTL

\* When no call brought an answer, plan and review are those without a client.
THEOREM OutageAlwaysEqualsNoClient == Spec => []OutageEqualsNoClient
<1>1. ASSUME PipelineInv, ModeIsHonest, pc = "done", mode = "deterministic_fallback",
             planMode = "deterministic_fallback", reviewMode = "deterministic_fallback"
      PROVE  LET byRules == BuildActionPlan(BuildTriage(ActionableFindings(
                   [i \in DOMAIN findings |-> DeterministicValidation(findings[i])])))
             IN  /\ plan = byRules
                 /\ review = DeterministicReview(byRules.steps, inventory,
                                  EvaluatePlan(byRules.steps, policyFile))
  <2>1. PICK S : validated \in Seq(S)
    BY <1>1 DEF PipelineInv, VerdictsSound
  <2>2. DOMAIN validated = DOMAIN findings /\ DOMAIN findings = 1..Len(validated)
    BY <1>1, <2>1 DEF PipelineInv, VerdictsSound
  <2>3. \A i \in DOMAIN findings : validated[i] = DeterministicValidation(findings[i])
    BY <1>1, <2>2 DEF PipelineInv, VerdictsSound, ModeIsHonest
  <2>4. validated = [i \in DOMAIN findings |-> DeterministicValidation(findings[i])]
    BY <2>1, <2>2, <2>3
  <2>5. plan = BuildActionPlan(BuildTriage(ActionableFindings(validated)))
    BY <1>1 DEF PipelineInv, PlanningSound
  <2>6. review = DeterministicReview(plan.steps, inventory, EvaluatePlan(plan.steps, policyFile))
    BY <1>1 DEF PipelineInv, ReviewSound
  <2>7. QED
    BY <2>4, <2>5, <2>6
<1>2. PipelineInv /\ ModeIsHonest => OutageEqualsNoClient
  BY <1>1 DEF OutageEqualsNoClient
<1>3. QED
  BY <1>2, PipelineInvariant, ModeIsAlwaysHonest, PTL
-----------------------------------------------------------------------------
(* The order of the triage.                                                *)

\* No list of files comes before itself, and what comes before a list comes
\* before all that follow it.
LEMMA FilesInOrder ==
    ASSUME NEW s \in Seq(Files), NEW t \in Seq(Files), NEW u \in Seq(Files)
    PROVE  /\ ~ FilesBefore(s, s)
           /\ FilesBefore(s, t) /\ FilesBefore(t, u) => FilesBefore(s, u)
<1>1. /\ Len(s) \in Nat /\ Len(t) \in Nat /\ Len(u) \in Nat
      /\ \A k \in 1..Len(s) : s[k] \in Files
      /\ \A k \in 1..Len(t) : t[k] \in Files
      /\ \A k \in 1..Len(u) : u[k] \in Files
  OBVIOUS
<1>2. \A f \in Files : FileRank[f] \in Nat
  BY PlannerAssumption
<1>3. ~ FilesBefore(s, s)
  <2>1. SUFFICES ASSUME NEW k \in 1..Len(s), k > Len(s) \/ FileRank[s[k]] < FileRank[s[k]]
                 PROVE  FALSE
    BY DEF FilesBefore
  <2>2. FileRank[s[k]] \in Nat
    BY <1>1, <1>2
  <2>3. QED
    BY <1>1, <2>1, <2>2
<1>4. ASSUME FilesBefore(s, t), FilesBefore(t, u)
      PROVE  FilesBefore(s, u)
  <2>1. PICK k \in 1..Len(t) :
            /\ \A j \in 1..(k - 1) : j <= Len(s) /\ s[j] = t[j]
            /\ k > Len(s) \/ FileRank[s[k]] < FileRank[t[k]]
    BY <1>4 DEF FilesBefore
  <2>2. PICK l \in 1..Len(u) :
            /\ \A j \in 1..(l - 1) : j <= Len(t) /\ t[j] = u[j]
            /\ l > Len(t) \/ FileRank[t[l]] < FileRank[u[l]]
    BY <1>4 DEF FilesBefore
  <2>3. CASE k <= l
    <3>1. k \in 1..Len(u)
      BY <1>1, <2>3
    <3>2. \A j \in 1..(k - 1) : j <= Len(s) /\ s[j] = u[j]
      BY <2>1, <2>2, <2>3
    <3>3. k > Len(s) \/ FileRank[s[k]] < FileRank[u[k]]
      <4>1. CASE k > Len(s)
        BY <4>1
      <4>2. CASE k <= Len(s) /\ k < l
        <5>1. t[k] = u[k]
          BY <2>2, <4>2
        <5>2. QED
          BY <1>1, <2>1, <4>2, <5>1
      <4>3. CASE k <= Len(s) /\ k = l
        <5>1. FileRank[s[k]] < FileRank[t[k]] /\ FileRank[t[k]] < FileRank[u[k]]
          BY <1>1, <2>1, <2>2, <4>3
        <5>2. FileRank[s[k]] \in Nat /\ FileRank[t[k]] \in Nat /\ FileRank[u[k]] \in Nat
          BY <1>1, <1>2, <3>1, <4>3
        <5>3. QED
          BY <5>1, <5>2
      <4>4. QED
        BY <1>1, <2>3, <4>1, <4>2, <4>3
    <3>4. QED
      BY <3>1, <3>2, <3>3 DEF FilesBefore
  <2>4. CASE l < k
    <3>1. \A j \in 1..(l - 1) : j <= Len(s) /\ s[j] = u[j]
      BY <2>1, <2>2, <2>4
    <3>2. l <= Len(s) /\ s[l] = t[l] /\ l <= Len(t)
      BY <1>1, <2>1, <2>4
    <3>3. FileRank[s[l]] < FileRank[u[l]]
      BY <1>1, <2>2, <3>2
    <3>4. QED
      BY <3>1, <3>3 DEF FilesBefore
  <2>5. QED
    BY <2>3, <2>4
<1>5. QED
  BY <1>3, <1>4

\* Of two different lists of files one comes before the other.
LEMMA FilesCompare ==
    ASSUME NEW s \in Seq(Files), NEW t \in Seq(Files), s # t
    PROVE  FilesBefore(s, t) \/ FilesBefore(t, s)
<1>1. /\ Len(s) \in Nat /\ Len(t) \in Nat
      /\ \A k \in 1..Len(s) : s[k] \in Files
      /\ \A k \in 1..Len(t) : t[k] \in Files
  OBVIOUS
<1> DEFINE T == {k \in Nat : 1 <= k /\ k <= Len(s) /\ k <= Len(t) /\ s[k] # t[k]}
<1>2. CASE T # {}
  <2>1. PICK k \in T : \A m \in T : k <= m
    BY <1>2, SmallestNumber
  <2>2. k \in 1..Len(s) /\ k \in 1..Len(t) /\ s[k] # t[k]
    BY <1>1
  <2>3. \A j \in 1..(k - 1) : j <= Len(s) /\ j <= Len(t) /\ s[j] = t[j]
    <3>1. SUFFICES ASSUME NEW j \in 1..(k - 1)
                   PROVE  j <= Len(s) /\ j <= Len(t) /\ s[j] = t[j]
      OBVIOUS
    <3>2. j \in Nat /\ 1 <= j /\ j < k /\ j <= Len(s) /\ j <= Len(t)
      BY <1>1, <2>2
    <3>3. j \notin T
      BY <2>1, <2>2, <3>2
    <3>4. QED
      BY <3>2, <3>3
  <2>4. /\ FileRank[s[k]] \in Nat /\ FileRank[t[k]] \in Nat
        /\ FileRank[s[k]] # FileRank[t[k]]
    BY <1>1, <2>2, PlannerAssumption
  <2>5. FileRank[s[k]] < FileRank[t[k]] \/ FileRank[t[k]] < FileRank[s[k]]
    BY <2>4
  <2> HIDE DEF T
  <2>6. QED
    BY <2>2, <2>3, <2>5 DEF FilesBefore
<1>3. CASE T = {}
  <2>1. \A k \in 1..Len(s) : k <= Len(t) => s[k] = t[k]
    BY <1>1, <1>3
  <2>2. Len(s) # Len(t)
    <3>1. SUFFICES ASSUME Len(s) = Len(t)
                   PROVE  FALSE
      OBVIOUS
    <3>2. \A k \in 1..Len(s) : s[k] = t[k]
      BY <1>1, <2>1, <3>1
    <3>3. s = t
      BY <3>1, <3>2, SeqEqual
    <3>4. QED
      BY <3>3
  <2>3. CASE Len(s) < Len(t)
    <3>1. Len(s) + 1 \in 1..Len(t) /\ Len(s) + 1 > Len(s)
      BY <1>1, <2>3
    <3>2. \A j \in 1..((Len(s) + 1) - 1) : j <= Len(s) /\ s[j] = t[j]
      BY <1>1, <2>1, <2>3
    <3>3. QED
      BY <3>1, <3>2 DEF FilesBefore
  <2>4. CASE Len(t) < Len(s)
    <3>1. Len(t) + 1 \in 1..Len(s) /\ Len(t) + 1 > Len(t)
      BY <1>1, <2>4
    <3>2. \A j \in 1..((Len(t) + 1) - 1) : j <= Len(t) /\ t[j] = s[j]
      BY <1>1, <2>1, <2>4
    <3>3. QED
      BY <3>1, <3>2 DEF FilesBefore
  <2>5. QED
    BY <1>1, <2>2, <2>3, <2>4
<1>4. QED
  BY <1>2, <1>3

\* Triaged findings by their urgency.
Triages == {p \in TriageItem \X TriageItem : TriagedBefore(p[1], p[2])}

\* Which pairs of them there are.
LEMMA TwoTriages ==
    ASSUME NEW a \in TriageItem, NEW b \in TriageItem
    PROVE  <<a, b>> \in Triages <=> TriagedBefore(a, b)
<1> DEFINE x == <<a, b>>
<1>1. x[1] = a /\ x[2] = b /\ x \in TriageItem \X TriageItem
  BY PairOf
<1> HIDE DEF x
<1>2. x \in Triages <=> TriagedBefore(x[1], x[2])
  BY <1>1 DEF Triages
<1>3. QED
  BY <1>1, <1>2 DEF x

\* The sort key of the triage orders them.
LEMMA TriageIsOrder == WeakOrder(Triages, TriageItem)
<1>1. \A r \in Rules : RuleRank[r] \in Nat
  BY DEF Rules, RuleRank
<1>2. \A r, q \in Rules : RuleRank[r] = RuleRank[q] => r = q
  BY DEF Rules, RuleRank
<1>3. \A a \in TriageItem : a.score \in Nat /\ a.finding_rule \in Rules /\ a.files \in Seq(Files)
  BY DEF TriageItem
<1>4. \A a \in TriageItem : ~ TriagedBefore(a, a)
  BY <1>1, <1>3, FilesInOrder DEF TriagedBefore
<1>5. ASSUME NEW a \in TriageItem, NEW b \in TriageItem, NEW c \in TriageItem,
             TriagedBefore(a, b), TriagedBefore(b, c)
      PROVE  TriagedBefore(a, c)
  <2>1. /\ a.score \in Nat /\ b.score \in Nat /\ c.score \in Nat
        /\ RuleRank[a.finding_rule] \in Nat /\ RuleRank[b.finding_rule] \in Nat
        /\ RuleRank[c.finding_rule] \in Nat
    BY <1>1, <1>3
  <2>2. FilesBefore(a.files, b.files) /\ FilesBefore(b.files, c.files)
            => FilesBefore(a.files, c.files)
    BY <1>3, FilesInOrder
  <2>3. QED
    BY <1>5, <2>1, <2>2 DEF TriagedBefore
<1>6. ASSUME NEW a \in TriageItem, NEW b \in TriageItem, NEW c \in TriageItem,
             TriagedBefore(a, c)
      PROVE  TriagedBefore(a, b) \/ TriagedBefore(b, c)
  <2>1. /\ a.score \in Nat /\ b.score \in Nat /\ c.score \in Nat
        /\ RuleRank[a.finding_rule] \in Nat /\ RuleRank[b.finding_rule] \in Nat
        /\ RuleRank[c.finding_rule] \in Nat
        /\ (RuleRank[a.finding_rule] = RuleRank[b.finding_rule] => a.finding_rule = b.finding_rule)
        /\ (RuleRank[b.finding_rule] = RuleRank[c.finding_rule] => b.finding_rule = c.finding_rule)
    BY <1>1, <1>2, <1>3
  <2>2. FilesBefore(a.files, c.files) =>
            FilesBefore(a.files, b.files) \/ FilesBefore(b.files, c.files)
    <3>1. CASE a.files = b.files
      BY <3>1
    <3>2. CASE a.files # b.files
      <4>1. FilesBefore(a.files, b.files) \/ FilesBefore(b.files, a.files)
        BY <1>3, <3>2, FilesCompare
      <4>2. FilesBefore(b.files, a.files) /\ FilesBefore(a.files, c.files)
                => FilesBefore(b.files, c.files)
        BY <1>3, FilesInOrder
      <4>3. QED
        BY <4>1, <4>2
    <3>3. QED
      BY <3>1, <3>2
  <2>3. QED
    BY <1>6, <2>1, <2>2 DEF TriagedBefore
<1>7. QED
  BY <1>4, <1>5, <1>6, TwoTriages DEF WeakOrder
-----------------------------------------------------------------------------
(* The findings that are planned for.                                      *)

\* A finding of the repository: it names files, and only known ones.
OfRepository(f) == f \in Finding /\ f.files \in Seq(RepoFiles) /\ f.files # <<>>

\* The findings that are handed on are those that were not rejected.
LEMMA ActionableAre ==
    ASSUME NEW S, NEW items \in Seq(S),
           \A i \in 1..Len(items) : OfRepository(items[i].finding)
    PROVE  LET fs == ActionableFindings(items)
           IN  /\ fs \in Seq(Finding)
               /\ \A i \in DOMAIN fs : /\ OfRepository(fs[i])
                                       /\ \E k \in DOMAIN items : /\ Actionable(items[k])
                                                                  /\ items[k].finding = fs[i]
<1> DEFINE T == {i \in DOMAIN items : Actionable(items[i])}
           c == Cardinality(T)
           kept == Kept(items, Actionable)
           fs == ActionableFindings(items)
<1>1. Len(items) \in Nat /\ DOMAIN items = 1..Len(items)
  OBVIOUS
<1>2. kept = [i \in 1..c |-> items[Numbered(T)[i]]]
  BY DEF Kept, Listed, Numbered
<1>3. T \in SUBSET (1..Len(items)) /\ \A k \in T : k \in DOMAIN items /\ Actionable(items[k])
  BY <1>1
<1> HIDE DEF T
<1>4. c \in Nat /\ \A i \in 1..c : Numbered(T)[i] \in T
  BY <1>1, <1>3, NumberedInOrder
<1> HIDE DEF c
<1>5. fs = [i \in 1..c |-> items[Numbered(T)[i]].finding]
  BY <1>2 DEF ActionableFindings
<1> HIDE DEF fs, kept
<1>6. \A i \in 1..c : /\ OfRepository(fs[i])
                      /\ \E k \in DOMAIN items : Actionable(items[k]) /\ items[k].finding = fs[i]
  BY <1>1, <1>3, <1>4, <1>5
<1>7. fs \in [1..c -> Finding]
  BY <1>5, <1>6 DEF OfRepository
<1>8. fs \in Seq(Finding) /\ DOMAIN fs = 1..c
  BY <1>4, <1>7
<1>9. QED
  BY <1>6, <1>8 DEF fs

\* A finding and its place in the triage.
LEMMA TriagedFields ==
    ASSUME NEW f \in Finding
    PROVE  /\ Triaged(f) \in TriageItem
           /\ Triaged(f).finding_rule = f.rule_id
           /\ Triaged(f).files = f.files
           /\ Triaged(f).priority = PriorityForScore(Triaged(f).score)
<1>1. f.rule_id \in Rules /\ f.severity \in Severities /\ f.files \in Seq(Files)
  BY DEF Finding
<1>2. SeverityScore[f.severity] \in Nat
  BY <1>1 DEF Severities, SeverityScore
<1>3. AtMost(5 * Len(f.files), 20) \in Nat
  <2>1. Len(f.files) \in Nat
    BY <1>1
  <2>2. QED
    BY <2>1 DEF AtMost
<1> DEFINE score == SeverityScore[f.severity] + AtMost(5 * Len(f.files), 20)
<1>4. score \in Nat
  BY <1>2, <1>3
<1>5. Triaged(f) = [finding_rule |-> f.rule_id, priority |-> PriorityForScore(score),
                    score |-> score, files |-> f.files]
  BY DEF Triaged
<1> HIDE DEF score
<1>6. PriorityForScore(score) \in Priorities
  BY DEF PriorityForScore, Priorities
<1>7. QED
  BY <1>1, <1>4, <1>5, <1>6 DEF TriageItem

\* What a triage is, whatever the findings: theirs, each once, from the most
\* urgent one on.
TriageSound(t, fs) ==
    /\ t \in Seq(TriageItem)
    /\ DOMAIN t = DOMAIN fs /\ Len(t) = Len(fs)
    /\ \A i \in DOMAIN t : \E j \in DOMAIN fs : t[i] = Triaged(fs[j])
    /\ \A j \in DOMAIN fs : \E i \in DOMAIN t : t[i] = Triaged(fs[j])
    /\ \A i, j \in DOMAIN t : i < j => t[i].score >= t[j].score
    /\ \A i \in DOMAIN t : t[i].priority = PriorityForScore(t[i].score)

\* The triage of findings is that.
LEMMA TriageOf ==
    ASSUME NEW fs \in Seq(Finding)
    PROVE  TriageSound(BuildTriage(fs), fs)
<1> DEFINE s == [i \in DOMAIN fs |-> Triaged(fs[i])]
           D == DOMAIN s
           ahead(j) == {k \in D : \/ TriagedBefore(s[k], s[j])
                                  \/ ~ TriagedBefore(s[j], s[k]) /\ k < j}
           p == [i \in D |-> CHOOSE j \in D : Cardinality(ahead(j)) = i - 1]
           t == BuildTriage(fs)
<1>1. Len(fs) \in Nat /\ DOMAIN fs = 1..Len(fs) /\ \A i \in DOMAIN fs : fs[i] \in Finding
  OBVIOUS
<1>2. \A i \in DOMAIN fs : s[i] = Triaged(fs[i]) /\ s[i] \in TriageItem
  BY <1>1, TriagedFields
<1>3. s \in Seq(TriageItem) /\ D = 1..Len(fs)
  BY <1>1, <1>2
<1>4. t = [i \in D |-> s[p[i]]]
  BY DEF BuildTriage, Sorted
<1> HIDE DEF s, t
<1>5. \A j \in D : ahead(j) = Ahead(Places(Triages, s), D, j)
  <2>1. SUFFICES ASSUME NEW j \in D
                 PROVE  ahead(j) = Ahead(Places(Triages, s), D, j)
    OBVIOUS
  <2>2. ASSUME NEW k \in D
        PROVE  k \in ahead(j) <=> k \in Ahead(Places(Triages, s), D, j)
    <3>1. s[k] \in TriageItem /\ s[j] \in TriageItem
      BY <1>3
    <3>2. /\ <<s[k], s[j]>> \in Triages <=> TriagedBefore(s[k], s[j])
          /\ <<s[j], s[k]>> \in Triages <=> TriagedBefore(s[j], s[k])
      BY <3>1, TwoTriages
    <3>3. <<k, j>> \in Places(Triages, s) <=> k \in ahead(j)
      BY <3>2, TwoPlaces DEF Precedes
    <3>4. QED
      BY <3>3 DEF Ahead
  <2>3. QED
    BY <2>2 DEF Ahead
<1>6. \A i \in D : /\ p[i] \in D
                   /\ Cardinality(Ahead(Places(Triages, s), D, p[i])) = i - 1
  <2>1. SUFFICES ASSUME NEW i \in D
                 PROVE  /\ p[i] \in D
                        /\ Cardinality(Ahead(Places(Triages, s), D, p[i])) = i - 1
    OBVIOUS
  <2>2. \E j \in D : Cardinality(ahead(j)) = i - 1
    <3> HIDE DEF ahead
    <3>1. \E j \in D : Cardinality(Ahead(Places(Triages, s), D, j)) = i - 1
      <4>1. s \in Seq(TriageItem) /\ i \in DOMAIN s
        BY <1>3
      <4> HIDE DEF D
      <4>2. \E j \in DOMAIN s : Cardinality(Ahead(Places(Triages, s), DOMAIN s, j)) = i - 1
        BY <4>1, TriageIsOrder, SortedIsDefined
      <4>3. QED
        BY <4>2 DEF D
    <3> HIDE DEF D
    <3>2. QED
      BY <1>5, <3>1
  <2>3. p[i] \in D /\ Cardinality(ahead(p[i])) = i - 1
    <3> HIDE DEF ahead, D
    <3>1. QED
      BY <2>2
  <2>4. QED
    BY <1>5, <2>3
<1> HIDE DEF p, ahead
<1>7. /\ \A k \in D : \E i \in D : p[i] = k
      /\ \A i, j \in D : i < j => <<s[p[j]], s[p[i]]>> \notin Triages
  <2>1. Sorting(p, Triages, s)
    BY <1>6 DEF Sorting
  <2>2. s \in Seq(TriageItem)
    BY <1>3
  <2> HIDE DEF D
  <2>3. /\ \A k \in DOMAIN s : \E i \in DOMAIN s : p[i] = k
        /\ \A i, j \in DOMAIN s : i < j => <<s[p[j]], s[p[i]]>> \notin Triages
    BY <2>1, <2>2, TriageIsOrder, SortedInOrder
  <2>4. QED
    BY <2>3 DEF D
<1>14. \A i \in D : s[i] \in TriageItem
  BY <1>3
<1>15. D = 1..Len(fs) /\ D = DOMAIN fs
  BY <1>1, <1>3
<1> HIDE DEF D
<1>8. \A i \in D : t[i] = s[p[i]] /\ p[i] \in D /\ t[i] \in TriageItem
  BY <1>4, <1>6, <1>14
<1>9. t \in Seq(TriageItem) /\ DOMAIN t = DOMAIN fs /\ Len(t) = Len(fs)
  <2>1. t \in [1..Len(fs) -> TriageItem]
    BY <1>4, <1>8, <1>15
  <2>2. QED
    BY <1>1, <2>1
<1>10. \A i \in DOMAIN t : \E j \in DOMAIN fs : t[i] = Triaged(fs[j])
  BY <1>2, <1>8, <1>9, <1>15
<1>11. \A j \in DOMAIN fs : \E i \in DOMAIN t : t[i] = Triaged(fs[j])
  <2>1. SUFFICES ASSUME NEW j \in DOMAIN fs
                 PROVE  \E i \in DOMAIN t : t[i] = Triaged(fs[j])
    OBVIOUS
  <2>2. PICK i \in D : p[i] = j
    BY <1>7, <1>15
  <2>3. i \in DOMAIN t /\ t[i] = s[j]
    BY <1>8, <1>9, <1>15, <2>2
  <2>4. QED
    BY <1>2, <2>3
<1>12. ASSUME NEW i \in DOMAIN t, NEW j \in DOMAIN t, i < j
       PROVE  t[i].score >= t[j].score
  <2>1. t[i] \in TriageItem /\ t[j] \in TriageItem /\ <<t[j], t[i]>> \notin Triages
    BY <1>7, <1>8, <1>9, <1>12, <1>15
  <2>2. ~ TriagedBefore(t[j], t[i])
    BY <2>1, TwoTriages
  <2>3. t[i].score \in Nat /\ t[j].score \in Nat
    BY <2>1 DEF TriageItem
  <2>4. QED
    BY <2>2, <2>3 DEF TriagedBefore
<1>13. \A i \in DOMAIN t : t[i].priority = PriorityForScore(t[i].score)
  BY <1>1, <1>10, TriagedFields
<1>16. QED
  BY <1>9, <1>10, <1>11, <1>12, <1>13 DEF TriageSound, t
-----------------------------------------------------------------------------
(* The plan.                                                               *)

\* What the plans of the rules and of the model rest on.
TriageOfRepository(t) ==
    /\ t \in Seq(TriageItem)
    /\ \A i \in DOMAIN t : t[i].files \in Seq(RepoFiles) /\ t[i].files # <<>>

\* A step of the plan: about a rule of the triage and files of the repository.
StepSound(step, t) ==
    /\ step.step_id \in 1..PlanWindow
    /\ step.finding_rule \in RulesOf(t)
    /\ step.files \in Seq(RepoFiles) /\ step.files # <<>>

\* The steps of a plan are in the window, and in their order.
StepsSound(steps, t) ==
    /\ \E n \in 0..PlanWindow : n = Len(steps) /\ DOMAIN steps = 1..n
    /\ \A i \in DOMAIN steps : StepSound(steps[i], t)
    /\ \A i, j \in DOMAIN steps : i < j => steps[i].step_id < steps[j].step_id

\* The smaller of a length and the window.
LEMMA AtMostType ==
    ASSUME NEW n \in Nat, NEW limit \in Nat
    PROVE  /\ AtMost(n, limit) \in Nat /\ AtMost(n, limit) <= n /\ AtMost(n, limit) <= limit
           /\ AtMost(n, limit) = n \/ AtMost(n, limit) = limit
BY DEF AtMost

\* The plan by rules: the first findings of the triage are its steps, the others
\* its backlog.
LEMMA PlanOfRules ==
    ASSUME NEW t, TriageOfRepository(t)
    PROVE  LET p == BuildActionPlan(t)
           IN  /\ StepsSound(p.steps, t)
               /\ Len(p.steps) = AtMost(Len(t), PlanWindow)
               /\ Len(p.backlog) = Len(t) - AtMost(Len(t), PlanWindow)
               /\ DOMAIN p.backlog = 1..(Len(t) - AtMost(Len(t), PlanWindow))
               /\ \A i \in DOMAIN p.steps :
                     i \in DOMAIN t /\ p.steps[i].priority = t[i].priority
               /\ \A i \in DOMAIN p.backlog :
                     /\ PlanWindow + i \in DOMAIN t
                     /\ p.backlog[i].priority = t[PlanWindow + i].priority
<1> DEFINE n == AtMost(Len(t), PlanWindow)
           m == Len(t) - n
           p == BuildActionPlan(t)
<1>1. /\ Len(t) \in Nat /\ DOMAIN t = 1..Len(t) /\ PlanWindow \in Nat \ {0}
      /\ \A i \in DOMAIN t : t[i] \in TriageItem
  BY PlannerAssumption DEF TriageOfRepository
<1>2. n \in Nat /\ n <= Len(t) /\ n <= PlanWindow /\ m \in Nat
      /\ (m = 0 \/ n = PlanWindow)
  <2>1. /\ n \in Nat /\ n <= Len(t) /\ n <= PlanWindow
        /\ n = Len(t) \/ n = PlanWindow
    BY <1>1, AtMostType
  <2>2. m = Len(t) - n
    OBVIOUS
  <2>3. Len(t) \in Nat
    BY <1>1
  <2> DEFINE k == Len(t)
  <2>4. m = k - n /\ k \in Nat /\ n <= k /\ (n = k \/ n = PlanWindow)
    BY <2>1, <2>2, <2>3
  <2> HIDE DEF n, m, k
  <2>5. m \in Nat
    BY <2>1, <2>4
  <2>6. m = 0 \/ n = PlanWindow
    BY <2>1, <2>4
  <2>7. QED
    BY <2>1, <2>5, <2>6
<1>3. /\ p.steps = [i \in 1..n |-> ConfigToStep(t[i], i)]
      /\ p.backlog = [i \in 1..m |-> [finding_rule |-> t[PlanWindow + i].finding_rule,
                                      priority |-> t[PlanWindow + i].priority]]
  BY DEF BuildActionPlan
<1> HIDE DEF n, m, p
<1>4. /\ p.steps \in Seq({ConfigToStep(t[i], i) : i \in 1..n})
      /\ Len(p.steps) = n /\ DOMAIN p.steps = 1..n
  BY <1>2, <1>3
<1>5. Len(p.backlog) = m /\ DOMAIN p.backlog = 1..m
  <2> DEFINE b(i) == [finding_rule |-> t[PlanWindow + i].finding_rule,
                      priority |-> t[PlanWindow + i].priority]
  <2>1. p.backlog = [i \in 1..m |-> b(i)]
    BY <1>3
  <2> HIDE DEF b
  <2>2. p.backlog \in Seq({b(i) : i \in 1..m})
    BY <1>2, <2>1
  <2>3. QED
    BY <1>2, <2>1, <2>2
<1>6. \A i \in 1..n : /\ i \in DOMAIN t
                      /\ p.steps[i].step_id = i
                      /\ p.steps[i].finding_rule = t[i].finding_rule
                      /\ p.steps[i].priority = t[i].priority
                      /\ p.steps[i].files = t[i].files
  BY <1>1, <1>2, <1>3 DEF ConfigToStep
<1>7. StepsSound(p.steps, t)
  <2>1. \A i \in DOMAIN p.steps : StepSound(p.steps[i], t)
    BY <1>1, <1>2, <1>4, <1>6 DEF StepSound, TriageOfRepository, RulesOf
  <2>2. \A i, j \in DOMAIN p.steps : i < j => p.steps[i].step_id < p.steps[j].step_id
    BY <1>4, <1>6
  <2>3. n \in 0..PlanWindow
    BY <1>1, <1>2
  <2>4. QED
    BY <1>4, <2>1, <2>2, <2>3 DEF StepsSound
<1>8. \A i \in 1..m : /\ PlanWindow + i \in DOMAIN t
                      /\ p.backlog[i].priority = t[PlanWindow + i].priority
  <2>1. SUFFICES ASSUME NEW i \in 1..m
                 PROVE  /\ PlanWindow + i \in DOMAIN t
                        /\ p.backlog[i].priority = t[PlanWindow + i].priority
    OBVIOUS
  <2>2. n = PlanWindow
    BY <1>2, <2>1
  <2>3. PlanWindow + i \in 1..Len(t)
    BY <1>1, <1>2, <2>1, <2>2 DEF m
  <2>4. QED
    BY <1>1, <1>3, <2>1, <2>3
<1>9. QED
  BY <1>4, <1>5, <1>6, <1>7, <1>8 DEF n, m, p

\* The last finding of a rule is one of the triage.
LEMMA TriageMapOf ==
    ASSUME NEW t, TriageOfRepository(t), NEW rule \in RulesOf(t)
    PROVE  \E i \in DOMAIN t : TriageMap(t, rule) = t[i]
<1> DEFINE T == {d \in Nat : \E i \in DOMAIN t : t[i].finding_rule = rule /\ d = Len(t) - i}
<1>1. Len(t) \in Nat /\ DOMAIN t = 1..Len(t)
  BY DEF TriageOfRepository
<1>2. T # {}
  <2>1. PICK i \in DOMAIN t : t[i].finding_rule = rule
    BY DEF RulesOf
  <2>2. Len(t) - i \in T
    BY <1>1, <2>1
  <2>3. QED
    BY <2>2
<1>3. PICK d \in T : \A e \in T : d <= e
  BY <1>2, SmallestNumber
<1>4. PICK i \in DOMAIN t : t[i].finding_rule = rule /\ d = Len(t) - i
  OBVIOUS
<1>5. ASSUME NEW j \in DOMAIN t, j > i
      PROVE  t[j].finding_rule # rule
  <2>1. SUFFICES ASSUME t[j].finding_rule = rule
                 PROVE  FALSE
    OBVIOUS
  <2>2. Len(t) - j \in T
    BY <1>1, <2>1
  <2>3. d <= Len(t) - j
    BY <1>3, <2>2
  <2>4. QED
    BY <1>1, <1>4, <1>5, <2>3
<1>6. \E k \in DOMAIN t : /\ t[k].finding_rule = rule
                          /\ \A j \in DOMAIN t : j > k => t[j].finding_rule # rule
  BY <1>4, <1>5
<1>7. QED
  BY <1>6 DEF TriageMap

\* The files a step falls back to are those of a finding of the triage.
LEMMA FallbackOf ==
    ASSUME NEW t, TriageOfRepository(t), NEW steps, StepsSound(steps, t),
           NEW rule \in RulesOf(t)
    PROVE  /\ FallbackFiles(steps, t, rule) \in Seq(RepoFiles)
           /\ FallbackFiles(steps, t, rule) # <<>>
<1> DEFINE ofRule == {i \in DOMAIN steps : steps[i].finding_rule = rule}
<1>1. CASE ofRule = {}
  <2>1. FallbackFiles(steps, t, rule) = TriageMap(t, rule).files
    BY <1>1 DEF FallbackFiles
  <2>2. QED
    BY <2>1, TriageMapOf DEF TriageOfRepository
<1>2. CASE ofRule # {}
  <2>1. ofRule \in SUBSET Nat
    BY DEF StepsSound
  <2> DEFINE first == CHOOSE i \in ofRule : \A j \in ofRule : i <= j
  <2>2. FallbackFiles(steps, t, rule) = steps[first].files
    BY <1>2 DEF FallbackFiles
  <2>3. \E i \in ofRule : \A j \in ofRule : i <= j
    <3> HIDE DEF ofRule
    <3>1. QED
      BY <1>2, <2>1, SmallestNumber
  <2>4. first \in ofRule
    <3> HIDE DEF ofRule
    <3>1. QED
      BY <2>3
  <2> HIDE DEF first
  <2>5. QED
    BY <2>2, <2>4 DEF StepsSound, StepSound
<1>3. QED
  BY <1>1, <1>2

\* A step of the model, made to fit, is sound.
LEMMA SanitizedStep ==
    ASSUME NEW t, TriageOfRepository(t), NEW steps, StepsSound(steps, t),
           NEW index \in 1..PlanWindow, NEW raw \in RawStep, Usable(raw, index, t, steps)
    PROVE  LET step == SanitizeStep(raw, index, t, steps)
           IN  StepSound(step, t) /\ step.step_id = index
<1> DEFINE rule == IF raw.finding_rule \in RulesOf(t) THEN raw.finding_rule
                   ELSE steps[index].finding_rule
           known == IF raw.files = Junk THEN <<>>
                    ELSE Kept(raw.files, LAMBDA f : f \in RepoFiles)
           step == SanitizeStep(raw, index, t, steps)
<1>1. rule \in RulesOf(t)
  <2>1. CASE raw.finding_rule \in RulesOf(t)
    BY <2>1
  <2>2. CASE raw.finding_rule \notin RulesOf(t)
    <3>1. index <= Len(steps)
      BY <2>2 DEF Usable
    <3>2. index \in DOMAIN steps
      BY <3>1 DEF StepsSound
    <3>3. QED
      BY <2>2, <3>2 DEF StepsSound, StepSound
  <2>3. QED
    BY <2>1, <2>2
<1>2. known \in Seq(RepoFiles)
  <2>1. CASE raw.files = Junk
    BY <2>1
  <2>2. CASE raw.files # Junk
    <3> DEFINE fs == raw.files
               T == {i \in DOMAIN fs : fs[i] \in RepoFiles}
               c == Cardinality(T)
    <3>1. Len(fs) \in Nat /\ DOMAIN fs = 1..Len(fs)
      BY <2>2 DEF RawStep
    <3>2. known = [i \in 1..c |-> fs[Numbered(T)[i]]]
      BY <2>2 DEF Kept, Listed, Numbered
    <3>3. T \in SUBSET (1..Len(fs)) /\ \A i \in T : fs[i] \in RepoFiles
      BY <3>1
    <3> HIDE DEF T, fs, known
    <3>4. c \in Nat /\ \A i \in 1..c : Numbered(T)[i] \in T
      BY <3>1, <3>3, NumberedInOrder
    <3> HIDE DEF c
    <3>5. known \in [1..c -> RepoFiles]
      BY <3>2, <3>3, <3>4
    <3>6. QED
      BY <3>4, <3>5
  <2>3. QED
    BY <2>1, <2>2
<1>3. /\ step.step_id = index
      /\ step.finding_rule = rule
      /\ step.files = IF known = <<>> THEN FallbackFiles(steps, t, rule) ELSE known
  BY DEF SanitizeStep
<1> HIDE DEF rule, known, step
<1>4. step.files \in Seq(RepoFiles) /\ step.files # <<>>
  BY <1>1, <1>2, <1>3, FallbackOf
<1>5. QED
  BY <1>1, <1>3, <1>4 DEF StepSound, step

\* The plan of the model, made to fit, is sound, too.
LEMMA PlanOfModel ==
    ASSUME NEW t, TriageOfRepository(t), NEW raw \in RawPlan
    PROVE  StepsSound(SanitizeActionPlan(raw, t).steps, t)
<1> DEFINE byRules == BuildActionPlan(t).steps
           list == raw.steps
           limit == AtMost(Len(list), PlanWindow)
           indexes == [i \in 1..limit |-> i]
           T == {k \in DOMAIN indexes : Usable(list[indexes[k]], indexes[k], t, byRules)}
           c == Cardinality(T)
           steps == SanitizeSteps(list, t, byRules)
<1>1. StepsSound(byRules, t)
  BY PlanOfRules
<1>2. SanitizeActionPlan(raw, t).steps \in {byRules, steps}
        /\ (SanitizeActionPlan(raw, t).steps # byRules => list # Junk)
  BY DEF SanitizeActionPlan
<1>3. CASE list # Junk
  <2>1. list \in Seq(RawStep \cup {Junk}) /\ Len(list) \in Nat
    BY <1>3 DEF RawPlan
  <2>2. limit \in Nat /\ limit <= Len(list) /\ limit <= PlanWindow
    BY <2>1, AtMostType, PlannerAssumption
  <2> HIDE DEF limit
  <2>3. T \in SUBSET (1..limit)
    OBVIOUS
  <2>4. /\ c \in Nat /\ c <= limit
        /\ \A k \in 1..c : Numbered(T)[k] \in T
        /\ \A j, k \in 1..c : j < k => Numbered(T)[j] < Numbered(T)[k]
    <3> HIDE DEF T
    <3>1. QED
      BY <2>2, <2>3, NumberedInOrder
  <2>5. Kept(indexes, LAMBDA i : Usable(list[i], i, t, byRules))
            = [k \in 1..c |-> indexes[Numbered(T)[k]]]
    BY DEF Kept, Listed, Numbered
  <2>6. \A k \in T : indexes[k] = k /\ Usable(list[k], k, t, byRules) /\ k \in 1..limit
    OBVIOUS
  <2> DEFINE kept == Kept(indexes, LAMBDA i : Usable(list[i], i, t, byRules))
  <2>7. steps = [k \in DOMAIN kept |-> SanitizeStep(list[kept[k]], kept[k], t, byRules)]
    BY DEF SanitizeSteps, limit
  <2> HIDE DEF kept, T, c, indexes, byRules
  <2>8. DOMAIN kept = 1..c /\ \A k \in 1..c : kept[k] = Numbered(T)[k]
    BY <2>4, <2>5, <2>6 DEF kept
  <2>9. steps = [k \in 1..c |-> SanitizeStep(list[kept[k]], kept[k], t, byRules)]
    BY <2>7, <2>8
  <2> HIDE DEF steps
  <2>10. ASSUME NEW k \in 1..c
         PROVE  StepSound(steps[k], t) /\ steps[k].step_id = Numbered(T)[k]
    <3>1. kept[k] \in 1..limit /\ Usable(list[kept[k]], kept[k], t, byRules)
      BY <2>4, <2>6, <2>8
    <3>2. kept[k] \in 1..PlanWindow /\ list[kept[k]] \in RawStep
      <4>1. kept[k] \in 1..Len(list) /\ kept[k] \in 1..PlanWindow
        BY <2>1, <2>2, <3>1, PlannerAssumption
      <4>2. list[kept[k]] \in RawStep \cup {Junk} /\ list[kept[k]] # Junk
        BY <2>1, <3>1, <4>1 DEF Usable
      <4>3. QED
        BY <4>1, <4>2
    <3>3. steps[k] = SanitizeStep(list[kept[k]], kept[k], t, byRules)
      BY <2>9
    <3>4. QED
      BY <1>1, <2>8, <3>1, <3>2, <3>3, SanitizedStep
  <2>11. Len(steps) = c /\ DOMAIN steps = 1..c
    <3>1. steps \in Seq({SanitizeStep(list[kept[k]], kept[k], t, byRules) : k \in 1..c})
      BY <2>4, <2>9
    <3>2. QED
      BY <2>4, <2>9, <3>1
  <2>12. c \in 0..PlanWindow
    BY <2>2, <2>4, PlannerAssumption
  <2>13. StepsSound(steps, t)
    BY <2>4, <2>10, <2>11, <2>12 DEF StepsSound
  <2>14. QED
    BY <1>1, <1>2, <2>13
<1>4. QED
  BY <1>1, <1>2, <1>3
-----------------------------------------------------------------------------
(* What every plan keeps to.                                               *)

\* The plan that is published is sound with respect to the triage.
PlanInv ==
    /\ findings \in FindingLists
    /\ Planned => StepsSound(plan.steps, triage)

\* The triage is that of the findings that were not rejected, all of them of
\* the repository.
LEMMA TriageWorksFrom ==
    ASSUME PipelineInv, findings \in FindingLists, pc \notin {"validator", "triage", "crashed"}
    PROVE  /\ TriageOfRepository(triage)
           /\ TriageSound(triage, ActionableFindings(validated))
           /\ \A i \in DOMAIN triage : \E k \in DOMAIN validated :
                 /\ Actionable(validated[k])
                 /\ validated[k].finding.rule_id = triage[i].finding_rule
<1> DEFINE fs == ActionableFindings(validated)
<1>1. triage = BuildTriage(fs)
  BY DEF PipelineInv, PlanningSound
<1>2. PICK S : validated \in Seq(S)
  BY DEF PipelineInv, VerdictsSound
<1>3. \A i \in 1..Len(validated) : OfRepository(validated[i].finding)
  <2>1. SUFFICES ASSUME NEW i \in 1..Len(validated)
                 PROVE  OfRepository(validated[i].finding)
    OBVIOUS
  <2>2. validated[i].finding = findings[i] /\ i \in DOMAIN findings /\ findings[i] \in Finding
    BY <1>2 DEF PipelineInv, VerdictsSound
  <2>3. QED
    BY <2>2, PipelineAssumption DEF OfRepository
<1>4. /\ fs \in Seq(Finding)
      /\ \A i \in DOMAIN fs : /\ OfRepository(fs[i])
                              /\ \E k \in DOMAIN validated : /\ Actionable(validated[k])
                                                             /\ validated[k].finding = fs[i]
  BY <1>2, <1>3, ActionableAre
<1> HIDE DEF fs
<1>5. TriageSound(triage, fs)
  BY <1>1, <1>4, TriageOf
<1>6. ASSUME NEW i \in DOMAIN triage
      PROVE  \E j \in DOMAIN fs : /\ triage[i].finding_rule = fs[j].rule_id
                                  /\ triage[i].files = fs[j].files
  <2>1. PICK j \in DOMAIN fs : triage[i] = Triaged(fs[j])
    BY <1>5 DEF TriageSound
  <2>2. fs[j] \in Finding
    BY <1>4 DEF OfRepository
  <2>3. QED
    BY <2>1, <2>2, TriagedFields
<1>7. TriageOfRepository(triage)
  BY <1>4, <1>5, <1>6 DEF TriageOfRepository, TriageSound, OfRepository
<1>8. QED
  BY <1>4, <1>5, <1>6, <1>7 DEF fs

\* The program starts without a plan.
LEMMA PlanInitial ==
    ASSUME Init
    PROVE  PlanInv
BY DEF Init, PlanInv, Planned

\* Every step keeps it.
LEMMA PlanStepInv ==
    ASSUME PipelineInv, PlanInv, [Next]_vars
    PROVE  PlanInv'
<1>1. findings' = findings
  BY DEF Next, ValidateByRules, ValidateWithModel, ValidationCallFails, FinishValidation, Triage,
         PlanByRules, PlanWithModel, PlanningCallFails, ReviewByRules, ReviewWithModel,
         ReviewCallFails, CallRaisesTwice, PolicyFileRaises, vars, input
<1>2. ASSUME pc = "planner"
      PROVE  TriageOfRepository(triage)
  BY <1>2, TriageWorksFrom DEF PlanInv
<1>3. ASSUME PlanByRules \/ PlanningCallFails
      PROVE  PlanInv'
  <2>1. pc = "planner" /\ plan' = BuildActionPlan(triage) /\ triage' = triage
    BY <1>3 DEF PlanByRules, PlanningCallFails, FallBackToRules
  <2>2. StepsSound(plan'.steps, triage)
    BY <1>2, <2>1, PlanOfRules
  <2>3. QED
    BY <1>1, <2>1, <2>2 DEF PlanInv
<1>4. ASSUME PlanWithModel
      PROVE  PlanInv'
  <2>1. PICK raw \in LlmPlans : plan' = SanitizeActionPlan(raw, triage)
    BY <1>4 DEF PlanWithModel
  <2>2. pc = "planner" /\ triage' = triage /\ raw \in RawPlan
    BY <1>4, PipelineAssumption DEF PlanWithModel
  <2>3. StepsSound(plan'.steps, triage)
    BY <1>2, <2>1, <2>2, PlanOfModel
  <2>4. QED
    BY <1>1, <2>2, <2>3 DEF PlanInv
<1>5. ASSUME ReviewByRules \/ ReviewWithModel \/ ReviewCallFails \/ UNCHANGED vars
      PROVE  PlanInv'
  <2>1. plan' = plan /\ triage' = triage /\ (Planned' => Planned)
    BY <1>5 DEF ReviewByRules, ReviewWithModel, ReviewCallFails, vars, planning, Planned
  <2>2. QED
    BY <1>1, <2>1 DEF PlanInv
<1>6. ASSUME \/ ValidateByRules \/ ValidateWithModel \/ ValidationCallFails \/ FinishValidation
             \/ Triage \/ CallRaisesTwice \/ PolicyFileRaises
      PROVE  PlanInv'
  <2>1. ~ Planned'
    BY <1>6 DEF ValidateByRules, ValidateWithModel, ValidationCallFails, FinishValidation, Triage,
                CallRaisesTwice, PolicyFileRaises, ToValidate, Planned
  <2>2. QED
    BY <1>1, <2>1 DEF PlanInv
<1>7. QED
  BY <1>3, <1>4, <1>5, <1>6 DEF Next

\* The invariant holds throughout.
LEMMA PlanInvariant == Spec => [](PipelineInv /\ PlanInv)
<1>1. Init => PlanInv
  BY PlanInitial
<1>2. PipelineInv /\ PlanInv /\ [Next]_vars => PlanInv'
  BY PlanStepInv
<1>3. QED
  BY <1>1, <1>2, PipelineInvariant, PTL DEF Spec

\* Whatever plan the model proposes, no step is about rules of which the
\* validator rejected every finding.
THEOREM RejectedIsNeverPlanned == Spec => []RejectedNeverPlanned
<1>1. ASSUME PipelineInv, PlanInv
      PROVE  RejectedNeverPlanned
  <2>1. SUFFICES ASSUME Planned, NEW s \in DOMAIN plan.steps
                 PROVE  \E i \in DOMAIN validated :
                           /\ Actionable(validated[i])
                           /\ validated[i].finding.rule_id = plan.steps[s].finding_rule
    BY DEF RejectedNeverPlanned
  <2>2. plan.steps[s].finding_rule \in RulesOf(triage)
    BY <1>1, <2>1 DEF PlanInv, StepsSound, StepSound
  <2>3. PICK i \in DOMAIN triage : triage[i].finding_rule = plan.steps[s].finding_rule
    BY <2>2 DEF RulesOf
  <2>4. QED
    BY <1>1, <2>1, <2>3, TriageWorksFrom DEF PlanInv, Planned
<1>2. QED
  BY <1>1, PlanInvariant, PTL

\* Every plan stays inside the repository and inside the window.
THEOREM PlansStayInside == Spec => []PlanStaysInside
<1>1. ASSUME PipelineInv, PlanInv
      PROVE  PlanStaysInside
  <2>1. SUFFICES ASSUME Planned
                 PROVE  /\ Len(plan.steps) <= PlanWindow
                        /\ \A i, j \in DOMAIN plan.steps :
                              i < j => plan.steps[i].step_id < plan.steps[j].step_id
                        /\ \A i \in DOMAIN plan.steps :
                              /\ plan.steps[i].step_id \in 1..PlanWindow
                              /\ FilesOf(plan.steps[i]) # {}
                              /\ FilesOf(plan.steps[i]) \subseteq RepoFiles
    BY DEF PlanStaysInside
  <2>2. StepsSound(plan.steps, triage)
    BY <1>1, <2>1 DEF PlanInv
  <2>3. ASSUME NEW i \in DOMAIN plan.steps
        PROVE  /\ FilesOf(plan.steps[i]) # {}
               /\ FilesOf(plan.steps[i]) \subseteq RepoFiles
    <3> DEFINE fs == plan.steps[i].files
    <3>1. fs \in Seq(RepoFiles) /\ fs # <<>>
      BY <2>2 DEF StepsSound, StepSound
    <3>2. FilesOf(plan.steps[i]) = {fs[k] : k \in DOMAIN fs}
      BY DEF FilesOf
    <3> HIDE DEF fs
    <3>3. 1 \in DOMAIN fs /\ \A k \in DOMAIN fs : fs[k] \in RepoFiles
      BY <3>1
    <3>4. QED
      BY <3>2, <3>3
  <2>4. Len(plan.steps) <= PlanWindow
    BY <2>2, PlannerAssumption DEF StepsSound
  <2>5. QED
    BY <2>2, <2>3, <2>4 DEF StepsSound, StepSound
<1>2. QED
  BY <1>1, PlanInvariant, PTL

\* A higher score is at least as urgent.
LEMMA UrgencyFollowsScore ==
    ASSUME NEW a \in Nat, NEW b \in Nat, a >= b
    PROVE  Urgency[PriorityForScore(a)] <= Urgency[PriorityForScore(b)]
<1>1. Urgency["P0"] = 0 /\ Urgency["P1"] = 1 /\ Urgency["P2"] = 2
  BY DEF Urgency
<1>2. QED
  BY <1>1 DEF PriorityForScore

\* A plan by rules takes the worst findings, and loses none of the others.
THEOREM WorstComeFirst == Spec => []WorstFirst
<1>1. ASSUME PipelineInv, PlanInv
      PROVE  WorstFirst
  <2>1. SUFFICES ASSUME Planned, planMode = "deterministic_fallback"
                 PROVE  /\ Len(plan.steps) + Len(plan.backlog)
                               = Len(ActionableFindings(validated))
                        /\ \A i \in DOMAIN plan.steps, j \in DOMAIN plan.backlog :
                              Urgency[plan.steps[i].priority]
                                  <= Urgency[plan.backlog[j].priority]
    BY DEF WorstFirst
  <2>2. plan = BuildActionPlan(triage)
    BY <1>1, <2>1 DEF PipelineInv, PlanningSound, Planned
  <2>3. /\ TriageOfRepository(triage)
        /\ TriageSound(triage, ActionableFindings(validated))
    BY <1>1, <2>1, TriageWorksFrom DEF PlanInv, Planned
  <2>4. /\ StepsSound(plan.steps, triage)
        /\ Len(plan.steps) = AtMost(Len(triage), PlanWindow)
        /\ Len(plan.backlog) = Len(triage) - AtMost(Len(triage), PlanWindow)
        /\ DOMAIN plan.backlog = 1..(Len(triage) - AtMost(Len(triage), PlanWindow))
        /\ \A i \in DOMAIN plan.steps :
              i \in DOMAIN triage /\ plan.steps[i].priority = triage[i].priority
        /\ \A i \in DOMAIN plan.backlog :
              /\ PlanWindow + i \in DOMAIN triage
              /\ plan.backlog[i].priority = triage[PlanWindow + i].priority
    BY <2>2, <2>3, PlanOfRules
  <2>5. /\ Len(triage) \in Nat /\ PlanWindow \in Nat
        /\ AtMost(Len(triage), PlanWindow) \in Nat
    <3>1. Len(triage) \in Nat
      BY <2>3 DEF TriageOfRepository
    <3>2. PlanWindow \in Nat
      BY PlannerAssumption
    <3>3. QED
      BY <3>1, <3>2, AtMostType
  <2>6. Len(plan.steps) + Len(plan.backlog) = Len(ActionableFindings(validated))
    BY <2>3, <2>4, <2>5 DEF TriageSound
  <2>7. ASSUME NEW i \in DOMAIN plan.steps, NEW j \in DOMAIN plan.backlog
        PROVE  Urgency[plan.steps[i].priority] <= Urgency[plan.backlog[j].priority]
    <3> DEFINE a == triage[i]
               b == triage[PlanWindow + j]
    <3>1. i \in DOMAIN triage /\ PlanWindow + j \in DOMAIN triage /\ i < PlanWindow + j
      <4>1. i \in Nat /\ i <= PlanWindow /\ j \in Nat /\ j >= 1
        BY <2>4, <2>5 DEF StepsSound
      <4>2. QED
        BY <2>4, <2>5, <4>1
    <3>2. a.score >= b.score
      BY <2>3, <3>1 DEF TriageSound
    <3>3. \A k \in DOMAIN triage : /\ triage[k].score \in Nat
                                   /\ triage[k].priority = PriorityForScore(triage[k].score)
      <4>1. TAKE k \in DOMAIN triage
      <4>2. triage[k] \in TriageItem
        BY <2>3 DEF TriageOfRepository
      <4>3. triage[k].score \in Nat
        BY <4>2 DEF TriageItem
      <4>4. triage[k].priority = PriorityForScore(triage[k].score)
        BY <2>3 DEF TriageSound
      <4>5. QED
        BY <4>3, <4>4
    <3>4. /\ plan.steps[i].priority = PriorityForScore(a.score)
          /\ plan.backlog[j].priority = PriorityForScore(b.score)
      BY <2>4, <3>1, <3>3
    <3>5. a.score \in Nat /\ b.score \in Nat
      BY <3>1, <3>3
    <3> HIDE DEF a, b
    <3>6. QED
      BY <3>2, <3>4, <3>5, UrgencyFollowsScore
  <2>8. QED
    BY <2>6, <2>7
<1>2. QED
  BY <1>1, PlanInvariant, PTL
=============================================================================
