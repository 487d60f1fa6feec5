--------------------------- MODULE ValidatorAgent ---------------------------
(***************************************************************************)
(* agents/validator_agent.py: the verdict on one finding, by rules or by a *)
(* language model whose answer fills in what it is entitled to.            *)
(***************************************************************************)
EXTENDS Contracts, Ordering

ConfirmationStatus == {"confirmed", "needs_review", "rejected"}
ConfidenceLevels == {"high", "medium", "low"}

\* A validated finding: the finding, the verdict and where it came from.
ValidatedItem == [finding : Finding, status : ConfirmationStatus,
                  confidence : ConfidenceLevels,
                  source : {"llm", "deterministic_fallback"},
                  needs_human_review : BOOLEAN]

\* An answer of the language model; one that is unhashable raises instead.
LlmVerdict == [status : ConfirmationStatus \cup {Junk},
               confidence : ConfidenceLevels \cup {Junk}]

DeterministicConfidence(f) ==
    LET n == Len(f.files)
    IN  CASE f.rule_id \in {"RULE_A", "RULE_D"} ->
                 IF f.evidence = "strong" THEN "high" ELSE "medium"
          [] f.rule_id = "RULE_B" -> IF n >= 4 THEN "high" ELSE "medium"
          [] f.rule_id = "RULE_C" -> IF n >= 5 THEN "medium" ELSE "low"
          [] f.rule_id = "RULE_E" -> "medium"
          [] OTHER -> "low"

NeedsHumanReview(status, confidence) == status # "confirmed" \/ confidence = "low"

Verdict(f, status, confidence, source) ==
    [finding |-> f, status |-> status, confidence |-> confidence,
     source |-> source, needs_human_review |-> NeedsHumanReview(status, confidence)]

DeterministicValidation(f) ==
    LET confidence == DeterministicConfidence(f)
    IN  IF f.evidence = "none" \/ f.files = <<>>
        THEN Verdict(f, "rejected", "low", "deterministic_fallback")
        ELSE Verdict(f, IF confidence = "low" THEN "needs_review" ELSE "confirmed",
                     confidence, "deterministic_fallback")

\* _sanitize_validation_response merged over the verdict by rules.
LlmValidation(f, answer) ==
    LET rules == DeterministicValidation(f)
    IN  Verdict(f,
                IF answer.status = Junk THEN rules.status ELSE answer.status,
                IF answer.confidence = Junk THEN rules.confidence ELSE answer.confidence,
                "llm")

Actionable(item) == item.status \in {"confirmed", "needs_review"}

\* Deviation: rejected findings are planned for as well.
AllFindings(validated) == [i \in DOMAIN validated |-> validated[i].finding]

\* actionable_findings_artifact: the findings that are planned for, in order.
ActionableFindings(validated) ==
    LET kept == Kept(validated, Actionable)
    IN  [i \in DOMAIN kept |-> kept[i].finding]

\* Deviation: no answer is a fallback, also when nothing was asked.
GenerationModeNoneFirst(successes, total) ==
    IF successes = 0 THEN "deterministic_fallback"
    ELSE IF successes = total THEN "llm" ELSE "hybrid"

\* generation_mode, from the number of live answers and of findings.
GenerationMode(successes, total) ==
    IF successes = total THEN "llm"
    ELSE IF successes > 0 THEN "hybrid" ELSE "deterministic_fallback"
=============================================================================
