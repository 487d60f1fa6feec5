---------------------------- MODULE CriticAgent ----------------------------
(***************************************************************************)
(* agents/critic_agent.py: the review of an action plan, first by rules,   *)
(* then by a language model whose answer is reduced to what the policy     *)
(* allows.                                                                 *)
(***************************************************************************)
EXTENDS PolicyEngine

RepoInventory == [parse_errors : BOOLEAN, has_tests : BOOLEAN]

\* An answer of the language model, as far as the sanitizer reads it.  A
\* status or risk level that is a list or an object makes the set lookup
\* raise: that is a failed call, not an answer.
LlmReview == [status : CriticStatuses \cup {Junk}, blocked : BOOLEAN,
              risk_level : RiskLevels \cup {Junk},
              required_checks : (SUBSET ReviewChecks) \cup {Junk}]

RulesAskingForTests == {"RULE_A", "RULE_D", "RULE_E"}

\* Why a plan may need a review by a human: each disjunct adds a concern.
HasConcerns(plan, inventory, policyResult) ==
    \/ policyResult.protected_files # {}
    \/ policyResult.oversized_steps # {}
    \/ inventory.parse_errors
    \/ ~ inventory.has_tests /\ plan # <<>>

ChecksFor(plan) ==
    {"python -m unittest"} \cup
    (IF \E i \in DOMAIN plan : plan[i].finding_rule \in RulesAskingForTests
     THEN {"targeted regression tests"} ELSE {})

DeterministicReview(plan, inventory, policyResult) ==
    LET blocked == policyResult.protected_files # {}
        open == HasConcerns(plan, inventory, policyResult)
        urgent == \E i \in DOMAIN plan : plan[i].priority = "P0"
    IN  [status |-> IF blocked THEN "blocked"
                    ELSE IF open THEN "needs_review" ELSE "approved",
         blocked |-> blocked,
         risk_level |-> IF blocked \/ (open /\ urgent) THEN "high"
                        ELSE IF ~ open /\ plan = <<>> THEN "low" ELSE "medium",
         required_checks |-> ChecksFor(plan),
         protected_files |-> policyResult.protected_files]

\* Deviation: the answer of the model stands as it is.
TrustReview(answer, deterministic, policyResult) ==
    [status |-> IF answer.status = Junk THEN deterministic.status ELSE answer.status,
     blocked |-> answer.blocked,
     risk_level |-> IF answer.risk_level = Junk THEN deterministic.risk_level
                    ELSE answer.risk_level,
     required_checks |->
         StringList(answer.required_checks, deterministic.required_checks),
     protected_files |-> policyResult.protected_files]

\* _sanitize_critic_review: the policy result overrules the answer, the rules
\* only fill what the answer leaves open.
SanitizeReview(answer, deterministic, policyResult) ==
    LET protected == policyResult.protected_files # {}
        blocked == answer.blocked \/ protected
    IN  [status |-> IF protected THEN "blocked"
                    ELSE IF answer.status = Junk THEN deterministic.status
                    ELSE answer.status,
         blocked |-> blocked,
         risk_level |-> IF blocked THEN "high"
                        ELSE IF answer.risk_level = Junk
                        THEN deterministic.risk_level
                        ELSE answer.risk_level,
         required_checks |->
             StringList(answer.required_checks, deterministic.required_checks)
                 \cup deterministic.required_checks,
         protected_files |-> policyResult.protected_files]

\* run_critic_agent: without a client, or after a failed call, the review by
\* rules; else the sanitized answer.
CriticReviews(plan, inventory, policyResult, answers) ==
    LET deterministic == DeterministicReview(plan, inventory, policyResult)
    IN  {deterministic} \cup
        {SanitizeReview(a, deterministic, policyResult) : a \in answers}
=============================================================================
