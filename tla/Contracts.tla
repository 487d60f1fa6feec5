----------------------------- MODULE Contracts -----------------------------
(***************************************************************************)
(* The data the agents hand to one another (agents/contracts.py) reduced   *)
(* to the fields that decide something: free text (titles, rationales,     *)
(* success criteria, rollback conditions) is left out.                     *)
(***************************************************************************)
EXTENDS Naturals, Sequences

CONSTANTS
    Files,      \* relative paths of repository files
    Junk        \* any JSON value that fails the type test the code applies

Rules == {"RULE_A", "RULE_B", "RULE_C", "RULE_D", "RULE_E", "RULE_F", "RULE_G"}

Severities == {"high", "medium", "low"}

Priorities == {"P0", "P1", "P2"}

RiskLevels == {"low", "medium", "high"}

CriticStatuses == {"approved", "needs_review", "blocked"}

(***************************************************************************)
(* A finding of the rules engine.  evidence says what the validator looks  *)
(* for in its lines: nothing at all, some line, or a line with the word    *)
(* "high" or with a number of mutations.                                   *)
(***************************************************************************)
Finding == [rule_id : Rules, severity : Severities, files : Seq(Files),
            evidence : {"none", "plain", "strong"}]

(***************************************************************************)
(* A plan step.  files is a list: the planner keeps the repetitions of a   *)
(* language model's answer and len(files) counts them.  executing says     *)
(* that the step carries one of the keys that ask for automatic execution. *)
(***************************************************************************)
PlanStep == [step_id : Nat, finding_rule : Rules, priority : Priorities,
             files : Seq(Files), executing : BOOLEAN]

\* The checks a critic may ask for; "other" stands for any further text.
ReviewChecks == {"python -m unittest", "targeted regression tests", "other"}

CriticReview == [status : CriticStatuses, blocked : BOOLEAN,
                 risk_level : RiskLevels, required_checks : SUBSET ReviewChecks,
                 protected_files : SUBSET Files]

\* common/helpers.py: the usable entries of a list, or the fallback when the
\* value is no list or none of its entries is a non-blank string.
StringList(value, fallback) ==
    IF value \in {Junk, {}} THEN fallback ELSE value

\* The files a step names, without their order and their repetitions.
FilesOf(step) == {step.files[i] : i \in DOMAIN step.files}
=============================================================================
