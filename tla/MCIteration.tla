---------------------------- MODULE MCIteration ----------------------------
(***************************************************************************)
(* Runs of the program over one output directory, with two files, a plan   *)
(* for each, a policy file that protects one of them and one that protects *)
(* none, and answers of the language model that approve and that block.    *)
(***************************************************************************)
EXTENDS Iteration

CONSTANTS plain, secret

MCFiles == {plain, secret}
MCKeywords == {"keyword"}
MCContains == [f \in MCFiles |-> IF f = secret THEN {"keyword"} ELSE {}]
MCUnder == [f \in MCFiles |-> {}]

MCPlans ==
    {<<>>} \cup
    {<<[step_id |-> 1, finding_rule |-> "RULE_A", priority |-> "P0",
        files |-> <<f>>, executing |-> FALSE]>> : f \in MCFiles}

MCPolicyFiles ==
    {[kind |-> "object", protected_path_keywords |-> k,
      user_protected_paths |-> {}, max_files_per_step |-> 1] :
         k \in {{}, {"keyword"}}}

MCReviews == CriticReview

\* Without tests every plan has a concern.
MCInventories == {[parse_errors |-> FALSE, has_tests |-> FALSE]}

MCAnswer(status, blocked, risk) ==
    [status |-> status, blocked |-> blocked, risk_level |-> risk,
     required_checks |-> Junk]

\* An approval the rules do not share.
MCLlmReviews == {MCAnswer("approved", FALSE, "low")}

\* An approval that warns, and one that contradicts itself.
MCWarnings == {MCAnswer("approved", FALSE, "high"), MCAnswer("approved", TRUE, Junk)}
=============================================================================
