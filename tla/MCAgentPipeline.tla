-------------------------- MODULE MCAgentPipeline --------------------------
(***************************************************************************)
(* A window of two steps; up to three findings, of rules that are          *)
(* confirmed, that are left to a human, that occur twice and that touch a  *)
(* protected file; answers of the model that follow the rules, that        *)
(* contradict them and that are partly or wholly unusable.                 *)
(***************************************************************************)
EXTENDS AgentPipeline

CONSTANTS plain, other, secret, foreign

MCFiles == {plain, other, secret, foreign}
MCRepoFiles == {plain, other, secret}
MCFileRank == [f \in MCFiles |-> CASE f = foreign -> 1 [] f = other -> 2
                                   [] f = plain -> 3 [] f = secret -> 4]
MCKeywords == {"keyword"}
MCContains == [f \in MCFiles |-> IF f = secret THEN {"keyword"} ELSE {}]
MCUnder == [f \in MCFiles |-> {}]

MCFinding(rule, severity, files, evidence) ==
    [rule_id |-> rule, severity |-> severity, files |-> files, evidence |-> evidence]

A == MCFinding("RULE_A", "high", <<plain>>, "strong")
D1 == MCFinding("RULE_D", "medium", <<plain>>, "strong")
D2 == MCFinding("RULE_D", "medium", <<secret>>, "strong")
E == MCFinding("RULE_E", "medium", <<other, plain>>, "plain")
G == MCFinding("RULE_G", "medium", <<other>>, "plain")

\* In the order the rules engine sorts them.
MCFindingLists == {<<>>, <<G>>, <<D1, D2>>, <<A, D2, G>>, <<A, D2, E>>, <<D1, D2, E>>}

MCInventories == {[parse_errors |-> FALSE, has_tests |-> t] : t \in BOOLEAN}

MCPolicyFiles ==
    {[kind |-> "object", protected_path_keywords |-> {"keyword"},
      user_protected_paths |-> {}, max_files_per_step |-> 1],
     [kind |-> "absent", protected_path_keywords |-> Junk,
      user_protected_paths |-> Junk, max_files_per_step |-> 1],
     [kind |-> "raising", protected_path_keywords |-> Junk,
      user_protected_paths |-> Junk, max_files_per_step |-> 1]}

MCLoadable == {file \in MCPolicyFiles : ~ LoadRaises(file)}

MCLlmVerdicts == [status : {"confirmed", "rejected", Junk}, confidence : {"low", Junk}]

MCRawStep(rule, priority, files) ==
    [finding_rule |-> rule, priority |-> priority, files |-> files]

MCRawSteps ==
    {Junk, MCRawStep("RULE_G", "P0", <<plain, plain>>), MCRawStep("RULE_D", Junk, Junk),
     MCRawStep(Junk, "P2", <<foreign, secret>>), MCRawStep("RULE_C", Junk, <<Junk>>)}

MCBacklogs ==
    {Junk, <<>>,
     <<Junk, [finding_rule |-> "", priority |-> "P0"],
       [finding_rule |-> Junk, priority |-> "P1"],
       [finding_rule |-> "RULE_E", priority |-> Junk]>>}

MCLlmPlans ==
    [steps : {Junk, <<>>} \cup {<<a, b, c>> : a, b \in MCRawSteps, c \in {Junk}}
             \cup {<<a, MCRawStep("RULE_G", "P0", <<other>>),
                     MCRawStep("RULE_A", "P1", <<other>>)>> : a \in MCRawSteps},
     backlog : MCBacklogs]

MCAnswer(status, blocked, risk, required) ==
    [status |-> status, blocked |-> blocked, risk_level |-> risk,
     required_checks |-> required]

MCLlmReviews ==
    {MCAnswer("approved", FALSE, "low", {"other"}), MCAnswer(Junk, TRUE, Junk, Junk),
     MCAnswer("needs_review", FALSE, "high", {})}
=============================================================================
