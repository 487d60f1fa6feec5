---------------------------- MODULE MCGateRunner ----------------------------
(***************************************************************************)
(* A small instance of the gate runner: three files (one plain, one whose  *)
(* path holds a keyword, one under a path a user may protect), plans that  *)
(* are harmless, protected, too large or executing, and every kind of      *)
(* policy file.                                                            *)
(***************************************************************************)
EXTENDS GateRefinement

CONSTANTS plain, secret, mine

MCFiles == {plain, secret, mine}
MCKeywords == {"keyword"}
MCUserPaths == {"user_path"}
MCContains == [f \in MCFiles |-> IF f = secret THEN {"keyword"} ELSE {}]
MCUnder == [f \in MCFiles |-> IF f = mine THEN {"user_path"} ELSE {}]

MCStep(files, executing) ==
    [step_id |-> 1, finding_rule |-> "RULE_A", priority |-> "P0",
     files |-> files, executing |-> executing]

MCPlans == {<<>>} \cup
    {<<MCStep(files, FALSE)>> : files \in {<<plain>>, <<plain, plain>>,
                                           <<secret>>, <<mine>>}}
    \cup {<<MCStep(<<plain>>, TRUE)>>}

MCReviews == [status : CriticStatuses, blocked : {FALSE}, risk_level : {"high"},
              required_checks : {{}}, protected_files : {{}}]

MCPolicyFiles ==
    {[kind |-> "raising", protected_path_keywords |-> {},
      user_protected_paths |-> {}, max_files_per_step |-> 1],
     [kind |-> "object", protected_path_keywords |-> {},
      user_protected_paths |-> {"user_path"}, max_files_per_step |-> 1],
     [kind |-> "object", protected_path_keywords |-> Junk,
      user_protected_paths |-> Junk, max_files_per_step |-> 2]}
=============================================================================
