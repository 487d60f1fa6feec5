-------------------------- MODULE MCModuleReviews --------------------------
(***************************************************************************)
(* Four modules in five files, of which at most two are reviewed: an       *)
(* interface that reads the database, a state module of two files, shared  *)
(* helpers and tests that match all but the interface.                     *)
(***************************************************************************)
EXTENDS ModuleReviews

Counts(imports, env, db, global) ==
    [import_count |-> imports, definition_count |-> 1, env_read_count |-> env,
     db_signal_count |-> db, global_risk_count |-> global]

File(m, layer, counts) == [module |-> m, layer |-> layer, counts |-> counts]

MCFiles(db) ==
    <<File(1, "interface", Counts(1, 0, db, 0)),
      File(2, "state", Counts(0, 1, 0, 1)),
      File(2, "domain", Counts(0, 0, 0, 1)),
      File(3, "shared", Counts(0, 0, 0, 0)),
      File(4, "test", Counts(1, 0, 0, 0))>>

MCRepos ==
    {[files |-> MCFiles(db),
      edges |-> {<<1, 2>>, <<1, 4>>, <<2, 3>>, <<5, 4>>},
      named |-> {<<2, 5>>, <<3, 5>>, <<4, 5>>}] : db \in {0, 1}}

Finding(severity, files) == [severity |-> severity, files |-> files]

MCFindings ==
    {<<>>, <<Finding("medium", <<2, 3>>)>>, <<Finding("high", <<3, 4>>)>>}

MCHistories == {<<0, 0, 2, 7, 1>>}

MCWeightFiles ==
    {[kind |-> "absent"], [kind |-> "damaged"], [kind |-> "odd"],
     [kind |-> "object", weights |-> [no_test_penalty |-> 0, git_change_cap |-> 5]]}

MCAnswers ==
    [validator |-> {[verdict |-> "rejected", level |-> Junk],
                    [verdict |-> Junk, level |-> "low"]},
     planner |-> {[verdict |-> "defer", level |-> "low"]},
     critic |-> {[verdict |-> "blocked", level |-> Junk],
                 [verdict |-> "approved", level |-> "low"]}]
=============================================================================
