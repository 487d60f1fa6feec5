--------------------------- MODULE MCHealthCheck ---------------------------
(***************************************************************************)
(* The variables of the program and one more for a key of its own; models  *)
(* set in the process, in the registry and in the file, and one edit of    *)
(* the registry at any moment.                                             *)
(***************************************************************************)
EXTENDS HealthCheck

MCNames == {"ENABLE_LIVE_AGENTS", "DASHSCOPE_API_KEY", "DASHSCOPE_BASE_URL",
            "BAILIAN_BASE_URL", "DASHSCOPE_MODEL", "BAILIAN_MODEL", "CODER_MODEL",
            "PLANNER_MODEL", "OTHER_KEY"}
MCValues == {"deepseek", "coder", "off", "blank"}
MCDefaultModels == [k \in ModelKeys |-> IF k = "coder" THEN "coder" ELSE "deepseek"]

NothingSet == [n \in MCNames |-> "none"]

Entries(kind) ==
    [kind |-> kind, api_key_env |-> "junk", base_url_env |-> "junk",
     base_url_env_aliases |-> "junk", models |-> [k \in ModelKeys |-> "junk"]]

MCConfigFiles ==
    {Entries("absent"), Entries("raising"),
     [Entries("object") EXCEPT !.api_key_env = "OTHER_KEY",
          !.base_url_env_aliases = <<"BAILIAN_BASE_URL", "OTHER_KEY">>],
     [Entries("object") EXCEPT !.models["critic"] = "coder", !.base_url_env_aliases = <<>>]}

WithKey == [NothingSet EXCEPT !["DASHSCOPE_API_KEY"] = "deepseek"]

MCProcesses ==
    {NothingSet, WithKey,
     [WithKey EXCEPT !["ENABLE_LIVE_AGENTS"] = "off"],
     [WithKey EXCEPT !["PLANNER_MODEL"] = "blank", !["OTHER_KEY"] = "deepseek"],
     [NothingSet EXCEPT !["OTHER_KEY"] = "deepseek"]}

MCRegistries ==
    {[l \in Layers |-> NothingSet],
     [user |-> [NothingSet EXCEPT !["BAILIAN_MODEL"] = "coder"],
      machine |-> [WithKey EXCEPT !["PLANNER_MODEL"] = "coder"]]}
=============================================================================
