---------------------------- MODULE ModelRouting ----------------------------
(***************************************************************************)
(* llm/env.py and llm/catalog.py: which model serves which role.  The      *)
(* program asks one question after the other of its environment; a         *)
(* question names a variable and the aliases that may stand in for it.     *)
(* A variable is looked for in the process and, on Windows, in the two     *)
(* registry keys, which other programs may edit at any time.  What was     *)
(* found, or that nothing was found, is kept for the life of the process.  *)
(***************************************************************************)
EXTENDS Naturals, Sequences, FiniteSets

CONSTANTS
    Names,       \* names of environment variables
    Values,      \* non-empty texts a variable or an entry of the file may hold
    OffValues,   \* those that mean off: "0", "false", "no", "off"
    BlankValues, \* those of white space only
    Absent,      \* None: the variable is not set, or it is empty
    Junk,        \* an entry that is missing, no string or list, or blank
    DefaultModels, \* DEFAULT_CONFIG["models"]
    ConfigFiles, \* what config/agent_models.json may hold
    Processes,   \* the environments the program may be started in
    Registries,  \* what the two registry keys may hold at the start
    MaxEdits     \* bound: the number of edits of the registry

ModelKeys == {"planner", "validator", "critic", "coder", "summary"}
Layers == {"user", "machine"}
Environment == [Names -> Values \cup {Absent}]

ConfigFile ==
    [kind : {"absent", "unreadable", "object", "raising"},
     api_key_env : Names \cup {Junk}, base_url_env : Names \cup {Junk},
     base_url_env_aliases : Seq(Names) \cup {Junk},
     models : [ModelKeys -> Values \cup {Junk}]]

ASSUME RoutingAssumption ==
    /\ {"ENABLE_LIVE_AGENTS", "DASHSCOPE_API_KEY", "DASHSCOPE_BASE_URL",
        "BAILIAN_BASE_URL", "DASHSCOPE_MODEL", "BAILIAN_MODEL", "CODER_MODEL",
        "PLANNER_MODEL"} \subseteq Names
    /\ IsFiniteSet(Names) /\ Cardinality(Names) <= 64 \* lru_cache(maxsize=64)
    /\ Absent \notin Values /\ Junk \notin Values \cup Names \cup Seq(Names)
    /\ OffValues \subseteq Values /\ BlankValues \subseteq Values \ OffValues
    /\ DefaultModels \in [ModelKeys -> Values \ BlankValues]
    /\ ConfigFiles \subseteq ConfigFile
    /\ Processes \subseteq Environment
    /\ Registries \subseteq [Layers -> Environment]
    /\ MaxEdits \in Nat

VARIABLES
    configFile,
    process,   \* os.environ of the process
    winreg,    \* the module winreg is there
    registry,  \* the two registry keys
    edits,     \* edits of the registry so far
    config,    \* load_agent_model_config()
    cache,     \* the cache of resolve_env: the names looked for so far
    asked,     \* number of questions answered
    answers,   \* the answer to each of them
    missed,    \* names of the question at hand that were not set
    layer      \* where its next name is looked for

environment == <<configFile, process, winreg, registry, edits>>
question == <<asked, answers, missed>>
routingVars == <<environment, config, cache, question, layer>>
-----------------------------------------------------------------------------
(* The configuration file.                                                 *)

DefaultConfig ==
    [api_key_env |-> "DASHSCOPE_API_KEY", base_url_env |-> "DASHSCOPE_BASE_URL",
     base_url_env_aliases |-> <<"BAILIAN_BASE_URL">>, models |-> DefaultModels]

\* _pick_text
Pick(entry, fallback) == IF entry = Junk THEN fallback ELSE entry

\* _pick_string_list: a list without a usable entry counts as none.
PickList(entry, fallback) == IF entry = Junk \/ entry = <<>> THEN fallback ELSE entry

\* load_agent_model_config of a file that does not raise.
LoadedConfig(file) ==
    IF file.kind # "object" THEN DefaultConfig
    ELSE [api_key_env |-> Pick(file.api_key_env, DefaultConfig.api_key_env),
          base_url_env |-> Pick(file.base_url_env, DefaultConfig.base_url_env),
          base_url_env_aliases |->
              PickList(file.base_url_env_aliases, DefaultConfig.base_url_env_aliases),
          models |-> [k \in ModelKeys |-> Pick(file.models[k], DefaultModels[k])]]

\* A list, a null where an object is expected, or bytes that are no UTF-8.
ConfigRaises(file) == file.kind = "raising"
-----------------------------------------------------------------------------
(* The questions, in the order the program asks them.                      *)

\* The roles with a variable of their own, and the entry of the file for each.
RoleEnv(role) ==
    IF role = "refactor_and_test_fix" THEN "CODER_MODEL" ELSE "PLANNER_MODEL"

RoleKey(role) ==
    CASE role = "finding_validation" -> "validator"
      [] role = "critic_review" -> "critic"
      [] role = "refactor_and_test_fix" -> "coder"
      [] role = "summary_and_pr_copy" -> "summary"
      [] OTHER -> "planner"

\* _resolve_model asks for the general model first, _resolve_general_model for
\* nothing else; each assignment resolves its model twice.
RoleTopics(role) ==
    <<<<role, "logical_model", "general">>, <<role, "logical_model", "own">>,
      <<role, "api_model", "general">>, <<role, "api_model", "own">>>>

Topics ==
    \* _provider and the policy
    <<<<"provider", "base_url">>, <<"provider", "configured">>,
      <<"provider", "DASHSCOPE_MODEL">>, <<"provider", "BAILIAN_MODEL">>,
      <<"provider", "CODER_MODEL">>, <<"provider", "PLANNER_MODEL">>,
      <<"policy", "flag">>>>
    \* the assignments
    \o RoleTopics("governor_orchestration") \o RoleTopics("planner_triage_review")
    \o RoleTopics("finding_validation") \o RoleTopics("critic_review")
    \o RoleTopics("refactor_and_test_fix")
    \o <<<<"summary_and_pr_copy", "logical_model", "general">>,
         <<"summary_and_pr_copy", "api_model", "general">>>>
    \* run_llm_health_check and build_bailian_client
    \o <<<<"health", "flag">>, <<"client", "key">>, <<"client", "base_url">>,
         <<"client", "flag">>>>

\* The variable a question is about, and its aliases.
NamesOf(topic) ==
    CASE topic = <<"provider", "base_url">> ->
             <<config.base_url_env>> \o config.base_url_env_aliases
      [] topic = <<"provider", "configured">> -> <<config.api_key_env>>
      [] topic[1] = "provider" /\ topic[2] \notin {"base_url", "configured"} -> <<topic[2]>>
      [] topic[2] = "flag" -> <<"ENABLE_LIVE_AGENTS">>
      [] topic = <<"client", "key">> -> <<"DASHSCOPE_API_KEY">>
      [] topic = <<"client", "base_url">> -> <<"DASHSCOPE_BASE_URL", "BAILIAN_BASE_URL">>
      [] Len(topic) = 3 /\ topic[3] = "general" -> <<"DASHSCOPE_MODEL", "BAILIAN_MODEL">>
      [] OTHER -> <<RoleEnv(topic[1])>>

\* build_bailian_client asks for the flag only when there is a key.
Asking ==
    /\ asked < Len(Topics)
    /\ Topics[asked + 1] = <<"client", "flag">> => answers[<<"client", "key">>] # Absent

Topic == Topics[asked + 1]
Name == NamesOf(Topic)[missed + 1]

\* env_value_with_aliases: a name that is set answers the question, and so does
\* None when no alias is left.
Conclude(value) ==
    IF value # Absent \/ missed + 1 = Len(NamesOf(Topic))
    THEN /\ answers' = [t \in DOMAIN answers \cup {Topic} |->
                           IF t = Topic THEN value ELSE answers[t]]
         /\ asked' = asked + 1
         /\ missed' = 0
    ELSE /\ missed' = missed + 1
         /\ UNCHANGED <<asked, answers>>
-----------------------------------------------------------------------------
(* resolve_env.                                                            *)

\* Deviation: only a variable that was found is remembered.
RememberIfSet(value) ==
    /\ cache' = IF value = Absent THEN cache
                ELSE [n \in DOMAIN cache \cup {Name} |->
                         IF n = Name THEN value ELSE cache[n]]
    /\ layer' = "process"
    /\ Conclude(value)

\* lru_cache keeps the result, also when nothing was found.
Remember(value) ==
    /\ cache' = [n \in DOMAIN cache \cup {Name} |->
                    IF n = Name THEN value ELSE cache[n]]
    /\ layer' = "process"
    /\ Conclude(value)

LookUpCached ==
    /\ Asking
    /\ Name \in DOMAIN cache
    /\ Conclude(cache[Name])
    /\ UNCHANGED <<environment, config, cache, layer>>

\* The process comes first; without winreg there is nothing else.
ReadProcess ==
    /\ Asking
    /\ Name \notin DOMAIN cache
    /\ layer = "process"
    /\ IF process[Name] # Absent \/ ~ winreg
       THEN Remember(process[Name])
       ELSE layer' = "user" /\ UNCHANGED <<cache, question>>
    /\ UNCHANGED <<environment, config>>

\* _read_windows_env of the user, then of the machine: two separate reads.
ReadRegistry ==
    /\ Asking
    /\ Name \notin DOMAIN cache
    /\ layer \in Layers
    /\ IF registry[layer][Name] # Absent \/ layer = "machine"
       THEN Remember(registry[layer][Name])
       ELSE layer' = "machine" /\ UNCHANGED <<cache, question>>
    /\ UNCHANGED <<environment, config>>

\* Another program sets or removes a variable while the questions are asked.
EditRegistry ==
    /\ winreg
    /\ Asking
    /\ edits < MaxEdits
    /\ \E l \in Layers, n \in Names, value \in Values \cup {Absent} :
          registry' = [registry EXCEPT ![l][n] = value]
    /\ edits' = edits + 1
    /\ UNCHANGED <<configFile, process, winreg, config, cache, question, layer>>

RoutingInit ==
    /\ configFile \in ConfigFiles
    /\ process \in Processes
    /\ winreg \in BOOLEAN
    /\ registry \in Registries
    /\ edits = 0
    /\ config = DefaultConfig
    /\ cache = [n \in {} |-> Absent]
    /\ asked = 0
    /\ answers = [t \in {} |-> Absent]
    /\ missed = 0
    /\ layer = "process"

\* A step of resolve_env for the program, or of another program.
Resolve == LookUpCached \/ ReadProcess \/ ReadRegistry \/ EditRegistry
-----------------------------------------------------------------------------
(* What the answers decide.                                                *)

Configured == answers[<<"provider", "configured">>] # Absent

\* env_flag("ENABLE_LIVE_AGENTS", default=True), as answered then.
FlagOn(topic) == answers[topic] \notin OffValues

\* policy.external_llm_calls_enabled of the routing.
LiveEnabled == FlagOn(<<"policy", "flag">>) /\ Configured

FirstOf(a, b) == IF a # Absent THEN a ELSE b

\* _resolve_general_model and _resolve_model.
ModelOf(role, field) ==
    LET general == FirstOf(answers[<<role, field, "general">>],
                           config.models[RoleKey(role)])
    IN  IF role = "summary_and_pr_copy" THEN general
        ELSE FirstOf(answers[<<role, field, "own">>], general)

Answered == DOMAIN answers

\* The registry may change between two questions, but all answers one process
\* ever gets are those of one environment: questions about the same variables
\* have the same answer, whoever asks them, and a variable that is set overrides
\* its aliases in every question.
OneEnvironment ==
    LET names == [t \in Answered |-> NamesOf(t)]
        values == {<<names[t], answers[t]>> : t \in Answered}
    IN  /\ \A p, q \in values : p[1] = q[1] => p[2] = q[2]
        /\ \A p, q \in values :
              q[1] = <<p[1][1]>> /\ q[2] # Absent => p[2] = q[2]
=============================================================================
