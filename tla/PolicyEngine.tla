---------------------------- MODULE PolicyEngine ----------------------------
(***************************************************************************)
(* policy/engine.py: the deterministic policy over an action plan.  The    *)
(* configuration file is read again on every evaluation.                   *)
(***************************************************************************)
EXTENDS Contracts, FiniteSets

CONSTANTS
    Keywords,        \* protected path keywords
    UserPaths,       \* paths a user may protect
    DefaultKeywords, \* the keywords used when the file gives no list
    DefaultMaxFiles, \* _DEFAULT_MAX_FILES_PER_STEP
    Contains,        \* [Files -> SUBSET Keywords]: substrings of the lower-cased path
    Under            \* [Files -> SUBSET UserPaths]: equal to, or a prefix up to "/", of the path

ASSUME PolicyAssumption ==
    /\ DefaultKeywords \subseteq Keywords
    /\ DefaultMaxFiles \in Nat
    /\ Contains \in [Files -> SUBSET Keywords]
    /\ Under \in [Files -> SUBSET UserPaths]

(***************************************************************************)
(* What config/policy_config.json can hold.  "absent": no file, no access  *)
(* or no JSON.  "raising": JSON on which loading raises (a number that     *)
(* int() refuses, a document that is no object).  "object": a JSON object, *)
(* whose two lists are Junk when they are missing or no lists.             *)
(***************************************************************************)
PolicyFile == [kind : {"absent", "raising", "object"},
               protected_path_keywords : (SUBSET Keywords) \cup {Junk},
               user_protected_paths : (SUBSET UserPaths) \cup {Junk},
               max_files_per_step : Nat]

DefaultConfig == [protected_path_keywords |-> DefaultKeywords,
                  user_protected_paths |-> {},
                  max_files_per_step |-> DefaultMaxFiles]

LoadPolicyConfig(file) ==
    IF file.kind # "object" THEN DefaultConfig
    ELSE [protected_path_keywords |->
              IF file.protected_path_keywords = Junk
              THEN DefaultKeywords ELSE file.protected_path_keywords,
          user_protected_paths |->
              IF file.user_protected_paths = Junk
              THEN {} ELSE file.user_protected_paths,
          max_files_per_step |-> file.max_files_per_step]

LoadRaises(file) == file.kind = "raising"

IsProtected(f, config) ==
    \/ Contains[f] \cap config.protected_path_keywords # {}
    \/ Under[f] \cap config.user_protected_paths # {}

PolicyResult == [protected_files : SUBSET Files, oversized_steps : SUBSET Nat]

\* No plan has been evaluated.
NoPolicy == [protected_files |-> {}, oversized_steps |-> {}]

EvaluatePlan(plan, file) ==
    LET config == LoadPolicyConfig(file)
    IN  [protected_files |->
             {f \in Files : /\ \E i \in DOMAIN plan : f \in FilesOf(plan[i])
                            /\ IsProtected(f, config)},
         oversized_steps |->
             {plan[i].step_id : i \in {j \in DOMAIN plan :
                 Len(plan[j].files) > config.max_files_per_step}}]
=============================================================================
