--------------------------- MODULE ModuleReviews ---------------------------
(***************************************************************************)
(* agents/module_report_agent.py: modules are ranked, the most urgent ones *)
(* are reviewed in three independent calls each, and cards are made.       *)
(***************************************************************************)
EXTENDS ModuleInventory

CONSTANTS
    Repos,      \* the repositories of the instance
    Findings,   \* lists of findings: severity and files of each
    Histories,  \* changes per file in the last commits
    WeightFiles, \* contents of config/priority_weights.json
    Answers,    \* what the model may answer, for each part of a review
    MaxDetailed, \* MAX_DETAILED_MODULE_REPORTS
    Junk        \* a field that is missing or holds a value not allowed

\* The weights of a file are numbers: int() makes them whole, and what it
\* cannot convert is "odd".
ASSUME ReviewsAssumption ==
    /\ MaxDetailed \in Nat
    /\ \A r \in Repos : /\ r.files \in Seq(SourceFile)
                       /\ r.edges \subseteq (DOMAIN r.files) \X (DOMAIN r.files)
    /\ \A fs \in Findings :
          fs \in Seq([severity : {"high", "medium", "low"}, files : Seq(Nat)])
    /\ \A history \in Histories, r \in Repos : history \in [DOMAIN r.files -> Nat]
    /\ \A file \in WeightFiles :
          /\ file.kind \in WeightFileKinds
          /\ file.kind = "object" =>
                \A k \in DOMAIN file.weights : file.weights[k] \in Int

VARIABLES
    pc,
    repo, findings,
    model,       \* a client and the assignments of all three roles are there
    hotness,     \* _collect_git_hotness
    weightsFile,
    weights,     \* _CACHED_WEIGHTS
    inventory,
    part,        \* the call to make for the current module; 0 between modules
    current,     \* its review so far
    reviews,
    calls,       \* the calls made so far, with their outcome
    cards        \* the heavyweight cards

input == <<repo, findings, model>>
ranking == <<hotness, weightsFile, weights, inventory>>
reviewing == <<part, current, reviews, calls>>
vars == <<pc, input, ranking, reviewing, cards>>

Parts == <<"validator", "planner", "critic">>

NotLoaded == [k \in {} |-> 0]

Detailed == DetailedModules(inventory, MaxDetailed)

\* VALIDATOR_STATUSES, CRITIC_STATUSES and the like.
Allowed ==
    [validator |-> {"confirmed", "needs_review", "rejected"},
     planner |-> {"yes", "defer"},
     critic |-> {"approved", "needs_review", "blocked"}]

Level(priority) ==
    CASE priority = "P0" -> "high" [] priority = "P1" -> "medium" [] OTHER -> "low"

ValidatorByRules(item) ==
    [verdict |-> IF item.priority = "P0" \/ item.metrics.finding_count > 0
                 THEN "confirmed" ELSE "needs_review",
     level |-> IF item.priority = "P0" THEN "high" ELSE "medium"]

PlannerByRules(item) ==
    [verdict |-> IF item.priority \in {"P0", "P1"} THEN "yes" ELSE "defer",
     level |-> Level(item.priority)]

CriticByRules(item) ==
    [verdict |-> IF \/ item.metrics.matching_test_file_count = 0
                    \/ item.metrics.cross_layer_dependency_count > 0
                    \/ item.metrics.upstream_count >= 4
                 THEN "needs_review" ELSE "approved",
     level |-> Level(item.priority)]

\* The three parts of a review by rules; "verdict" and "level" stand for
\* confirmation and confidence, change and priority, review status and risk.
DeterministicReview(item) ==
    [validator |-> ValidatorByRules(item),
     planner |-> PlannerByRules(item),
     critic |-> CriticByRules(item)]

\* _sanitize_module_*_review: each field falls back on its own.
SanitizeReview(name, answer, fallback) ==
    [verdict |-> IF answer.verdict \in Allowed[name] THEN answer.verdict
                 ELSE fallback.verdict,
     level |-> IF answer.level \in {"high", "medium", "low"} THEN answer.level
               ELSE fallback.level]

Mode(successes) ==
    IF successes = 3 THEN "llm"
    ELSE IF successes > 0 THEN "hybrid" ELSE "deterministic_fallback"
-----------------------------------------------------------------------------
(* The inventory.                                                          *)

\* git answers; or there is no history, git is missing, fails or times out.
CollectGitHotness ==
    /\ pc = "hotness"
    /\ hotness' \in Histories \cup {[i \in DOMAIN repo.files |-> 0]}
    /\ pc' = "rank"
    /\ UNCHANGED <<input, weightsFile, weights, inventory, reviewing, cards>>

Unranked == ModulesOf(repo) \ {inventory[i].module : i \in DOMAIN inventory}

\* The modules in the order of their names.
NextModule == CHOOSE m \in Unranked : \A n \in Unranked : m <= n

\* Deviation: the file is read again for every module.
RankModuleReloading ==
    /\ pc = "rank"
    /\ Unranked # {}
    /\ weightsFile.kind # "odd"
    /\ weights' = LoadPriorityWeights(weightsFile)
    /\ inventory' = Append(inventory,
           InventoryItem(repo, findings, hotness, weights', NextModule))
    /\ UNCHANGED <<pc, input, hotness, weightsFile, reviewing, cards>>

\* The weights are read with the first module and kept for the others.
RankModule ==
    /\ pc = "rank"
    /\ Unranked # {}
    /\ weights = NotLoaded => weightsFile.kind # "odd"
    /\ weights' = IF weights = NotLoaded THEN LoadPriorityWeights(weightsFile) ELSE weights
    /\ inventory' = Append(inventory,
           InventoryItem(repo, findings, hotness, weights', NextModule))
    /\ UNCHANGED <<pc, input, hotness, weightsFile, reviewing, cards>>

\* Only an unreadable file and a syntax error are caught.
WeightsRaise ==
    /\ pc = "rank"
    /\ Unranked # {}
    /\ weights = NotLoaded
    /\ weightsFile.kind = "odd"
    /\ pc' = "crashed"
    /\ UNCHANGED <<input, ranking, reviewing, cards>>

SortInventory ==
    /\ pc = "rank"
    /\ Unranked = {}
    /\ inventory' = Sorted(inventory, MoreUrgent)
    /\ pc' = "review"
    /\ UNCHANGED <<input, hotness, weightsFile, weights, reviewing, cards>>

\* A user edits the file; later edits are left out, nobody would read them.
EditWeights ==
    /\ pc \in {"hotness", "rank"}
    /\ weightsFile' \in WeightFiles \ {weightsFile}
    /\ UNCHANGED <<pc, input, hotness, weights, inventory, reviewing, cards>>
-----------------------------------------------------------------------------
(* The deep reviews and the cards.                                         *)

BetweenModules ==
    /\ pc = "review"
    /\ part = 0
    /\ Len(reviews) < Len(Detailed)

Entry == Detailed[Len(reviews) + 1]

ReviewOf(item, parts, mode, errors) ==
    [module |-> item.module, parts |-> parts, mode |-> mode, errors |-> errors]

ReviewByRules ==
    /\ BetweenModules
    /\ ~ model
    /\ reviews' = Append(reviews,
           ReviewOf(Entry, DeterministicReview(Entry), "deterministic_fallback", <<>>))
    /\ UNCHANGED <<pc, input, ranking, part, current, calls, cards>>

\* Deviation: the answers of all modules are counted together.
StartReviewCountingOn ==
    /\ BetweenModules
    /\ model
    /\ current' = [current EXCEPT !.parts = DeterministicReview(Entry), !.errors = <<>>]
    /\ part' = 1
    /\ UNCHANGED <<pc, input, ranking, reviews, calls, cards>>

StartReview ==
    /\ BetweenModules
    /\ model
    /\ current' = [parts |-> DeterministicReview(Entry), llm_successes |-> 0, errors |-> <<>>]
    /\ part' = 1
    /\ UNCHANGED <<pc, input, ranking, reviews, calls, cards>>

Calling == pc = "review" /\ part \in DOMAIN Parts

Called(outcome) ==
    calls' = Append(calls, [module |-> Entry.module, part |-> Parts[part],
                            outcome |-> outcome])

CallAnswered ==
    /\ Calling
    /\ \E answer \in Answers[Parts[part]] :
          current' = [current EXCEPT
              !.parts[Parts[part]] = SanitizeReview(Parts[part], answer, @),
              !.llm_successes = @ + 1]
    /\ Called("answered")
    /\ part' = part + 1
    /\ UNCHANGED <<pc, input, ranking, reviews, cards>>

\* The call fails, or its answer cannot be sanitized.
CallFails ==
    /\ Calling
    /\ current' = [current EXCEPT !.errors = Append(@, Parts[part])]
    /\ Called("failed")
    /\ part' = part + 1
    /\ UNCHANGED <<pc, input, ranking, reviews, cards>>

\* The description of the failure raises in the except clause.
CallRaises ==
    /\ Calling
    /\ Called("failed")
    /\ pc' = "crashed"
    /\ UNCHANGED <<input, ranking, part, current, reviews, cards>>

FinishReview ==
    /\ pc = "review"
    /\ part = Len(Parts) + 1
    /\ reviews' = Append(reviews,
           ReviewOf(Entry, current.parts, Mode(current.llm_successes), current.errors))
    /\ part' = 0
    /\ UNCHANGED <<pc, input, ranking, current, calls, cards>>

\* build_module_heavyweight_cards looks the review of each module up by name.
BuildCards ==
    /\ pc = "review"
    /\ part = 0
    /\ Len(reviews) = Len(Detailed)
    /\ cards' = [m \in {Detailed[i].module : i \in DOMAIN Detailed} |->
                    CHOOSE r \in {reviews[i] : i \in DOMAIN reviews} : r.module = m]
    /\ pc' = "done"
    /\ UNCHANGED <<input, ranking, reviewing>>

Init ==
    /\ pc = "hotness"
    /\ repo \in Repos
    /\ findings \in Findings
    /\ model \in BOOLEAN
    /\ hotness = [i \in DOMAIN repo.files |-> 0]
    /\ weightsFile \in WeightFiles
    /\ weights = NotLoaded
    /\ inventory = <<>>
    /\ part = 0
    /\ current = [parts |-> [name \in {} |-> ""], llm_successes |-> 0, errors |-> <<>>]
    /\ reviews = <<>>
    /\ calls = <<>>
    /\ cards = [m \in {} |-> ""]

Next ==
    \/ CollectGitHotness \/ RankModule \/ WeightsRaise \/ SortInventory
    \/ EditWeights
    \/ ReviewByRules \/ StartReview
    \/ CallAnswered \/ CallFails \/ CallRaises \/ FinishReview
    \/ BuildCards

Spec == Init /\ [][Next]_vars
-----------------------------------------------------------------------------
(* Properties.                                                             *)

\* All modules of an analysis are ranked by the same weights, even when a
\* user edits the file while they are ranked.
RankedAlike ==
    \E file \in WeightFiles :
        \A i \in DOMAIN inventory :
            inventory[i].score =
                PriorityScore(Metrics(repo, findings, hotness, inventory[i].module),
                              LoadPriorityWeights(file))

ItemOf(m) == CHOOSE item \in {inventory[i] : i \in DOMAIN inventory} : item.module = m

\* Whoever goes without a card is no more urgent than anyone with one, in
\* priority and in score; and a module with a file of a high finding only goes
\* without when all cards went to modules of the highest priority.
NobodyIsPassedOver ==
    pc = "done" =>
        \A m \in ModulesOf(repo) \ DOMAIN cards :
            /\ \A c \in DOMAIN cards :
                  /\ PriorityOrder[ItemOf(c).priority] <= PriorityOrder[ItemOf(m).priority]
                  /\ ItemOf(c).priority = ItemOf(m).priority =>
                         ItemOf(c).score >= ItemOf(m).score
            /\ (\E f \in DOMAIN findings : \E j \in DOMAIN findings[f].files :
                    /\ findings[f].severity = "high"
                    /\ findings[f].files[j] \in FilesOf(repo, m))
               => /\ Cardinality(DOMAIN cards) = MaxDetailed
                  /\ \A c \in DOMAIN cards : ItemOf(c).priority = "P0"

AnsweredFor(m) ==
    {calls[i].part : i \in {j \in DOMAIN calls :
                               calls[j].module = m /\ calls[j].outcome = "answered"}}

\* The mode of a review, and of the card made from it, says who wrote it: the
\* model all of it, some of it or nothing.  A part whose call failed is the
\* one by rules and leaves an error; no failure spoils another part, and no
\* module borrows answers from another.
ModeTellsTheAuthor ==
    \A i \in DOMAIN reviews :
        LET r == reviews[i]
            answered == AnsweredFor(r.module)
            silent == {"validator", "planner", "critic"} \ answered
        IN  /\ r.mode = "llm" <=> silent = {}
            /\ r.mode = "deterministic_fallback" <=> answered = {}
            /\ \A name \in silent :
                  r.parts[name] = DeterministicReview(ItemOf(r.module))[name]
            /\ model => {r.errors[j] : j \in DOMAIN r.errors} = silent
            /\ r.module \in DOMAIN cards => cards[r.module] = r
=============================================================================
