-------------------------- MODULE ModuleInventory --------------------------
(***************************************************************************)
(* agents/module_report_agent.py: modules, their metrics and how urgent    *)
(* they are.  A module is the number of its name in the order of names.    *)
(***************************************************************************)
EXTENDS Ordering, Integers, FiniteSetsExt, Functions

\* What the scanners count in one file.
Counted == {"import_count", "definition_count", "env_read_count",
            "db_signal_count", "global_risk_count"}

\* The metrics that enter the score with a weight of their own.
Weighted == Counted \cup {"file_count", "upstream_count", "downstream_count",
                          "cross_layer_dependency_count", "finding_count"}

\* The other metrics it depends on; git_change_count counts the last commits.
Measured == Weighted \cup {"matching_test_file_count", "git_change_count",
                          "high_severity_count"}

WeightKeys == Weighted \cup {"git_change_cap", "no_test_penalty"}

DefaultWeights ==
    [k \in WeightKeys |->
        CASE k = "git_change_cap" -> 10
          [] k = "no_test_penalty" -> 4
          [] k \in {"db_signal_count", "global_risk_count"} -> 3
          [] k \in {"upstream_count", "cross_layer_dependency_count",
                    "finding_count"} -> 2
          [] OTHER -> 1]

\* config/priority_weights.json: "damaged" cannot be opened or is no JSON,
\* "odd" is JSON (or text) that raises something else when it is used.
WeightFileKinds == {"absent", "damaged", "odd", "object"}

LoadPriorityWeights(file) ==
    IF file.kind # "object" THEN DefaultWeights
    ELSE [k \in WeightKeys |->
             IF k \in DOMAIN file.weights THEN file.weights[k] ELSE DefaultWeights[k]]
-----------------------------------------------------------------------------
(* A repository: the parsed files in order, each with its module, its layer *)
(* and its counts; "edges" are imports, "named" holds <<m, i>> when the     *)
(* last part of m's name occurs in the path of file i.                      *)

Layers == {"interface", "service", "data_access", "configuration", "shared",
           "state", "test", "domain"}

SourceFile == [module : Nat, layer : Layers, counts : [Counted -> Nat]]

ModulesOf(repo) == {repo.files[i].module : i \in DOMAIN repo.files}

FilesOf(repo, m) == {i \in DOMAIN repo.files : repo.files[i].module = m}

\* The first file of a module decides about its layer.
Layer(repo, m) == repo.files[Min(FilesOf(repo, m))].layer

Downstream(repo, m) ==
    {repo.files[e[2]].module : e \in {d \in repo.edges : d[1] \in FilesOf(repo, m)}} \ {m}

Upstream(repo, m) == {n \in ModulesOf(repo) : m \in Downstream(repo, n)}

CrossLayer(repo, m) == {n \in Downstream(repo, m) : Layer(repo, n) # Layer(repo, m)}

MatchingTests(repo, m) ==
    {i \in DOMAIN repo.files : repo.files[i].layer = "test" /\ <<m, i>> \in repo.named}

\* Deviation: a finding counts only for the module of its first file.
RelatedByFirstFile(repo, findings, m) ==
    {<<f, 1>> : f \in {g \in DOMAIN findings :
                          Head(findings[g].files) \in FilesOf(repo, m)}}

\* A finding is related to a module once for each of its files in it,
\* whatever the validator said about the finding.
Related(repo, findings, m) ==
    UNION {{<<f, j>> : j \in {k \in DOMAIN findings[f].files :
                                 findings[f].files[k] \in FilesOf(repo, m)}} :
           f \in DOMAIN findings}

HighSeverity(repo, findings, m) ==
    {r \in Related(repo, findings, m) : findings[r[1]].severity = "high"}

Metrics(repo, findings, hotness, m) ==
    [k \in Measured |->
        CASE k \in Counted ->
                 SumFunction([i \in FilesOf(repo, m) |-> repo.files[i].counts[k]])
          [] k = "git_change_count" -> SumFunctionOnSet(hotness, FilesOf(repo, m))
          [] k = "file_count" -> Cardinality(FilesOf(repo, m))
          [] k = "upstream_count" -> Cardinality(Upstream(repo, m))
          [] k = "downstream_count" -> Cardinality(Downstream(repo, m))
          [] k = "cross_layer_dependency_count" -> Cardinality(CrossLayer(repo, m))
          [] k = "matching_test_file_count" -> Cardinality(MatchingTests(repo, m))
          [] k = "finding_count" -> Cardinality(Related(repo, findings, m))
          [] k = "high_severity_count" -> Cardinality(HighSeverity(repo, findings, m))]

PriorityScore(metrics, w) ==
    SumFunction([k \in Weighted |-> metrics[k] * w[k]])
    + Min({metrics.git_change_count, w.git_change_cap})
    + IF metrics.matching_test_file_count = 0 THEN w.no_test_penalty ELSE 0

PriorityLevel(layer, metrics, score) ==
    IF \/ metrics.high_severity_count > 0
       \/ metrics.db_signal_count > 0 /\ layer = "interface"
       \/ score >= 18
    THEN "P0"
    ELSE IF score >= 9 \/ metrics.finding_count >= 1 THEN "P1" ELSE "P2"

\* An entry of the inventory, as far as the later steps depend on it.
InventoryItem(repo, findings, hotness, w, m) ==
    LET metrics == Metrics(repo, findings, hotness, m)
        score == PriorityScore(metrics, w)
    IN  [module |-> m, metrics |-> metrics, score |-> score,
         priority |-> PriorityLevel(Layer(repo, m), metrics, score)]

PriorityOrder == [P0 |-> 0, P1 |-> 1, P2 |-> 2]

\* The sort key: priority, then the higher score, then the name.
MoreUrgent(a, b) ==
    \/ PriorityOrder[a.priority] < PriorityOrder[b.priority]
    \/ a.priority = b.priority /\ a.score > b.score
    \/ a.priority = b.priority /\ a.score = b.score /\ a.module < b.module

\* _detailed_modules: the first entries that are not P2, at most "cap" of them.
DetailedModules(inventory, cap) ==
    LET urgent == Kept(inventory, LAMBDA item : item.priority # "P2")
    IN  SubSeq(urgent, 1, Min({cap, Len(urgent)}))
=============================================================================
