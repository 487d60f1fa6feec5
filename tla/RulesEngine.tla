---------------------------- MODULE RulesEngine ----------------------------
(***************************************************************************)
(* rules_engine/engine.py, run_rules: the findings on the scan results of  *)
(* a repository.  The scans are functions of the parsed files, so a rule   *)
(* is given what it reads of them; tests on paths and thresholds of        *)
(* rules/config.py are constants.                                          *)
(***************************************************************************)
EXTENDS ImportCycles, RepositoryScan, DbUsage, GlobalState

CONSTANTS
    HandlerFiles,    \* _is_handler_path
    DataAccessFiles, \* _is_data_access_path
    BusinessFiles,   \* _is_business_path
    NonProductFiles, \* is_non_product_file
    UtilsParts,      \* the parts of a module name that _matches_utils_name accepts
    UTILS_OVERUSE_THRESHOLD, UTILS_CONSUMER_PACKAGE_THRESHOLD,
    OVERSIZED_FILE_LINE_THRESHOLD, OVERSIZED_FILE_STRONG_LINE_THRESHOLD,
    OVERSIZED_CLASS_METHOD_THRESHOLD, OVERSIZED_CLASS_STRONG_METHOD_THRESHOLD

ASSUME RulesAssumption ==
    /\ UNION {HandlerFiles, DataAccessFiles, BusinessFiles, NonProductFiles} \subseteq Files
    /\ UTILS_OVERUSE_THRESHOLD \in Nat \ {0} /\ UTILS_CONSUMER_PACKAGE_THRESHOLD \in Nat
    /\ OVERSIZED_FILE_LINE_THRESHOLD \in Nat /\ OVERSIZED_FILE_STRONG_LINE_THRESHOLD \in Nat
    /\ OVERSIZED_FILE_STRONG_LINE_THRESHOLD >= OVERSIZED_FILE_LINE_THRESHOLD
    /\ OVERSIZED_CLASS_METHOD_THRESHOLD \in Nat
    /\ OVERSIZED_CLASS_STRONG_METHOD_THRESHOLD \in Nat
    /\ OVERSIZED_CLASS_STRONG_METHOD_THRESHOLD >= OVERSIZED_CLASS_METHOD_THRESHOLD

(***************************************************************************)
(* What the scans see of a file; classes holds the numbers of methods of   *)
(* its classes, env the variables it reads.                                *)
(***************************************************************************)
Source ==
    [state : {"parses", "syntax_error", "unreadable"}, statements : SUBSET Statement,
     db : DbImports, expressions : SUBSET Expression, env : SUBSET STRING,
     bindings : UNION {[S -> BindingKinds] : S \in SUBSET {"cache", "limit"}},
     deeds : SUBSET Deed, lines : Nat, classes : SUBSET Nat]

RankBefore(f, g) == Rank[f] < Rank[g]

Find(rule, severity, files, evidence) ==
    [rule_id |-> rule, severity |-> severity, files |-> Listed(files, RankBefore),
     evidence |-> evidence]

HighIf(test) == IF test THEN "high" ELSE "medium"

SignalsIn(sources, f) == DbSignals(sources[f].expressions, sources[f].db)

\* signals[:3]
FirstThree(signals) ==
    {s \in signals : Cardinality({t \in signals : SignalBefore(t, s)}) < 3}

\* RULE_A; in the lines of the evidence the validator looks for the word "high".
HandlerDbFindings(sources) ==
    {LET signals == SignalsIn(sources, f)
     IN  Find("RULE_A", HighIf(Certainly(signals) # {}), {f},
              IF ReadsHigh(FirstThree(signals)) # {} THEN "strong" ELSE "plain") :
        f \in {h \in HandlerFiles \cap DOMAIN sources : SignalsIn(sources, h) # {}}}

ReadersOf(sources, variable) == {f \in DOMAIN sources : variable \in sources[f].env}

\* RULE_B
SharedEnvFindings(sources) ==
    LET readers(v) == ReadersOf(sources, v) \cap BusinessFiles
        shared == {v \in UNION {sources[f].env : f \in DOMAIN sources} :
                      Cardinality(readers(v)) > 1}
    IN  [v \in shared |->
            Find("RULE_B", HighIf(Cardinality(readers(v)) >= 4), readers(v), "plain")]

StatementsOf(sources) == [f \in DOMAIN sources |-> sources[f].statements]

\* utils_usage.py, _consumer_package
ConsumerPackage(module) ==
    IF Len(module) = 1 THEN module ELSE SubSeq(module, 1, Len(module) - 1)

MatchesUtilsName(module) == \E i \in DOMAIN module : module[i] \in UtilsParts

\* Deviation: consumers are counted from the one below the threshold on.
OverusedFromBelow(consumers) ==
    /\ Cardinality(consumers) >= UTILS_OVERUSE_THRESHOLD - 1
    /\ Cardinality({ConsumerPackage(ModuleOf(f)) : f \in consumers})
          >= UTILS_CONSUMER_PACKAGE_THRESHOLD

Overused(consumers) ==
    /\ Cardinality(consumers) >= UTILS_OVERUSE_THRESHOLD
    /\ Cardinality({ConsumerPackage(ModuleOf(f)) : f \in consumers})
          >= UTILS_CONSUMER_PACKAGE_THRESHOLD

\* scan_utils_usage and RULE_C
UtilsOveruseFindings(sources) ==
    LET module_index == ModuleIndex(DOMAIN sources)
        consumers(m) == {f \in DOMAIN sources :
                            m \in LocalModules(f, sources[f].statements, module_index)}
    IN  [m \in {n \in DOMAIN module_index : MatchesUtilsName(n) /\ Overused(consumers(n))} |->
            Find("RULE_C", HighIf(Cardinality(consumers(m)) >= UTILS_OVERUSE_THRESHOLD + 3),
                 consumers(m), "plain")]

RisksIn(sources, f) ==
    {Risk(sources[f].deeds, n) : n \in RiskyGlobals(sources[f].bindings, sources[f].deeds)}

\* RULE_D; its evidence always tells a number of mutations.
GlobalStateFindings(sources) ==
    {Find("RULE_D", HighIf("high" \in RisksIn(sources, f)), {f}, "strong") :
        f \in {g \in DOMAIN sources \ NonProductFiles : RisksIn(sources, g) # {}}}

\* RULE_E
CycleFindings(cycles) ==
    {Find("RULE_E", HighIf(Cardinality(cycles[i]) >= 4), cycles[i], "plain") :
        i \in DOMAIN cycles}

Reaching(classes, threshold) == {c \in classes : c >= threshold}

Oversized(source) ==
    \/ source.lines >= OVERSIZED_FILE_STRONG_LINE_THRESHOLD
    \/ /\ source.lines >= OVERSIZED_FILE_LINE_THRESHOLD
       /\ Reaching(source.classes, OVERSIZED_CLASS_METHOD_THRESHOLD) # {}
    \/ Reaching(source.classes, OVERSIZED_CLASS_STRONG_METHOD_THRESHOLD) # {}

\* RULE_F; the evidence is gathered apart from the decision.
OversizedFileFindings(sources) ==
    {Find("RULE_F", "medium", {f},
          IF \/ sources[f].lines >= OVERSIZED_FILE_LINE_THRESHOLD
             \/ Reaching(sources[f].classes, OVERSIZED_CLASS_METHOD_THRESHOLD) # {}
          THEN "plain" ELSE "none") :
        f \in {g \in DOMAIN sources \ NonProductFiles : Oversized(sources[g])}}

\* Deviation: data-access files are told apart before handlers are.
CrossLayerUnlessDataAccess == DataAccessFiles

LeftToOtherRules == HandlerFiles \cup DataAccessFiles

\* RULE_G
CrossLayerDbFindings(sources) ==
    {Find("RULE_G", "medium", {f}, "plain") :
        f \in {g \in DOMAIN sources \ LeftToOtherRules :
                  Cardinality(Certainly(SignalsIn(sources, g))) >= 2}}

SeverityOrder == [high |-> 0, medium |-> 1, low |-> 2]

RuleOrder(rule) == CHOOSE i \in 1..7 : rule =
    <<"RULE_A", "RULE_B", "RULE_C", "RULE_D", "RULE_E", "RULE_F", "RULE_G">>[i]

FilesBefore(s, t) ==
    \E n \in 0..Len(s) :
        /\ n < Len(t) /\ SubSeq(s, 1, n) = SubSeq(t, 1, n)
        /\ n = Len(s) \/ Rank[s[n + 1]] < Rank[t[n + 1]]

\* The key of findings.sort: severity, rule, files.
FindingBefore(a, b) ==
    LET x == SeverityOrder[a.severity]
        y == SeverityOrder[b.severity]
    IN  \/ x < y
        \/ x = y /\ RuleOrder(a.rule_id) < RuleOrder(b.rule_id)
        \/ x = y /\ a.rule_id = b.rule_id /\ FilesBefore(a.files, b.files)

\* One finding for each variable or module, even if two of them look the same.
ListOf(findings) == LET keys == SetToSeq(DOMAIN findings)
                    IN  [i \in DOMAIN keys |-> findings[keys[i]]]

\* The findings of run_rules before it sorts them.
RunRules(sources, cycles) ==
    LET ofFiles == UNION {HandlerDbFindings(sources), GlobalStateFindings(sources),
                          CycleFindings(cycles), OversizedFileFindings(sources),
                          CrossLayerDbFindings(sources)}
    IN  Listed(ofFiles, FindingBefore) \o ListOf(SharedEnvFindings(sources))
            \o ListOf(UtilsOveruseFindings(sources))
=============================================================================
