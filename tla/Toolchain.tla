----------------------------- MODULE Toolchain -----------------------------
(***************************************************************************)
(* agents/tool_runner.py after build_repo_context: one deterministic       *)
(* analysis, from the files of a repository to the sorted findings.  Only  *)
(* the search for cycles takes more than one step: its neighbour sets have *)
(* no order.                                                               *)
(***************************************************************************)
EXTENDS RulesEngine, ValidatorAgent

CONSTANTS Repositories \* functions from the files a repository has to Source

\* A file reads finitely many variables, "from" names something, and a deed is
\* that of some function.
ASSUME ToolchainAssumption ==
    \A r \in Repositories :
        /\ DOMAIN r \subseteq Files
        /\ \A f \in DOMAIN r :
              /\ r[f] \in Source
              /\ IsFiniteSet(r[f].env)
              /\ \A s \in r[f].statements : s.kind = "from" => s.names # {}
              /\ \A d \in r[f].deeds : d.in # <<>>

VARIABLES
    pc,
    repository,
    context,  \* context.files: what is known of each parsed file
    cycles,   \* import_graph["cycles"]
    findings

vars == <<pc, repository, context, cycles, findings, searchVars>>

FilesIn(r, state) == {f \in DOMAIN r : r[f].state = state}

\* build_repo_context; a file with a syntax error is left out and counted.
BuildContext ==
    /\ pc = "context"
    /\ FilesIn(repository, "unreadable") = {}
    /\ context' = [f \in FilesIn(repository, "parses") |-> repository[f]]
    /\ pc' = "imports"
    /\ UNCHANGED <<repository, cycles, findings, searchVars>>

\* read_text or ast.parse raises something else than a SyntaxError.
SourceRaises ==
    /\ pc = "context"
    /\ FilesIn(repository, "unreadable") # {}
    /\ pc' = "crashed"
    /\ UNCHANGED <<repository, context, cycles, findings, searchVars>>

ScanImports ==
    /\ pc = "imports"
    /\ edges' = LocalEdges(StatementsOf(context), ModuleIndex(DOMAIN context))
    /\ pc' = "cycles"
    /\ UNCHANGED <<repository, context, cycles, findings>>
    /\ UNCHANGED <<frames, index, stack, on_stack, indices, lowlinks, components>>

SearchCycles ==
    /\ pc = "cycles"
    /\ SearchNext
    /\ UNCHANGED <<pc, repository, context, cycles, findings>>

KeepCycles ==
    /\ pc = "cycles"
    /\ Finished
    /\ cycles' = SortedComponents
    /\ pc' = "rules"
    /\ UNCHANGED <<repository, context, findings, searchVars>>

\* run_rules: the list of the findings, then its sort.
ApplyRules ==
    /\ pc = "rules"
    /\ \E found \in {RunRules(context, cycles)} : findings' = Sorted(found, FindingBefore)
    /\ pc' = "done"
    /\ UNCHANGED <<repository, context, cycles, searchVars>>

Init ==
    /\ pc = "context"
    /\ repository \in Repositories
    /\ context = [f \in {} |-> 0]
    /\ cycles = <<>>
    /\ findings = <<>>
    /\ SearchInit

Next == BuildContext \/ SourceRaises \/ ScanImports \/ SearchCycles \/ KeepCycles \/ ApplyRules

Spec == Init /\ [][Next]_vars /\ WF_vars(Next)
-----------------------------------------------------------------------------
(* Properties.                                                             *)

\* The edges of a file are the modules Python runs for its import statements,
\* those under TYPE_CHECKING left out: only modules that are run, and of these
\* each one that is no mere package of another.  Of a package and a module of
\* the same name it is the package, and nothing leads to or from a file that
\* did not parse.  Left out are the files with a statement that Python refuses
\* because it climbs out of the topmost package, and repositories with names
\* that have dots of their own, which Python cannot import by the names the
\* scan gives them.
EdgesFollowImports ==
    LET module_index == ModuleIndex(DOMAIN context)
        package(m) == {f \in DOMAIN context : ModuleOf(f) = m /\ MakesPackage(f)}
        runs(f) == {s \in context[f].statements : s.guard # "type_checking"}
    IN  pc = "cycles" =>
        /\ edges \subseteq (DOMAIN context) \X (DOMAIN context)
        /\ \A e \in edges : package(ModuleOf(e[2])) # {} => MakesPackage(e[2])
        /\ (\A g \in DOMAIN context : PathOf[g].plain) =>
           \A f \in DOMAIN context : (\A s \in runs(f) : StaysInside(f, s)) =>
              LET targets == {ModuleOf(e[2]) : e \in {d \in edges : d[1] = f}}
              IN  /\ UNION {Innermost(f, s, module_index) : s \in runs(f)} \subseteq targets
                  /\ targets \subseteq UNION {Executed(f, s, module_index) : s \in runs(f)}

FindingsOn(f, rule) ==
    {i \in DOMAIN findings : findings[i].rule_id = rule /\ f \in FilesOf(findings[i])}

\* A file that is surely using the database more than once is reported once,
\* as a handler or as one that should not do so; only the data-access layer may
\* do so unreported.
HandlersAreCovered ==
    pc = "done" => \A f \in DOMAIN context :
        LET reports == FindingsOn(f, "RULE_A") \cup FindingsOn(f, "RULE_G")
        IN  /\ Cardinality(reports) <= 1
            /\ Cardinality(Certainly(SignalsIn(context, f))) >= 2 =>
                  reports # {} \/ f \in DataAccessFiles

\* The rules engine and the validator judge alike, although each has its own
\* thresholds and the validator reads the words of the evidence: no finding is
\* rejected, those of the rules A to E are confirmed and the others left to a
\* human.  Of a variable the validator is sure exactly when the rule is severe;
\* of a file it may be surer than that only when the code itself uses the word
\* "high" in the name of something that looks like a database operation.
RulesAndValidatorAgree ==
    pc = "done" => \A i \in DOMAIN findings :
        LET f == findings[i]
            verdict == DeterministicValidation(f)
        IN  /\ f \in Finding
            /\ verdict.status = IF f.rule_id \in {"RULE_F", "RULE_G"} THEN "needs_review"
                                ELSE "confirmed"
            /\ f.rule_id = "RULE_B" =>
                  (verdict.confidence = "high" <=> f.severity = "high")
            /\ f.rule_id = "RULE_A" /\ verdict.confidence = "high" /\ f.severity # "high" =>
                  \E s \in SignalsIn(context, f.files[1]) : s.high

\* Every statement of a function that, by the scoping rules of Python, changes
\* a module-level object which the scan takes for mutable makes its file a
\* finding of high severity, however deep functions and declarations are nested.
MutationsAreSeen ==
    pc = "done" => \A f \in DOMAIN context \ NonProductFiles : \A d \in context[f].deeds :
        d.name \in Candidates(context[f].bindings) /\ ChangesGlobal(context[f].deeds, d) =>
            \E i \in FindingsOn(f, "RULE_D") : findings[i].severity = "high"

\* The analysis of every repository ends, with findings unless a file raises.
ToolchainEnds ==
    <>(pc = IF FilesIn(repository, "unreadable") = {} THEN "done" ELSE "crashed")
=============================================================================
