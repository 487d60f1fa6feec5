---------------------------- MODULE GlobalState ----------------------------
(***************************************************************************)
(* scanner/globals.py: module-level objects that functions change.  A      *)
(* statement lies in a nest of functions, the innermost one last; every    *)
(* function of the nest is walked with all that lies in it.                *)
(***************************************************************************)
EXTENDS Naturals, Sequences

CONSTANTS
    MutationMethods, \* GLOBAL_STATE_MUTATION_METHODS
    SafeMethods,     \* GLOBAL_STATE_SAFE_METHODS
    IgnoredNames     \* GLOBAL_STATE_IGNORED_NAMES

\* How a name is bound at module level: to a collection, to what a container
\* factory or a constructor of caches, registries and states returns, to
\* something else, or by an augmented assignment.
BindingKinds == {"mutable_literal", "mutable_factory", "stateful_object",
                 "augmented_assignment", "other"}

\* A statement of a function: a declaration, an assignment to the name itself,
\* to an element or attribute of it, a call of a method of it, or a read.
Deed == [in : Seq(STRING), name : STRING, kind : {"global", "assign", "element", "call", "read"},
         method : STRING]

\* _collect_module_candidates: the last binding that counts wins.
Candidates(bindings) ==
    {n \in DOMAIN bindings \ IgnoredNames : bindings[n] # "other"}

Walked(deeds, function) == {d \in deeds : \E i \in DOMAIN d.in : d.in[i] = function}

Functions(deeds) == UNION {{d.in[i] : i \in DOMAIN d.in} : d \in deeds}

\* The names the function, or any function in it, declares global.
DeclaredGlobal(deeds, function) ==
    {d.name : d \in {e \in Walked(deeds, function) : e.kind = "global"}}

\* Deviation: assignments to elements need a declaration, too.
ChangesDeclared(d, declared) ==
    \/ d.kind \in {"assign", "element"} /\ d.name \in declared
    \/ d.kind = "call" /\ d.method \in MutationMethods \ SafeMethods

\* _collect_function_interactions and _mutated_candidate_names.
Changes(d, declared) ==
    \/ d.kind = "assign" /\ d.name \in declared
    \/ d.kind = "element"
    \/ d.kind = "call" /\ d.method \in MutationMethods \ SafeMethods

\* interactions[name]["mutation_lines"]
Mutations(deeds, name) ==
    {d \in deeds : d.name = name /\ \E f \in Functions(deeds) :
        d \in Walked(deeds, f) /\ Changes(d, DeclaredGlobal(deeds, f))}

\* scan_global_state: the globals of a file that make a finding.
RiskyGlobals(bindings, deeds) ==
    {n \in Candidates(bindings) :
        Mutations(deeds, n) # {} \/ bindings[n] = "augmented_assignment"}

Risk(deeds, name) == IF Mutations(deeds, name) # {} THEN "high" ELSE "medium"
-----------------------------------------------------------------------------
(* What Python does with a statement.                                      *)

InnermostFunction(d) == d.in[Len(d.in)]

Declares(deeds, function, name) ==
    \E d \in deeds : d.kind = "global" /\ d.name = name /\ InnermostFunction(d) = function

\* A function that assigns to a name, without declaring it, has a local one.
HasLocal(deeds, function, name) ==
    /\ ~ Declares(deeds, function, name)
    /\ \E d \in deeds : d.kind = "assign" /\ d.name = name /\ InnermostFunction(d) = function

\* The name means the object of the module: of the functions around the
\* statement that say something about it, the innermost one declares it global.
MeansModule(deeds, d) ==
    LET saying == {i \in DOMAIN d.in : \/ Declares(deeds, d.in[i], d.name)
                                      \/ HasLocal(deeds, d.in[i], d.name)}
    IN  \A i \in saying : (\A j \in saying : j <= i) => Declares(deeds, d.in[i], d.name)

\* The statement rebinds or changes the object of the module.
ChangesGlobal(deeds, d) ==
    /\ MeansModule(deeds, d)
    /\ \/ d.kind = "assign" \/ d.kind = "element"
       \/ d.kind = "call" /\ d.method \in MutationMethods \ SafeMethods
=============================================================================
