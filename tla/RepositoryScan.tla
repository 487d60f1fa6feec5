--------------------------- MODULE RepositoryScan ---------------------------
(***************************************************************************)
(* scanner/__init__.py and scanner/imports.py: the names of the modules of *)
(* a repository, and the files its import statements lead to.  A dotted    *)
(* name is the sequence of its parts.                                      *)
(***************************************************************************)
EXTENDS Contracts, FiniteSets, SequencesExt

CONSTANTS
    PathOf,   \* [Files -> Path]
    PathRank  \* [Files -> Nat]: the order of sorted(repo_root.rglob("*.py"))

(***************************************************************************)
(* pkg/sub/a.py has the directories <<"pkg", "sub">> and the stem <<"a">>; *)
(* a file a.b.py has the stem <<"a", "b">>, and a directory a.b counts as  *)
(* two.  A path is plain when no name in it has such a dot of its own.     *)
(* Names that begin or end with a dot, and directories that are called     *)
(* __init__, are left out.                                                 *)
(***************************************************************************)
Path == [dirs : Seq(STRING \ {"", "__init__"}), stem : Seq(STRING \ {""}) \ {<<>>},
         plain : BOOLEAN]

\* An import statement; guard says whether it stands in the body or in the else
\* branch of "if TYPE_CHECKING".
Statement ==
    [kind : {"import", "from"}, module : Seq(STRING), level : Nat,
     names : SUBSET STRING, guard : {"none", "type_checking", "else"}]

\* path.name is __init__.py.
IsInit(f) == PathOf[f].stem = <<"__init__">>

\* path_to_module; a.__init__.py loses its last part, too.
ModuleOf(f) ==
    LET parts == PathOf[f].dirs \o PathOf[f].stem
        n == Len(parts)
    IN  IF n > 1 /\ parts[n] = "__init__" THEN SubSeq(parts, 1, n - 1) ELSE parts

\* package_for_module
PackageOf(f) ==
    IF IsInit(f) THEN PathOf[f].dirs
    ELSE SubSeq(ModuleOf(f), 1, Len(ModuleOf(f)) - 1)

\* A file __init__.py that makes its directory a package.
MakesPackage(f) == IsInit(f) /\ PathOf[f].plain

\* Paths are sorted part by part: the directory a comes before the file a.py.
\* No part of a module name is the star of "from ... import *".
ASSUME RepositoryAssumption ==
    /\ \A f \in Files : /\ PathOf[f] \in Path
                        /\ PathOf[f].plain => Len(PathOf[f].stem) = 1
                        /\ \A i \in DOMAIN ModuleOf(f) : ModuleOf(f)[i] # "*"
    /\ PathRank \in [Files -> Nat]
    /\ \A f, g \in Files : PathRank[f] = PathRank[g] => f = g
    /\ \A f, g \in Files : ModuleOf(f) = ModuleOf(g) /\ MakesPackage(f) =>
                             PathRank[f] <= PathRank[g]

\* module_index.setdefault: of two files with one name the first one counts.
ModuleIndex(parsed) ==
    [m \in {ModuleOf(f) : f \in parsed} |->
        CHOOSE f \in parsed :
            /\ ModuleOf(f) = m
            /\ \A g \in parsed : ModuleOf(g) = m => PathRank[f] <= PathRank[g]]
-----------------------------------------------------------------------------
(* Resolution of imports.                                                  *)

\* _resolve_best_match: the longest prefix that is a module; none at all for
\* names from outside.
BestMatch(name, index) ==
    {p \in Prefixes(name) \cap DOMAIN index :
        \A q \in Prefixes(name) \cap DOMAIN index : Len(q) <= Len(p)}

\* Deviation: every dot climbs one package.
AbsoluteBaseAbove(package, module, level) ==
    IF level = 0 THEN module
    ELSE IF level >= Len(package) THEN module
    ELSE SubSeq(package, 1, Len(package) - level) \o module

\* _absolute_from_base: the first dot is the package itself; a climb beyond the
\* root ends at the root.
AbsoluteBase(package, module, level) ==
    IF level = 0 THEN module
    ELSE IF level - 1 >= Len(package) THEN module
    ELSE SubSeq(package, 1, Len(package) - (level - 1)) \o module

\* One name of a from import: a submodule, else the module it is taken from.
ResolveAlias(base, name, index) ==
    IF name = "*" THEN BestMatch(base, index)
    ELSE IF base # <<>> /\ BestMatch(Append(base, name), index) # {}
         THEN BestMatch(Append(base, name), index)
    ELSE BestMatch(IF base # <<>> THEN base ELSE <<name>>, index)

\* _resolve_from_import and visit_Import.
ResolvedModules(f, s, index) ==
    IF s.kind = "import" THEN BestMatch(s.module, index)
    ELSE UNION {ResolveAlias(AbsoluteBase(PackageOf(f), s.module, s.level), n, index) :
                   n \in s.names}

\* _ImportCollector.visit_If: the body of "if TYPE_CHECKING" is not visited.
Collected(statements) == {s \in statements : s.guard # "type_checking"}

\* The modules of the repository that file f depends on.
LocalModules(f, statements, index) ==
    UNION {ResolvedModules(f, s, index) : s \in Collected(statements)}

\* import_graph["local_edges"] for the statements of each parsed file.
LocalEdges(statementsOf, index) ==
    UNION {{<<f, index[m]>> : m \in LocalModules(f, statementsOf[f], index)} :
              f \in DOMAIN statementsOf}
-----------------------------------------------------------------------------
(* What Python does with a statement.                                      *)

\* The modules a statement names, before it is asked whether they exist.  A
\* relative import counts its dots from the package of the file, which is its
\* directory.
Named(f, s) ==
    LET package == PathOf[f].dirs
        base == IF s.level = 0 THEN s.module
                ELSE SubSeq(package, 1, Len(package) + 1 - s.level) \o s.module
    IN  IF s.kind = "import" THEN {s.module}
        ELSE {base} \cup {Append(base, n) : n \in s.names}

\* Python refuses a relative import that climbs out of the topmost package of
\* the file, and any relative import of a file that is in no package.
StaysInside(f, s) == s.level <= Len(PathOf[f].dirs)

\* The modules Python runs for a statement: those named and their packages.
Executed(f, s, index) == (UNION {Prefixes(n) : n \in Named(f, s)}) \cap DOMAIN index

\* The innermost ones: those none of whose submodules is named.
Innermost(f, s, index) ==
    {m \in Executed(f, s, index) :
        ~ \E k \in Executed(f, s, index) : k # m /\ m \in Prefixes(k)}
=============================================================================
