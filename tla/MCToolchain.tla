---------------------------- MODULE MCToolchain ----------------------------
(***************************************************************************)
(* Repositories of up to eight files: all import graphs of three files,    *)
(* self imports included, and 1024 of those of four; every form of import  *)
(* statement, alone, in a small package tree; a file with dots in its      *)
(* name; all small sets of database expressions and of statements about a  *)
(* global; readers of variables, users of a shared module, sizes; files    *)
(* that do not parse or not even open.                                     *)
(***************************************************************************)
EXTENDS Toolchain

MCFiles == 1..9

MCPath(dirs, stem) == [dirs |-> dirs, stem |-> <<stem>>, plain |-> TRUE]

MCPathOf ==
    <<MCPath(<<"pkg">>, "__init__"), MCPath(<<"pkg">>, "handlers"), MCPath(<<"pkg">>, "models"),
      MCPath(<<"pkg", "sub">>, "router_db"), MCPath(<<>>, "utils"), MCPath(<<>>, "pkg"),
      MCPath(<<"svc">>, "d"), MCPath(<<"docs">>, "e"),
      [dirs |-> <<>>, stem |-> <<"pkg", "sub", "router_db">>, plain |-> FALSE]>>
MCRank == <<4, 5, 6, 7, 9, 2, 8, 1, 3>>
MCPathRank == <<2, 3, 4, 5, 9, 6, 8, 1, 7>>
MCHandlerFiles == {2, 4}
MCDataAccessFiles == {3, 4}
MCBusinessFiles == 1..7
MCNonProductFiles == {8}
MCUtilsParts == {"utils"}

MCImportedCallNames == {"select", "session"}
MCHighConfidenceMethods == {"execute", "commit"}
MCLowConfidenceMethods == {"get", "query"}
MCRootNameHints == {"db", "session"}
MCGenericRootHints == {"client"}
MCMutationMethods == {"append"}
MCSafeMethods == {"get"}
MCIgnoredNames == {"__all__"}

NoDb == [modules |-> {}, symbols |-> {}]
Blank == [state |-> "parses", statements |-> {}, db |-> NoDb, expressions |-> {},
          env |-> {}, bindings |-> [n \in {} |-> ""], deeds |-> {}, lines |-> 0,
          classes |-> {}]

Import(module) == [kind |-> "import", module |-> module, level |-> 0, names |-> {},
                   guard |-> "none"]
From(module, level, names) == [kind |-> "from", module |-> module, level |-> level,
                               names |-> names, guard |-> "none"]
-----------------------------------------------------------------------------
(* Import graphs.                                                          *)

GraphRepository(n, graph) ==
    [f \in 1..n |-> [Blank EXCEPT !.statements =
        {Import(ModuleOf(g)) : g \in {h \in 1..n : <<f, h>> \in graph}}]]

FourFileGraphs ==
    {{<<1, 2>>, <<3, 4>>} \cup g :
        g \in SUBSET {p \in (1..4) \X (1..4) : p[1] # p[2] /\ p \notin {<<1, 2>>, <<3, 4>>}}}

GraphRepositories ==
    {GraphRepository(3, g) : g \in SUBSET ((1..3) \X (1..3))}
    \cup {GraphRepository(4, g) : g \in FourFileGraphs}
-----------------------------------------------------------------------------
(* Import statements.                                                      *)

MCModules == {<<>>, <<"pkg">>, <<"pkg", "models">>, <<"pkg", "sub">>, <<"sub">>,
              <<"sub", "router_db">>, <<"utils", "gone">>, <<"gone">>}
MCNames == {{"*"}, {"models"}, {"handlers", "gone"}, {"pkg"}, {"router_db"}}

PlainStatements ==
    {Import(m) : m \in MCModules \ {<<>>}}
    \cup {From(m, 0, n) : m \in MCModules \ {<<>>}, n \in MCNames}
    \cup {From(m, l, n) : m \in MCModules, l \in 1..3, n \in MCNames}
GuardedStatements ==
    {[Import(<<"pkg", "models">>) EXCEPT !.guard = g] : g \in {"type_checking", "else"}}

One(files, f, source) == [g \in files |-> IF g = f THEN source ELSE Blank]

WithState(r, broken, state) == [f \in DOMAIN r |->
    IF f \in broken THEN [r[f] EXCEPT !.state = state] ELSE r[f]]

ImportRepositories ==
    {One(files, f, [Blank EXCEPT !.statements = {s}]) :
        files \in {1..5, 1..6}, f \in {1, 2, 4, 5}, s \in PlainStatements \cup GuardedStatements}

BrokenRepositories ==
    {WithState(One(1..6, 4, [Blank EXCEPT !.statements = {s}]), broken, state) :
        s \in {Import(<<"pkg", "models">>), From(<<>>, 2, {"models", "handlers"}),
               From(<<"pkg">>, 0, {"*"})},
        broken \in SUBSET {1, 3, 4}, state \in {"syntax_error", "unreadable"}}
\* A file pkg.sub.router_db.py beside pkg/sub/router_db.py, or without it.
DottedRepositories ==
    {One(files, f, [Blank EXCEPT !.statements = {s}]) :
        files \in {{1, 2, 4, 9}, {1, 2, 3, 9}}, f \in {2, 9},
        s \in {Import(<<"pkg", "sub", "router_db">>), From(<<>>, 1, {"router_db"}),
               From(<<"sub">>, 1, {"router_db"}), From(<<>>, 2, {"handlers", "models"})}}
-----------------------------------------------------------------------------
(* Database expressions.                                                   *)

Expr(name, line, called, capital) ==
    [name |-> name, line |-> line, called |-> called, capital |-> capital, high |-> 0]
MCExpressions ==
    {Expr(<<"db", "session", "commit">>, 4, TRUE, FALSE), Expr(<<"user", "query">>, 2, FALSE, TRUE),
     Expr(<<"user", "query", "get">>, 3, TRUE, TRUE), Expr(<<"session", "execute">>, 1, TRUE, FALSE),
     Expr(<<"client", "execute">>, 5, TRUE, FALSE), Expr(<<"client", "get">>, 6, TRUE, FALSE),
     Expr(<<"sa", "select">>, 7, TRUE, FALSE), Expr(<<"select">>, 8, TRUE, FALSE),
     Expr(<<"db", "query">>, 9, TRUE, FALSE)}
\* "high" in a name, without a confidence that is.
HighScores ==
    [Expr(<<"session", "high_scores", "query">>, 10, TRUE, FALSE) EXCEPT !.high = 2]
MCDbImports == {NoDb, [modules |-> {"sa"}, symbols |-> {}],
                [modules |-> {}, symbols |-> {"select", "session"}]}

DbRepositories ==
    {One(1..4, f, [Blank EXCEPT !.expressions = e, !.db = imports]) :
        f \in 1..4, imports \in MCDbImports,
        e \in {x \in SUBSET (MCExpressions \cup {HighScores}) : Cardinality(x) <= 3}}
    \cup {One(1..4, f, [Blank EXCEPT !.expressions = e, !.db = imports]) :
        f \in {2}, imports \in MCDbImports,
        e \in {x \in SUBSET MCExpressions : Cardinality(x) = 5}}
-----------------------------------------------------------------------------
(* Globals.                                                                *)

Act(in, kind, method) == [in |-> in, name |-> "cache", kind |-> kind, method |-> method]
MCDeeds ==
    UNION {{Act(in, "global", ""), Act(in, "assign", ""), Act(in, "element", ""),
            Act(in, "call", "append"), Act(in, "call", "get"), Act(in, "read", "")} :
              in \in {<<"f">>, <<"f", "g">>, <<"h">>}}

GlobalRepositories ==
    {One({1, 8}, f, [Blank EXCEPT !.bindings = [n \in {"cache"} |-> kind], !.deeds = d]) :
        f \in {1}, kind \in {"mutable_literal", "augmented_assignment"},
        d \in {x \in SUBSET MCDeeds : Cardinality(x) <= 3}}
    \cup {One({1, 8}, f, [Blank EXCEPT !.bindings = [n \in {"cache"} |-> kind], !.deeds = d]) :
        f \in {8}, kind \in BindingKinds,
        d \in {x \in SUBSET MCDeeds : Cardinality(x) <= 1}}
-----------------------------------------------------------------------------
(* Variables, shared modules and sizes.                                    *)

EnvRepositories ==
    {[f \in 1..8 |-> [Blank EXCEPT !.env =
         (IF f \in a THEN {"A"} ELSE {}) \cup (IF f \in b THEN {"B"} ELSE {})]] :
        a \in SUBSET {1, 2, 3, 4, 8}, b \in {{}, {1, 2}, {7, 8}}}

UtilsRepositories ==
    {[f \in 1..8 |-> IF f \in users
         THEN [Blank EXCEPT !.statements = {Import(<<"utils">>)}] ELSE Blank] :
        users \in {u \in SUBSET (1..8) : {1, 4} \subseteq u /\ Cardinality(u) \in {4, 5, 8}}}

SizeRepositories ==
    {One({1, 8}, f, [Blank EXCEPT !.lines = l, !.classes = c]) :
        f \in {1, 8}, l \in {0, 499, 500, 799, 800}, c \in {{}, {14}, {15}, {24}, {25, 3}}}

\* A file that is found by every rule, in a cycle with one that is not.
FullRepository ==
    [f \in 1..4 |->
        IF f = 3 THEN [Blank EXCEPT !.statements = {Import(<<"pkg", "handlers">>)}]
        ELSE [state |-> "parses", statements |-> {From(<<"pkg">>, 0, {"models"})},
              db |-> NoDb, expressions |-> MCExpressions, env |-> {"A", "B"},
              bindings |-> [n \in {"cache", "limit"} |-> "mutable_literal"],
              deeds |-> {Act(<<"f">>, "element", "")}, lines |-> 900, classes |-> {30}]]

MCRepositories ==
    UNION {GraphRepositories, ImportRepositories, BrokenRepositories, DottedRepositories,
           DbRepositories,
           GlobalRepositories, EnvRepositories, UtilsRepositories, SizeRepositories,
           {FullRepository}}
=============================================================================
