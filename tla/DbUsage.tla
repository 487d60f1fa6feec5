------------------------------ MODULE DbUsage ------------------------------
(***************************************************************************)
(* scanner/db_usage.py: which expressions of a file look like database     *)
(* operations, and how sure that is.  A dotted name is the sequence of its *)
(* parts in lower case, without brackets (of a chain of calls each call is *)
(* an expression); the lists of rules/config.py are constants.             *)
(***************************************************************************)
EXTENDS Naturals, Sequences, FiniteSets

CONSTANTS
    ImportedCallNames,     \* DB_IMPORTED_CALL_NAMES
    HighConfidenceMethods, \* DB_HIGH_CONFIDENCE_METHODS
    LowConfidenceMethods,  \* DB_LOW_CONFIDENCE_METHODS
    RootNameHints,         \* DB_ROOT_NAME_HINTS
    GenericRootHints       \* DB_GENERIC_ROOT_HINTS

\* A name in the code: called or only looked at, on a line, its first part
\* written with a capital or not; high is the place of the first part that is
\* spelled with "high" in it, as in session.high_scores, and 0 if none is.
Expression == [name : Seq(STRING), line : Nat, called : BOOLEAN, capital : BOOLEAN,
               high : Nat]

\* _collect_db_context: the names that imports of database libraries bring in.
DbImports == [modules : SUBSET STRING, symbols : SUBSET STRING]

HasDbImports(imports) == imports.modules \cup imports.symbols # {}

\* "db.session" or "model.query" somewhere in the name; that the code finds them
\* in longer words, too (mydb.session), is left out.
NamesSession(name) ==
    \E i \in 1..(Len(name) - 1) :
        SubSeq(name, i, i + 1) \in {<<"db", "session">>, <<"model", "query">>}

\* _looks_like_model_query
ModelQuery(name, capital) == Len(name) = 2 /\ name[2] = "query" /\ capital

Certain(name, capital) == ModelQuery(name, capital) \/ NamesSession(name)

OperationMethods == HighConfidenceMethods \cup LowConfidenceMethods

\* _classify_db_call, the ways to be sure and the ways to be fairly sure.
CallConfidence(name, capital, imports) ==
    LET root == name[1]
        last == name[Len(name)]
        aliased == root \in imports.modules
        hinted == HasDbImports(imports) /\ root \in RootNameHints
        generic == HasDbImports(imports) /\ root \in GenericRootHints
        imported == Len(name) = 1 /\ root \in imports.symbols \cap ImportedCallNames
        sure == \/ Certain(name, capital)
                \/ /\ ~ imported
                   /\ aliased /\ last \in ImportedCallNames \cup HighConfidenceMethods
        likely == \/ imported
                  \/ aliased /\ last \in LowConfidenceMethods
                  \/ root \in imports.symbols /\ last \in OperationMethods
                  \/ hinted /\ last \in OperationMethods
                  \/ generic /\ last \in HighConfidenceMethods
    IN  CASE sure -> "high"
          [] ~ sure /\ likely -> "medium"
          [] OTHER -> "none"

\* _classify_db_attribute
AttributeConfidence(name, capital, imports) ==
    CASE Certain(name, capital) -> "high"
      [] ~ Certain(name, capital) /\ HasDbImports(imports) /\ name[1] \in RootNameHints
            /\ name[Len(name)] \in {"session", "query"} -> "medium"
      [] OTHER -> "none"

\* A signal of the expression e on the first parts of its name; high says that
\* they have the word in them.
Signal(kind, e, name, confidence) ==
    [kind |-> kind, signal |-> name, line |-> e.line, confidence |-> confidence,
     high |-> e.high \in 1..Len(name)]

\* The nodes of an expression: the call, and one attribute for each dot.
SignalsOf(e, imports) ==
    {Signal("call", e, n, CallConfidence(n, e.capital, imports)) :
        n \in IF e.called THEN {e.name} ELSE {}}
    \cup
    {Signal("attribute", e, n, AttributeConfidence(n, e.capital, imports)) :
        n \in {SubSeq(e.name, 1, i) : i \in 2..Len(e.name)}}

\* The operational signals of a file.  Imports are signals, too, but no rule
\* asks for them.
DbSignals(expressions, imports) ==
    {s \in UNION {SignalsOf(e, imports) : e \in expressions} : s.confidence # "none"}

\* sorted by (line, signal): with one expression on a line, the signals of a
\* line are the beginnings of one name, the call before its own attribute.
SignalBefore(s, t) ==
    \/ s.line < t.line
    \/ s.line = t.line /\ Len(s.signal) < Len(t.signal)
    \/ s.line = t.line /\ Len(s.signal) = Len(t.signal) /\ s.kind = "call" /\ t.kind # "call"

Certainly(signals) == {s \in signals : s.confidence = "high"}

\* The text of a signal names it and its confidence: "high" may be in either.
ReadsHigh(signals) == {s \in signals : s.confidence = "high" \/ s.high}
=============================================================================
