---------------------------- MODULE ImportCycles ----------------------------
(***************************************************************************)
(* rules_engine/engine.py, detect_import_cycles: the strongly connected    *)
(* components of the import graph, by Tarjan's algorithm.  The recursion   *)
(* of strongconnect is a stack of frames; a frame keeps the neighbours its *)
(* loop has not looked at.  The neighbours are a Python set of strings:    *)
(* their order changes from run to run.                                    *)
(***************************************************************************)
EXTENDS Contracts, Ordering

CONSTANTS
    Rank     \* [Files -> Nat]: the order of the relative paths

ASSUME ImportCyclesAssumption ==
    /\ IsFiniteSet(Files)
    /\ Rank \in [Files -> Nat]
    /\ \A m, n \in Files : Rank[m] = Rank[n] => m = n

VARIABLES
    edges,      \* import_graph["local_edges"]
    frames,     \* active calls of strongconnect, the innermost one last
    index,
    stack,
    on_stack,
    indices,    \* of the nodes met so far
    lowlinks,
    components  \* the components of more than one node, as they are found

searchVars == <<edges, frames, index, stack, on_stack, indices, lowlinks, components>>

\* An edge from a file to itself is skipped.
Adjacency(n) == {m \in Files : m # n /\ <<n, m>> \in edges}

\* The keys of adjacency: both ends of every edge.
GraphNodes == {n \in Files : \E m \in Files \ {n} : {<<n, m>>, <<m, n>>} \cap edges # {}}

Met == DOMAIN indices

Smaller(a, b) == IF a < b THEN a ELSE b

Top == frames[Len(frames)]
Callers == SubSeq(frames, 1, Len(frames) - 1)

Extended(f, n, value) == [m \in DOMAIN f \cup {n} |-> IF m = n THEN value ELSE f[m]]

Lower(n, value) == [lowlinks EXCEPT ![n] = Smaller(@, value)]

\* The head of strongconnect(n), with callers as the active calls.
Enter(n, callers) ==
    /\ indices' = Extended(indices, n, index)
    /\ lowlinks' = Extended(lowlinks, n, index)
    /\ index' = index + 1
    /\ stack' = Append(stack, n)
    /\ on_stack' = on_stack \cup {n}
    /\ frames' = Append(callers, [node |-> n, todo |-> Adjacency(n)])
    /\ UNCHANGED <<edges, components>>

\* The outer loop starts at the first node, in sorted order, not yet met.
StartAtRoot ==
    /\ frames = <<>>
    /\ \E n \in GraphNodes \ Met :
          /\ \A m \in GraphNodes \ Met : Rank[n] <= Rank[m]
          /\ Enter(n, <<>>)

\* The frame of the innermost call when its loop has taken neighbour m.
Advanced(m) == Append(Callers, [Top EXCEPT !.todo = @ \ {m}])

VisitNeighbor ==
    /\ frames # <<>>
    /\ \E m \in Top.todo \ Met : Enter(m, Advanced(m))

\* Deviation: the test for nodes on the stack is missing.
SeeNeighborAnywhere ==
    /\ frames # <<>>
    /\ \E m \in Top.todo \cap Met :
          /\ lowlinks' = Lower(Top.node, indices[m])
          /\ frames' = Advanced(m)
    /\ UNCHANGED <<edges, index, stack, on_stack, indices, components>>

SeeNeighbor ==
    /\ frames # <<>>
    /\ \E m \in Top.todo \cap Met :
          /\ lowlinks' = IF m \in on_stack THEN Lower(Top.node, indices[m])
                         ELSE lowlinks
          /\ frames' = Advanced(m)
    /\ UNCHANGED <<edges, index, stack, on_stack, indices, components>>

Position(n) == CHOOSE i \in DOMAIN stack : stack[i] = n

\* The nodes from n to the top of the stack.
Popped(n) == {stack[i] : i \in Position(n)..Len(stack)}

\* Deviation: the popped nodes are still marked as being on the stack.
CloseComponentStillMarked ==
    IF lowlinks[Top.node] # indices[Top.node]
    THEN UNCHANGED <<stack, on_stack, components>>
    ELSE /\ stack' = SubSeq(stack, 1, Position(Top.node) - 1)
         /\ components' = IF Cardinality(Popped(Top.node)) > 1
                          THEN Append(components, Popped(Top.node)) ELSE components
         /\ UNCHANGED on_stack

\* The tail of strongconnect: a root of a component pops it off the stack.
CloseComponent ==
    IF lowlinks[Top.node] # indices[Top.node]
    THEN UNCHANGED <<stack, on_stack, components>>
    ELSE /\ stack' = SubSeq(stack, 1, Position(Top.node) - 1)
         /\ on_stack' = on_stack \ Popped(Top.node)
         /\ components' = IF Cardinality(Popped(Top.node)) > 1
                          THEN Append(components, Popped(Top.node)) ELSE components

\* Deviation: the lowlink of the callee is not handed to the caller.
ReturnFromCallAlone ==
    /\ frames # <<>>
    /\ Top.todo = {}
    /\ CloseComponent
    /\ frames' = Callers
    /\ UNCHANGED <<edges, index, indices, lowlinks>>

\* Deviation: only the root of a component returns.
ReturnFromRoot ==
    /\ frames # <<>>
    /\ Top.todo = {}
    /\ lowlinks[Top.node] = indices[Top.node]
    /\ CloseComponent
    /\ frames' = Callers
    /\ UNCHANGED <<edges, index, indices, lowlinks>>

\* The call returns; its caller, if any, takes over the lowlink.
ReturnFromCall ==
    /\ frames # <<>>
    /\ Top.todo = {}
    /\ CloseComponent
    /\ frames' = Callers
    /\ lowlinks' = IF Callers = <<>> THEN lowlinks
                   ELSE Lower(Callers[Len(Callers)].node, lowlinks[Top.node])
    /\ UNCHANGED <<edges, index, indices>>

SearchInit ==
    /\ edges = {}
    /\ frames = <<>>
    /\ index = 0
    /\ stack = <<>>
    /\ on_stack = {}
    /\ indices = [n \in {} |-> 0]
    /\ lowlinks = [n \in {} |-> 0]
    /\ components = <<>>

SearchNext == StartAtRoot \/ VisitNeighbor \/ SeeNeighbor \/ ReturnFromCall

Finished == frames = <<>> /\ GraphNodes \subseteq Met

\* sorted(components, key=(len, item)): the components share no file, so that of
\* two with the same size the first file decides.
ShorterFirst(C, D) ==
    \/ Cardinality(C) < Cardinality(D)
    \/ /\ Cardinality(C) = Cardinality(D)
       /\ \E c \in C : \A d \in D : Rank[c] < Rank[d]

SortedComponents == Sorted(components, ShorterFirst)
-----------------------------------------------------------------------------
(* What a cycle is.                                                        *)

\* The sets of files that import nothing outside themselves.
Closed == {S \in SUBSET GraphNodes : \A n \in S : Adjacency(n) \subseteq S}

\* n imports m, directly or not, when every such set that has n has m as well.
Reaches(n, m, closed) == \A S \in closed : n \in S => m \in S

\* The sets of files that all import one another, directly or not, and to
\* which no further file can be added.
ImportCyclesOf(closed) ==
    {C \in {{m \in GraphNodes : Reaches(m, n, closed) /\ Reaches(n, m, closed)} :
               n \in GraphNodes} : Cardinality(C) > 1}
-----------------------------------------------------------------------------
(* Properties.                                                             *)

Frame == [node : Files, todo : SUBSET Files]

\* Type invariant of detect_import_cycles.
SearchTypeOK ==
    /\ edges \subseteq Files \X Files
    /\ frames \in Seq(Frame)
    /\ index \in Nat
    /\ stack \in Seq(Files)
    /\ on_stack \subseteq Files
    /\ Met \subseteq Files
    /\ indices \in [Met -> Nat]
    /\ lowlinks \in [Met -> Nat]
    /\ components \in Seq(SUBSET Files)

\* Whatever the order of the neighbours, the result is the same list: all
\* cycles of the import graph, each of them once; and no set that is no cycle
\* is ever put into it.
FindsTheCycles ==
    LET cycles == ImportCyclesOf(Closed)
    IN  /\ \A i \in DOMAIN components : components[i] \in cycles
        /\ Finished => SortedComponents = Listed(cycles, ShorterFirst)

\* on_stack mirrors the stack, whose nodes lie in the order they were met, and
\* every active call has its node on the stack, below those it has called.
StackInOrder ==
    /\ on_stack = {stack[i] : i \in DOMAIN stack}
    /\ \A i, j \in DOMAIN stack : i < j => indices[stack[i]] < indices[stack[j]]
    /\ \A i \in DOMAIN frames : frames[i].node \in on_stack
    /\ \A i, j \in DOMAIN frames :
          i < j => indices[frames[i].node] < indices[frames[j].node]

\* A lowlink is never a guess: the lowlink of a node on the stack is the index
\* of a node on the stack that it reaches, so that a node that closes a
\* component is the first one of its cycle.
LowlinksAreReached ==
    LET closed == Closed
    IN  \A n \in on_stack : \E m \in on_stack :
            lowlinks[n] = indices[m] /\ Reaches(n, m, closed)
=============================================================================
