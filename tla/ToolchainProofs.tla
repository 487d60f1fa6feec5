-------------------------- MODULE ToolchainProofs --------------------------
(***************************************************************************)
(* Proofs about the analysis of any repository: the search for import      *)
(* cycles, in every order of the neighbours, the edges it starts from, and *)
(* the findings it ends with.                                              *)
(***************************************************************************)
EXTENDS Toolchain, OrderingProofs, SequenceTheorems, TLAPS

\* The data of the search; every node met has an index and a lowlink no larger.
NodesSound ==
    /\ frames \in Seq(Frame)
    /\ stack \in Seq(Files)
    /\ index \in Nat
    /\ DOMAIN lowlinks = Met
    /\ \A n \in Met : /\ indices[n] \in Nat /\ indices[n] < index
                      /\ lowlinks[n] \in Nat /\ lowlinks[n] <= indices[n]
    /\ on_stack \subseteq Met
    /\ pc \in {"context", "imports"} => frames = <<>> /\ on_stack = {}

\* Active calls follow the edges, and have only neighbours left to look at.
CallsSound ==
    /\ \A i \in DOMAIN frames : frames[i].todo \subseteq Adjacency(frames[i].node)
    /\ \A i \in DOMAIN frames :
          i + 1 \in DOMAIN frames => frames[i + 1].node \in Adjacency(frames[i].node)

\* The inductive invariant of the search.
SearchInv == NodesSound /\ CallsSound /\ StackInOrder /\ LowlinksAreReached

\* The beginning of a sequence.
LEMMA Beginning ==
    ASSUME NEW S, NEW s \in Seq(S), NEW k \in 0..Len(s)
    PROVE  /\ SubSeq(s, 1, k) \in Seq(S)
           /\ Len(SubSeq(s, 1, k)) = k
           /\ \A i \in 1..k : SubSeq(s, 1, k)[i] = s[i]
OBVIOUS

\* A sequence with one more element.
LEMMA OneMore ==
    ASSUME NEW S, NEW s \in Seq(S), NEW x \in S
    PROVE  /\ Append(s, x) \in Seq(S)
           /\ Len(Append(s, x)) = Len(s) + 1
           /\ \A i \in 1..Len(s) : Append(s, x)[i] = s[i]
           /\ Append(s, x)[Len(s) + 1] = x
OBVIOUS

\* An edge reaches, and what is reached reaches on.
LEMMA ReachesOn ==
    ASSUME NEW n, NEW m, NEW k
    PROVE  /\ Reaches(n, n, Closed)
           /\ m \in Adjacency(n) => Reaches(n, m, Closed)
           /\ Reaches(n, m, Closed) /\ Reaches(m, k, Closed) => Reaches(n, k, Closed)
<1>1. Reaches(n, n, Closed)
  BY DEF Reaches
<1>2. m \in Adjacency(n) => Reaches(n, m, Closed)
  BY DEF Reaches, Closed
<1>3. Reaches(n, m, Closed) /\ Reaches(m, k, Closed) => Reaches(n, k, Closed)
  BY DEF Reaches
<1>4. QED
  BY <1>1, <1>2, <1>3

\* A search that has not begun is sound.
LEMMA SearchStarts ==
    ASSUME Init
    PROVE  SearchInv
<1>1. /\ frames = <<>> /\ stack = <<>> /\ on_stack = {} /\ index = 0
      /\ DOMAIN indices = {} /\ DOMAIN lowlinks = {}
  BY DEF Init, SearchInit
<1>2. NodesSound
  BY <1>1 DEF NodesSound, Met
<1>3. CallsSound /\ StackInOrder /\ LowlinksAreReached
  BY <1>1 DEF CallsSound, StackInOrder, LowlinksAreReached
<1>4. QED
  BY <1>2, <1>3 DEF SearchInv

\* With the same edges everything reaches what it reached.
LEMMA SameGraph ==
    ASSUME edges' = edges
    PROVE  /\ Closed' = Closed
           /\ \A n : Adjacency(n)' = Adjacency(n)
           /\ GraphNodes' = GraphNodes
<1>1. \A n : Adjacency(n)' = Adjacency(n)
  BY DEF Adjacency
<1>2. GraphNodes' = GraphNodes
  BY DEF GraphNodes
<1>3. Closed' = Closed
  BY <1>1, <1>2 DEF Closed
<1>4. QED
  BY <1>1, <1>2, <1>3
-----------------------------------------------------------------------------
(* One step of the search.                                                 *)

\* A call for a node not met before, made by the innermost of the callers.
LEMMA EnterStep ==
    ASSUME SearchInv, NEW n \in Files \ Met, NEW callers \in Seq(Frame),
           Len(callers) = Len(frames),
           \A i \in 1..Len(frames) : /\ callers[i].node = frames[i].node
                                     /\ callers[i].todo \subseteq frames[i].todo,
           frames # <<>> => n \in Adjacency(Top.node),
           Enter(n, callers), pc = "cycles", pc' = pc
    PROVE  SearchInv'
<1>1. /\ frames \in Seq(Frame) /\ stack \in Seq(Files) /\ index \in Nat
      /\ Len(frames) \in Nat /\ Len(stack) \in Nat
      /\ DOMAIN frames = 1..Len(frames) /\ DOMAIN stack = 1..Len(stack)
      /\ on_stack \subseteq Met /\ n \notin on_stack
  BY DEF SearchInv, NodesSound
<1>2. /\ Met' = Met \cup {n} /\ index' = index + 1 /\ edges' = edges
      /\ indices'[n] = index /\ lowlinks'[n] = index
      /\ \A m \in Met : indices'[m] = indices[m]
      /\ \A m \in DOMAIN lowlinks : m # n => lowlinks'[m] = lowlinks[m]
      /\ DOMAIN lowlinks' = DOMAIN lowlinks \cup {n}
      /\ on_stack' = on_stack \cup {n}
  BY DEF Enter, Extended, Met
<1>3. /\ stack' \in Seq(Files) /\ Len(stack') = Len(stack) + 1
      /\ DOMAIN stack' = 1..(Len(stack) + 1)
      /\ \A i \in 1..Len(stack) : stack'[i] = stack[i]
      /\ stack'[Len(stack) + 1] = n
  BY <1>1, OneMore DEF Enter
<1>4. [node |-> n, todo |-> Adjacency(n)] \in Frame
  BY DEF Frame, Adjacency
<1>5. /\ frames' \in Seq(Frame) /\ Len(frames') = Len(frames) + 1
      /\ DOMAIN frames' = 1..(Len(frames) + 1)
      /\ \A i \in 1..Len(frames) : frames'[i] = callers[i]
      /\ frames'[Len(frames) + 1] = [node |-> n, todo |-> Adjacency(n)]
  BY <1>1, <1>4, OneMore DEF Enter
<1>6. NodesSound'
  BY <1>1, <1>2, <1>3, <1>5 DEF SearchInv, NodesSound
<1>7. CallsSound'
  <2>1. \A m : Adjacency(m)' = Adjacency(m)
    BY <1>2, SameGraph
  <2>2. \A i \in DOMAIN frames' : frames'[i].todo \subseteq Adjacency(frames'[i].node)
    <3>1. SUFFICES ASSUME NEW i \in 1..(Len(frames) + 1)
                   PROVE  frames'[i].todo \subseteq Adjacency(frames'[i].node)
      BY <1>5
    <3>2. CASE i = Len(frames) + 1
      BY <1>5, <3>2
    <3>3. CASE i # Len(frames) + 1
      <4>1. i \in 1..Len(frames)
        BY <1>1, <3>3
      <4>2. /\ frames'[i].node = frames[i].node /\ frames'[i].todo \subseteq frames[i].todo
            /\ frames[i].todo \subseteq Adjacency(frames[i].node)
        BY <1>1, <1>5, <4>1 DEF SearchInv, CallsSound
      <4>3. QED
        BY <4>2
    <3>4. QED
      BY <3>2, <3>3
  <2>3. \A i \in 1..Len(frames) : frames'[i + 1].node \in Adjacency(frames'[i].node)
    <3>1. SUFFICES ASSUME NEW i \in 1..Len(frames)
                   PROVE  frames'[i + 1].node \in Adjacency(frames'[i].node)
      OBVIOUS
    <3>2. CASE i = Len(frames)
      BY <1>1, <1>5, <3>2 DEF Top
    <3>3. CASE i # Len(frames)
      <4>1. i + 1 \in 1..Len(frames)
        BY <1>1, <3>3
      <4>2. QED
        BY <1>1, <1>5, <4>1 DEF SearchInv, CallsSound
    <3>4. QED
      BY <3>2, <3>3
  <2>4. QED
    BY <1>1, <1>5, <2>1, <2>2, <2>3 DEF CallsSound
<1>8. StackInOrder'
  <2>1. /\ on_stack = {stack[i] : i \in DOMAIN stack}
        /\ \A i, j \in DOMAIN stack : i < j => indices[stack[i]] < indices[stack[j]]
        /\ \A i \in DOMAIN frames : frames[i].node \in on_stack
        /\ \A i, j \in DOMAIN frames :
              i < j => indices[frames[i].node] < indices[frames[j].node]
    BY DEF SearchInv, StackInOrder
  <2>2. \A m \in on_stack : m \in Met /\ indices[m] < index /\ indices'[m] = indices[m]
    BY <1>1, <1>2 DEF SearchInv, NodesSound
  <2>3. on_stack' = {stack'[i] : i \in DOMAIN stack'}
    BY <1>1, <1>2, <1>3, <2>1
  <2>4. \A i, j \in DOMAIN stack' : i < j => indices'[stack'[i]] < indices'[stack'[j]]
    BY <1>1, <1>2, <1>3, <2>1, <2>2
  <2>5. \A i \in DOMAIN frames' : frames'[i].node \in on_stack'
    BY <1>1, <1>2, <1>5, <2>1
  <2>6. \A i, j \in DOMAIN frames' :
            i < j => indices'[frames'[i].node] < indices'[frames'[j].node]
    <3>1. SUFFICES ASSUME NEW i \in 1..(Len(frames) + 1), NEW j \in 1..(Len(frames) + 1), i < j
                   PROVE  indices'[frames'[i].node] < indices'[frames'[j].node]
      BY <1>5
    <3>2. /\ i \in 1..Len(frames) /\ frames'[i].node = frames[i].node
          /\ frames[i].node \in on_stack
      BY <1>1, <1>5, <2>1, <3>1
    <3>3. CASE j = Len(frames) + 1
      BY <1>2, <1>5, <2>2, <3>2, <3>3
    <3>4. CASE j # Len(frames) + 1
      <4>1. /\ j \in 1..Len(frames) /\ frames'[j].node = frames[j].node
            /\ frames[j].node \in on_stack
        BY <1>1, <1>5, <2>1, <3>4
      <4>2. indices[frames[i].node] < indices[frames[j].node]
        BY <1>1, <2>1, <3>1, <3>2, <4>1
      <4>3. QED
        BY <2>2, <3>2, <4>1, <4>2
    <3>5. QED
      BY <3>3, <3>4
  <2>7. QED
    BY <2>3, <2>4, <2>5, <2>6 DEF StackInOrder
<1>9. LowlinksAreReached'
  <2>1. SUFFICES ASSUME NEW m \in on_stack'
                 PROVE  \E k \in on_stack' : lowlinks'[m] = indices'[k] /\ Reaches(m, k, Closed)
    <3>1. Closed' = Closed
      BY <1>2, SameGraph
    <3>2. QED
      BY <3>1 DEF LowlinksAreReached, Reaches
  <2>2. CASE m = n
    BY <1>2, <2>2, ReachesOn
  <2>3. CASE m # n
    <3>1. PICK k \in on_stack : lowlinks[m] = indices[k] /\ Reaches(m, k, Closed)
      BY <1>2, <2>3 DEF SearchInv, LowlinksAreReached
    <3>2. m \in DOMAIN lowlinks /\ k \in Met /\ k \in on_stack'
      BY <1>1, <1>2, <2>3 DEF SearchInv, NodesSound
    <3>3. QED
      BY <1>2, <2>3, <3>1, <3>2
  <2>4. QED
    BY <2>2, <2>3
<1>10. QED
  BY <1>6, <1>7, <1>8, <1>9 DEF SearchInv

\* The innermost call, its caller and the others.
LEMMA Calls ==
    ASSUME SearchInv, frames # <<>>
    PROVE  /\ Len(frames) \in Nat \ {0} /\ DOMAIN frames = 1..Len(frames)
           /\ Top = frames[Len(frames)] /\ Top.node \in on_stack /\ Top.node \in Met
           /\ Top.node \in Files /\ Top.todo \subseteq Adjacency(Top.node)
           /\ Callers \in Seq(Frame) /\ Len(Callers) = Len(frames) - 1
           /\ DOMAIN Callers = 1..(Len(frames) - 1)
           /\ \A i \in 1..(Len(frames) - 1) : Callers[i] = frames[i]
<1>1. frames \in Seq(Frame) /\ on_stack \subseteq Met
  BY DEF SearchInv, NodesSound
<1>2. Len(frames) \in Nat \ {0} /\ DOMAIN frames = 1..Len(frames)
  BY <1>1
<1>3. Top = frames[Len(frames)] /\ Top \in Frame
  BY <1>1, <1>2 DEF Top
<1>4. Top.node \in on_stack /\ Top.todo \subseteq Adjacency(Top.node)
  BY <1>2, <1>3 DEF SearchInv, StackInOrder, CallsSound
<1>5. /\ Callers \in Seq(Frame) /\ Len(Callers) = Len(frames) - 1
      /\ DOMAIN Callers = 1..(Len(frames) - 1)
      /\ \A i \in 1..(Len(frames) - 1) : Callers[i] = frames[i]
  <2> DEFINE k == Len(frames) - 1
  <2>1. k \in 0..Len(frames)
    BY <1>2
  <2>2. /\ SubSeq(frames, 1, k) \in Seq(Frame) /\ Len(SubSeq(frames, 1, k)) = k
        /\ \A i \in 1..k : SubSeq(frames, 1, k)[i] = frames[i]
    <3> HIDE DEF k
    <3>1. QED
      BY <1>1, <2>1, Beginning
  <2>3. QED
    BY <1>2, <2>2 DEF Callers
<1>6. QED
  BY <1>1, <1>2, <1>3, <1>4, <1>5 DEF Frame

\* The active calls when the innermost one has looked at m.
LEMMA AdvancedCalls ==
    ASSUME SearchInv, frames # <<>>, NEW m
    PROVE  /\ Advanced(m) \in Seq(Frame) /\ Len(Advanced(m)) = Len(frames)
           /\ \A i \in 1..Len(frames) : /\ Advanced(m)[i].node = frames[i].node
                                         /\ Advanced(m)[i].todo \subseteq frames[i].todo
           /\ \A i \in 1..(Len(frames) - 1) : Advanced(m)[i] = frames[i]
           /\ Advanced(m)[Len(frames)].todo = Top.todo \ {m}
<1> DEFINE top == [Top EXCEPT !.todo = @ \ {m}]
<1>1. top \in Frame /\ top.node = Top.node /\ top.todo = Top.todo \ {m}
  <2>1. Top \in Frame
    BY Calls DEF SearchInv, NodesSound
  <2>2. QED
    BY <2>1 DEF Frame
<1>2. /\ Callers \in Seq(Frame) /\ Len(Callers) = Len(frames) - 1
      /\ Len(frames) \in Nat \ {0} /\ Top = frames[Len(frames)]
      /\ \A i \in 1..(Len(frames) - 1) : Callers[i] = frames[i]
  BY Calls
<1>3. Advanced(m) = Append(Callers, top)
  BY DEF Advanced
<1> HIDE DEF top
<1>4. /\ Advanced(m) \in Seq(Frame) /\ Len(Advanced(m)) = Len(Callers) + 1
      /\ \A i \in 1..Len(Callers) : Advanced(m)[i] = Callers[i]
      /\ Advanced(m)[Len(Callers) + 1] = top
  BY <1>1, <1>2, <1>3, OneMore
<1>5. QED
  BY <1>1, <1>2, <1>4

\* The innermost call looks at a node that was met before.
LEMMA SeeStep ==
    ASSUME SearchInv, SeeNeighbor, pc = "cycles", pc' = pc
    PROVE  SearchInv'
<1>1. PICK m \in Top.todo \cap Met :
          /\ lowlinks' = IF m \in on_stack THEN Lower(Top.node, indices[m]) ELSE lowlinks
          /\ frames' = Advanced(m)
  BY DEF SeeNeighbor
<1>2. /\ frames # <<>> /\ UNCHANGED <<edges, index, stack, on_stack, indices>>
  BY DEF SeeNeighbor
<1>3. /\ Top.node \in Met /\ Top.node \in on_stack /\ m \in Adjacency(Top.node)
      /\ DOMAIN frames = 1..Len(frames) /\ frames \in Seq(Frame)
  BY <1>2, Calls DEF SearchInv, NodesSound
<1>4. /\ frames' \in Seq(Frame) /\ DOMAIN frames' = DOMAIN frames
      /\ \A i \in DOMAIN frames : /\ frames'[i].node = frames[i].node
                                   /\ frames'[i].todo \subseteq frames[i].todo
  BY <1>1, <1>2, <1>3, AdvancedCalls
<1>5. /\ Met' = Met /\ DOMAIN lowlinks = Met /\ on_stack \subseteq Met
      /\ \A n \in Met : /\ indices[n] \in Nat /\ lowlinks[n] \in Nat
                        /\ lowlinks[n] <= indices[n]
  BY <1>2 DEF SearchInv, NodesSound, Met
<1>6. /\ DOMAIN lowlinks' = Met
      /\ \A n \in Met : lowlinks'[n] \in Nat /\ lowlinks'[n] <= lowlinks[n]
      /\ \A n \in Met : \/ lowlinks'[n] = lowlinks[n]
                        \/ n = Top.node /\ m \in on_stack /\ lowlinks'[n] = indices[m]
  BY <1>1, <1>3, <1>5 DEF Lower, Smaller
<1>7. NodesSound'
  BY <1>2, <1>4, <1>5, <1>6 DEF SearchInv, NodesSound
<1>8. CallsSound'
  <2>1. \A n : Adjacency(n)' = Adjacency(n)
    BY <1>2, SameGraph
  <2>2. QED
    BY <1>4, <2>1 DEF SearchInv, CallsSound
<1>9. StackInOrder'
  BY <1>2, <1>4 DEF SearchInv, StackInOrder
<1>10. LowlinksAreReached'
  <2>1. SUFFICES ASSUME NEW n \in on_stack
                 PROVE  \E k \in on_stack : lowlinks'[n] = indices[k] /\ Reaches(n, k, Closed)
    <3>1. Closed' = Closed
      BY <1>2, SameGraph
    <3>2. QED
      BY <1>2, <3>1 DEF LowlinksAreReached, Reaches
  <2>2. CASE lowlinks'[n] = lowlinks[n]
    BY <2>2 DEF SearchInv, LowlinksAreReached
  <2>3. CASE n = Top.node /\ m \in on_stack /\ lowlinks'[n] = indices[m]
    BY <1>3, <2>3, ReachesOn
  <2>4. QED
    BY <1>5, <1>6, <2>2, <2>3
<1>11. QED
  BY <1>7, <1>8, <1>9, <1>10 DEF SearchInv

\* A root takes off the stack what was put there since it was entered.
LEMMA RootPops ==
    ASSUME SearchInv, NEW t \in on_stack,
           stack' = SubSeq(stack, 1, Position(t) - 1), on_stack' = on_stack \ Popped(t)
    PROVE  /\ on_stack' = {n \in on_stack : indices[n] < indices[t]}
           /\ stack' \in Seq(Files)
           /\ on_stack' = {stack'[i] : i \in DOMAIN stack'}
           /\ \A i, j \in DOMAIN stack' : i < j => indices[stack'[i]] < indices[stack'[j]]
<1> DEFINE p == Position(t)
<1>1. /\ stack \in Seq(Files) /\ Len(stack) \in Nat /\ DOMAIN stack = 1..Len(stack)
      /\ on_stack = {stack[i] : i \in 1..Len(stack)}
      /\ \A i, j \in 1..Len(stack) : i < j => indices[stack[i]] < indices[stack[j]]
      /\ \A n \in on_stack : indices[n] \in Nat
  BY DEF SearchInv, NodesSound, StackInOrder
<1>2. p \in 1..Len(stack) /\ stack[p] = t
  <2>1. \E i \in DOMAIN stack : stack[i] = t
    BY <1>1
  <2>2. QED
    BY <1>1, <2>1 DEF Position
<1>3. Popped(t) = {stack[i] : i \in p..Len(stack)} /\ stack' = SubSeq(stack, 1, p - 1)
  BY DEF Popped
<1> HIDE DEF p
<1>4. p - 1 \in 0..Len(stack)
  BY <1>1, <1>2
<1>5. /\ stack' \in Seq(Files) /\ Len(stack') = p - 1 /\ DOMAIN stack' = 1..(p - 1)
      /\ \A i \in 1..(p - 1) : stack'[i] = stack[i]
  <2> DEFINE k == p - 1
  <2>1. k \in 0..Len(stack) /\ stack' = SubSeq(stack, 1, k)
    BY <1>3, <1>4
  <2> HIDE DEF k
  <2>2. /\ stack' \in Seq(Files) /\ Len(stack') = k
        /\ \A i \in 1..k : stack'[i] = stack[i]
    BY <1>1, <2>1, Beginning
  <2>3. QED
    BY <2>2 DEF k
<1>6. \A i \in 1..Len(stack) : indices[stack[i]] < indices[t] <=> i < p
  <2>1. SUFFICES ASSUME NEW i \in 1..Len(stack)
                 PROVE  indices[stack[i]] < indices[t] <=> i < p
    OBVIOUS
  <2>2. indices[stack[i]] \in Nat /\ indices[t] \in Nat /\ i \in Nat /\ p \in Nat
    BY <1>1, <1>2
  <2>3. CASE i < p
    BY <1>1, <1>2, <2>3
  <2>4. CASE i = p
    BY <1>2, <2>2, <2>4
  <2>5. CASE i > p
    <3>1. indices[t] < indices[stack[i]]
      BY <1>1, <1>2, <2>5
    <3>2. QED
      BY <2>2, <2>5, <3>1
  <2>6. QED
    BY <2>2, <2>3, <2>4, <2>5
<1>7. on_stack' = {n \in on_stack : indices[n] < indices[t]}
  <2>1. \A i \in 1..Len(stack) : stack[i] \in Popped(t) <=> ~ (i < p)
    <3>1. SUFFICES ASSUME NEW i \in 1..Len(stack)
                   PROVE  stack[i] \in Popped(t) <=> ~ (i < p)
      OBVIOUS
    <3>2. ASSUME ~ (i < p)
          PROVE  stack[i] \in Popped(t)
      <4>1. i \in p..Len(stack)
        BY <1>1, <1>2, <3>2
      <4>2. QED
        BY <1>3, <4>1
    <3>3. ASSUME stack[i] \in Popped(t)
          PROVE  ~ (i < p)
      <4>1. PICK j \in p..Len(stack) : stack[i] = stack[j]
        BY <1>3, <3>3
      <4>2. j \in 1..Len(stack) /\ ~ (j < p)
        BY <1>1, <1>2
      <4>3. ~ (indices[stack[i]] < indices[t])
        BY <1>6, <4>1, <4>2
      <4>4. QED
        BY <1>6, <4>3
    <3>4. QED
      BY <3>2, <3>3
  <2>2. \A i \in 1..Len(stack) : stack[i] \in Popped(t) <=> ~ (indices[stack[i]] < indices[t])
    BY <1>6, <2>1
  <2>3. \A n \in on_stack : n \in Popped(t) <=> ~ (indices[n] < indices[t])
    BY <1>1, <2>2
  <2>4. QED
    BY <2>3
<1>8. on_stack' = {stack'[i] : i \in DOMAIN stack'}
  <2>1. \A n \in on_stack' : \E i \in 1..(p - 1) : n = stack[i]
    <3>1. SUFFICES ASSUME NEW n \in on_stack'
                   PROVE  \E i \in 1..(p - 1) : n = stack[i]
      OBVIOUS
    <3>2. PICK i \in 1..Len(stack) : n = stack[i]
      BY <1>1, <1>7
    <3>3. i < p
      BY <1>6, <1>7, <3>2
    <3>4. i \in 1..(p - 1)
      BY <1>2, <3>3
    <3>5. QED
      BY <3>2, <3>4
  <2>2. \A i \in 1..(p - 1) : stack[i] \in on_stack'
    <3>1. SUFFICES ASSUME NEW i \in 1..(p - 1)
                   PROVE  stack[i] \in on_stack'
      OBVIOUS
    <3>2. i \in 1..Len(stack) /\ i < p
      BY <1>1, <1>2
    <3>3. QED
      BY <1>1, <1>6, <1>7, <3>2
  <2>3. on_stack' = {stack[i] : i \in 1..(p - 1)}
    BY <2>1, <2>2
  <2>4. QED
    BY <1>5, <2>3
<1>9. \A i, j \in DOMAIN stack' : i < j => indices[stack'[i]] < indices[stack'[j]]
  <2>1. \A i \in 1..(p - 1) : i \in 1..Len(stack)
    BY <1>1, <1>2
  <2>2. QED
    BY <1>1, <1>5, <2>1
<1>10. QED
  BY <1>5, <1>7, <1>8, <1>9

\* The innermost call returns.
LEMMA ReturnStep ==
    ASSUME SearchInv, ReturnFromCall, pc = "cycles", pc' = pc
    PROVE  SearchInv'
<1> DEFINE t == Top.node
           c == Callers[Len(Callers)].node
           root == lowlinks[t] = indices[t]
<1>1. /\ frames # <<>> /\ CloseComponent /\ frames' = Callers
      /\ lowlinks' = IF Callers = <<>> THEN lowlinks ELSE Lower(c, lowlinks[t])
      /\ UNCHANGED <<edges, index, indices>>
  BY DEF ReturnFromCall
<1>2. /\ Len(frames) \in Nat \ {0} /\ DOMAIN frames = 1..Len(frames)
      /\ t = frames[Len(frames)].node /\ t \in on_stack /\ t \in Met
      /\ Callers \in Seq(Frame) /\ Len(Callers) = Len(frames) - 1
      /\ DOMAIN Callers = 1..(Len(frames) - 1)
      /\ \A i \in 1..(Len(frames) - 1) : Callers[i] = frames[i]
  BY <1>1, Calls
<1>3. Callers # <<>> => /\ Len(frames) - 1 \in DOMAIN frames
                        /\ c = frames[Len(frames) - 1].node
                        /\ c \in on_stack /\ c \in Met /\ indices[c] < indices[t]
                        /\ t \in Adjacency(c)
  <2>1. SUFFICES ASSUME Callers # <<>>
                 PROVE  /\ Len(frames) - 1 \in DOMAIN frames
                        /\ c = frames[Len(frames) - 1].node
                        /\ c \in on_stack /\ c \in Met /\ indices[c] < indices[t]
                        /\ t \in Adjacency(c)
    OBVIOUS
  <2>2. Len(Callers) # 0
    BY <1>2, <2>1
  <2>3. /\ Len(frames) - 1 \in 1..(Len(frames) - 1) /\ Len(frames) - 1 \in 1..Len(frames)
        /\ Len(frames) \in 1..Len(frames) /\ Len(frames) - 1 < Len(frames)
        /\ (Len(frames) - 1) + 1 = Len(frames)
    BY <1>2, <2>2
  <2>4. c = frames[Len(frames) - 1].node
    BY <1>2, <2>3
  <2>5. QED
    BY <1>2, <2>3, <2>4 DEF SearchInv, StackInOrder, CallsSound, NodesSound
<1> HIDE DEF t, c, root
<1>4. /\ DOMAIN lowlinks = Met /\ on_stack \subseteq Met /\ Met' = Met
      /\ \A n \in Met : /\ indices[n] \in Nat /\ lowlinks[n] \in Nat
                        /\ lowlinks[n] <= indices[n] /\ indices[n] < index
  BY <1>1 DEF SearchInv, NodesSound, Met
<1>5. /\ DOMAIN lowlinks' = Met
      /\ \A n \in Met : lowlinks'[n] \in Nat /\ lowlinks'[n] <= indices[n]
      /\ \A n \in Met : \/ lowlinks'[n] = lowlinks[n]
                        \/ /\ n = c /\ Callers # <<>> /\ lowlinks'[n] = lowlinks[t]
                           /\ lowlinks[t] <= lowlinks[c]
  <2>1. CASE Callers = <<>>
    BY <1>1, <1>4, <2>1
  <2>2. CASE Callers # <<>>
    BY <1>1, <1>2, <1>3, <1>4, <2>2 DEF Lower, Smaller
  <2>3. QED
    BY <2>1, <2>2
<1>6. /\ stack' \in Seq(Files)
      /\ on_stack' = IF root THEN {n \in on_stack : indices[n] < indices[t]} ELSE on_stack
      /\ on_stack' = {stack'[i] : i \in DOMAIN stack'}
      /\ \A i, j \in DOMAIN stack' : i < j => indices[stack'[i]] < indices[stack'[j]]
  <2>1. CASE root
    <3>1. stack' = SubSeq(stack, 1, Position(t) - 1) /\ on_stack' = on_stack \ Popped(t)
      BY <1>1, <2>1 DEF CloseComponent, root, t
    <3>2. QED
      BY <1>2, <2>1, <3>1, RootPops
  <2>2. CASE ~ root
    <3>1. stack' = stack /\ on_stack' = on_stack
      BY <1>1, <2>2 DEF CloseComponent, root, t
    <3>2. QED
      BY <2>2, <3>1 DEF SearchInv, StackInOrder, NodesSound
  <2>3. QED
    BY <2>1, <2>2
<1>7. NodesSound'
  BY <1>1, <1>2, <1>4, <1>5, <1>6 DEF SearchInv, NodesSound
<1>8. \A i \in DOMAIN frames' : i \in DOMAIN frames /\ frames'[i] = frames[i] /\ i < Len(frames)
  BY <1>1, <1>2
<1>9. CallsSound'
  <2>1. \A n : Adjacency(n)' = Adjacency(n)
    BY <1>1, SameGraph
  <2>2. QED
    BY <1>8, <2>1 DEF SearchInv, CallsSound
<1>10. StackInOrder'
  <2>1. \A i \in DOMAIN frames' : frames'[i].node \in on_stack'
    <3>1. SUFFICES ASSUME NEW i \in DOMAIN frames'
                   PROVE  frames[i].node \in on_stack'
      BY <1>8
    <3>2. i \in DOMAIN frames /\ Len(frames) \in DOMAIN frames /\ i < Len(frames)
      BY <1>2, <1>8
    <3>3. frames[i].node \in on_stack /\ indices[frames[i].node] < indices[t]
      BY <1>2, <3>2 DEF SearchInv, StackInOrder
    <3>4. QED
      BY <1>6, <3>3
  <2>2. \A i, j \in DOMAIN frames' :
            i < j => indices'[frames'[i].node] < indices'[frames'[j].node]
    BY <1>1, <1>8 DEF SearchInv, StackInOrder
  <2>3. QED
    BY <1>1, <1>6, <2>1, <2>2 DEF StackInOrder
<1>11. LowlinksAreReached'
  <2>1. SUFFICES ASSUME NEW n \in on_stack'
                 PROVE  \E k \in on_stack' : lowlinks'[n] = indices[k] /\ Reaches(n, k, Closed)
    <3>1. Closed' = Closed
      BY <1>1, SameGraph
    <3>2. QED
      BY <1>1, <3>1 DEF LowlinksAreReached, Reaches
  <2>2. n \in on_stack /\ n \in Met /\ (root => indices[n] < indices[t])
    BY <1>4, <1>6
  <2>3. CASE lowlinks'[n] = lowlinks[n]
    <3>1. PICK k \in on_stack : lowlinks[n] = indices[k] /\ Reaches(n, k, Closed)
      BY <2>2 DEF SearchInv, LowlinksAreReached
    <3>2. root => indices[k] < indices[t]
      BY <1>2, <1>4, <2>2, <3>1
    <3>3. k \in on_stack'
      BY <1>6, <3>2
    <3>4. QED
      BY <2>3, <3>1, <3>3
  <2>4. CASE /\ n = c /\ Callers # <<>> /\ lowlinks'[n] = lowlinks[t]
             /\ lowlinks[t] <= lowlinks[c]
    <3>1. ~ root
      BY <1>2, <1>3, <1>4, <2>4 DEF root
    <3>2. PICK k \in on_stack : lowlinks[t] = indices[k] /\ Reaches(t, k, Closed)
      BY <1>2 DEF SearchInv, LowlinksAreReached
    <3>3. Reaches(c, k, Closed)
      BY <1>3, <2>4, <3>2, ReachesOn
    <3>4. QED
      BY <1>6, <2>4, <3>1, <3>2, <3>3
  <2>5. QED
    BY <1>5, <2>2, <2>3, <2>4
<1>12. QED
  BY <1>7, <1>9, <1>10, <1>11 DEF SearchInv

\* Every step of an analysis keeps the search sound.
LEMMA SearchStep ==
    ASSUME SearchInv, [Next]_vars
    PROVE  SearchInv'
<1>1. ASSUME StartAtRoot, pc = "cycles", pc' = pc
      PROVE  SearchInv'
  <2>1. PICK n \in GraphNodes \ Met : Enter(n, <<>>) /\ frames = <<>>
    BY <1>1 DEF StartAtRoot
  <2>2. n \in Files \ Met /\ <<>> \in Seq(Frame) /\ Len(frames) = 0 /\ Len(<<>>) = 0
    BY <2>1 DEF GraphNodes
  <2>3. QED
    BY <1>1, <2>1, <2>2, EnterStep
<1>2. ASSUME VisitNeighbor, pc = "cycles", pc' = pc
      PROVE  SearchInv'
  <2>1. PICK m \in Top.todo \ Met : Enter(m, Advanced(m)) /\ frames # <<>>
    BY <1>2 DEF VisitNeighbor
  <2>2. m \in Adjacency(Top.node) /\ m \in Files \ Met
    BY <2>1, Calls DEF Adjacency
  <2>3. QED
    BY <1>2, <2>1, <2>2, AdvancedCalls, EnterStep
<1>3. ASSUME SearchCycles
      PROVE  SearchInv'
  BY <1>1, <1>2, <1>3, SeeStep, ReturnStep DEF SearchCycles, SearchNext
<1>4. ASSUME UNCHANGED searchVars, pc' \in {"context", "imports"} => pc \in {"context", "imports"}
      PROVE  SearchInv'
  <2>1. /\ UNCHANGED <<edges, frames, index, stack, on_stack, indices, lowlinks>>
        /\ Met' = Met
    BY <1>4 DEF searchVars, Met
  <2>2. Closed' = Closed /\ \A n : Adjacency(n)' = Adjacency(n)
    BY <2>1, SameGraph
  <2>3. NodesSound'
    BY <1>4, <2>1 DEF SearchInv, NodesSound
  <2>4. CallsSound'
    BY <2>1, <2>2 DEF SearchInv, CallsSound
  <2>5. StackInOrder'
    BY <2>1 DEF SearchInv, StackInOrder
  <2>6. LowlinksAreReached'
    BY <2>1, <2>2 DEF SearchInv, LowlinksAreReached, Reaches
  <2>7. QED
    BY <2>3, <2>4, <2>5, <2>6 DEF SearchInv
<1>5. ASSUME ScanImports
      PROVE  SearchInv'
  <2>1. /\ frames = <<>> /\ on_stack = {} /\ pc' = "cycles"
        /\ UNCHANGED <<frames, index, stack, on_stack, indices, lowlinks>> /\ Met' = Met
    BY <1>5 DEF ScanImports, SearchInv, NodesSound, Met
  <2>2. NodesSound' /\ StackInOrder'
    BY <2>1 DEF SearchInv, NodesSound, StackInOrder
  <2>3. CallsSound' /\ LowlinksAreReached'
    BY <2>1 DEF CallsSound, LowlinksAreReached
  <2>4. QED
    BY <2>2, <2>3 DEF SearchInv
<1>6. BuildContext \/ SourceRaises \/ KeepCycles \/ ApplyRules \/ UNCHANGED vars
        => /\ UNCHANGED searchVars
           /\ pc' \in {"context", "imports"} => pc \in {"context", "imports"}
  BY DEF BuildContext, SourceRaises, KeepCycles, ApplyRules, vars
<1>7. QED
  BY <1>3, <1>4, <1>5, <1>6 DEF Next

\* The search is sound throughout.
LEMMA SearchInvariant == Spec => []SearchInv
<1>1. Init => SearchInv
  BY SearchStarts
<1>2. SearchInv /\ [Next]_vars => SearchInv'
  BY SearchStep
<1>3. QED
  BY <1>1, <1>2, PTL DEF Spec
-----------------------------------------------------------------------------
(* What the search has found so far.                                       *)

\* The nodes whose calls have returned with their components.
Done == Met \ on_stack

Active(n) == \E i \in DOMAIN frames : frames[i].node = n

\* The call of n has not looked at m.
Pending(n, m) == \E i \in DOMAIN frames : frames[i].node = n /\ m \in frames[i].todo

\* n was met while frame i was the innermost one, or below a call of it that
\* has returned.
Under(i, n) ==
    /\ n \in on_stack
    /\ indices[frames[i].node] <= indices[n]
    /\ i + 1 \in DOMAIN frames => indices[n] < indices[frames[i + 1].node]

\* All files that import n and that n imports, directly or not.
CycleOf(n) == {m \in GraphNodes : Reaches(m, n, Closed) /\ Reaches(n, m, Closed)}

\* What is on the stack was put there by the outermost call or below it.
NodesPlaced ==
    /\ Met \subseteq GraphNodes
    /\ components \in Seq(SUBSET Files)
    /\ pc \in {"context", "imports"} => Met = {} /\ components = <<>>
    /\ \A n \in on_stack : frames # <<>> /\ indices[frames[1].node] <= indices[n]

\* No edge is forgotten.
EdgesFollowed ==
    /\ \A n \in Met : \A m \in Adjacency(n) \ Met : Pending(n, m)
    /\ \A n \in on_stack : \A m \in Adjacency(n) \cap on_stack :
          Pending(n, m) \/ lowlinks[n] <= indices[m]
    /\ \A n \in Done : Adjacency(n) \subseteq Done

\* A call that has returned was no root, and its lowlink went to its caller.
LowlinksHandedOver ==
    /\ \A n \in on_stack : Active(n) \/ lowlinks[n] < indices[n]
    /\ \A i \in DOMAIN frames : \A n \in on_stack :
          Under(i, n) => lowlinks[frames[i].node] <= lowlinks[n]

\* The node of a call reaches all that was put on the stack after it.
CallsReach ==
    \A i \in DOMAIN frames : \A n \in on_stack :
        indices[frames[i].node] <= indices[n] => Reaches(frames[i].node, n, Closed)

\* The components are the cycles of the nodes that are done, each of them once.
CyclesKept ==
    /\ \A i \in DOMAIN components :
          components[i] \subseteq Done /\ components[i] \in ImportCyclesOf(Closed)
    /\ \A i, j \in DOMAIN components : i # j => components[i] # components[j]
    /\ \A n \in Done : Cardinality(CycleOf(n)) > 1 =>
          \E i \in DOMAIN components : components[i] = CycleOf(n)

\* The inductive invariant of what the search finds, on top of SearchInv.
FoundInv == NodesPlaced /\ EdgesFollowed /\ LowlinksHandedOver /\ CallsReach /\ CyclesKept

\* With the same edges a node is on the same cycle.
LEMMA SameCycles ==
    ASSUME edges' = edges
    PROVE  /\ \A n : CycleOf(n)' = CycleOf(n)
           /\ ImportCyclesOf(Closed)' = ImportCyclesOf(Closed)
<1>1. Closed' = Closed /\ GraphNodes' = GraphNodes
  BY SameGraph
<1>2. \A n : CycleOf(n)' = CycleOf(n)
  BY <1>1 DEF CycleOf, Reaches
<1>3. ImportCyclesOf(Closed)' = ImportCyclesOf(Closed)
  BY <1>1 DEF ImportCyclesOf, Reaches
<1>4. QED
  BY <1>2, <1>3

\* The cycles are the classes of more than one file.
LEMMA CyclesAreClasses ==
    ImportCyclesOf(Closed) = {C \in {CycleOf(n) : n \in GraphNodes} : Cardinality(C) > 1}
BY DEF ImportCyclesOf, CycleOf

\* A search that has not begun has found nothing.
LEMMA FoundStarts ==
    ASSUME Init
    PROVE  FoundInv
<1>1. /\ frames = <<>> /\ on_stack = {} /\ DOMAIN indices = {} /\ components = <<>>
  BY DEF Init, SearchInit
<1>2. Met = {} /\ Done = {}
  BY <1>1 DEF Met, Done
<1>3. NodesPlaced
  BY <1>1, <1>2 DEF NodesPlaced
<1>4. EdgesFollowed /\ LowlinksHandedOver /\ CallsReach
  BY <1>1, <1>2 DEF EdgesFollowed, LowlinksHandedOver, CallsReach
<1>5. CyclesKept
  BY <1>1, <1>2 DEF CyclesKept
<1>6. QED
  BY <1>3, <1>4, <1>5 DEF FoundInv

\* What a new call changes.
LEMMA EnterFacts ==
    ASSUME SearchInv, NEW n \in Files \ Met, NEW callers \in Seq(Frame),
           Len(callers) = Len(frames), Enter(n, callers)
    PROVE  /\ Len(frames) \in Nat /\ DOMAIN frames = 1..Len(frames)
           /\ on_stack \subseteq Met /\ n \notin on_stack /\ index \in Nat
           /\ Met' = Met \cup {n} /\ edges' = edges /\ components' = components
           /\ indices'[n] = index /\ lowlinks'[n] = index
           /\ \A m \in Met : /\ indices'[m] = indices[m] /\ lowlinks'[m] = lowlinks[m]
                             /\ indices[m] \in Nat /\ indices[m] < index
                             /\ lowlinks[m] \in Nat /\ lowlinks[m] <= indices[m]
           /\ on_stack' = on_stack \cup {n}
           /\ DOMAIN frames' = 1..(Len(frames) + 1)
           /\ \A i \in 1..Len(frames) : frames'[i] = callers[i]
           /\ frames'[Len(frames) + 1] = [node |-> n, todo |-> Adjacency(n)]
<1>1. /\ frames \in Seq(Frame) /\ Len(frames) \in Nat /\ DOMAIN frames = 1..Len(frames)
      /\ on_stack \subseteq Met /\ n \notin on_stack /\ index \in Nat
      /\ DOMAIN lowlinks = Met
      /\ \A m \in Met : /\ indices[m] \in Nat /\ indices[m] < index
                        /\ lowlinks[m] \in Nat /\ lowlinks[m] <= indices[m]
  BY DEF SearchInv, NodesSound
<1>2. /\ Met' = Met \cup {n} /\ edges' = edges /\ components' = components
      /\ indices'[n] = index /\ lowlinks'[n] = index
      /\ \A m \in Met : indices'[m] = indices[m] /\ lowlinks'[m] = lowlinks[m]
      /\ on_stack' = on_stack \cup {n}
  BY <1>1 DEF Enter, Extended, Met
<1>3. [node |-> n, todo |-> Adjacency(n)] \in Frame
  BY DEF Frame, Adjacency
<1>4. /\ DOMAIN frames' = 1..(Len(frames) + 1)
      /\ \A i \in 1..Len(frames) : frames'[i] = callers[i]
      /\ frames'[Len(frames) + 1] = [node |-> n, todo |-> Adjacency(n)]
  BY <1>1, <1>3, OneMore DEF Enter
<1>5. QED
  BY <1>1, <1>2, <1>4

\* The order of the active calls, whose nodes are on the stack.
LEMMA CallsInOrder ==
    ASSUME SearchInv
    PROVE  /\ \A i \in DOMAIN frames : /\ frames[i].node \in on_stack /\ frames[i].node \in Met
                                       /\ indices[frames[i].node] \in Nat
           /\ \A i, j \in DOMAIN frames : /\ i < j => indices[frames[i].node] < indices[frames[j].node]
                                          /\ i <= j => indices[frames[i].node] <= indices[frames[j].node]
<1>1. frames \in Seq(Frame) /\ DOMAIN frames \subseteq Nat
  BY DEF SearchInv, NodesSound
<1>2. \A i \in DOMAIN frames : /\ frames[i].node \in on_stack /\ frames[i].node \in Met
                               /\ indices[frames[i].node] \in Nat
  BY DEF SearchInv, NodesSound, StackInOrder
<1>3. \A i, j \in DOMAIN frames : i < j => indices[frames[i].node] < indices[frames[j].node]
  BY DEF SearchInv, StackInOrder
<1>4. QED
  BY <1>1, <1>2, <1>3

\* A call for a node not met before forgets nothing that was found.
LEMMA EnterFinds ==
    ASSUME SearchInv, FoundInv, NEW n \in GraphNodes \ Met, NEW callers \in Seq(Frame),
           Len(callers) = Len(frames),
           \A i \in 1..Len(frames) : /\ callers[i].node = frames[i].node
                                     /\ frames[i].todo \ {n} \subseteq callers[i].todo,
           frames # <<>> => n \in Adjacency(Top.node),
           Enter(n, callers), pc = "cycles", pc' = pc
    PROVE  FoundInv'
<1> DEFINE L == Len(frames)
<1>1. n \in Files \ Met
  BY DEF GraphNodes
<1>2. /\ L \in Nat /\ DOMAIN frames = 1..L
      /\ on_stack \subseteq Met /\ n \notin on_stack /\ index \in Nat
      /\ Met' = Met \cup {n} /\ edges' = edges /\ components' = components
      /\ indices'[n] = index /\ lowlinks'[n] = index
      /\ \A m \in Met : /\ indices'[m] = indices[m] /\ lowlinks'[m] = lowlinks[m]
                        /\ indices[m] \in Nat /\ indices[m] < index
                        /\ lowlinks[m] \in Nat /\ lowlinks[m] <= indices[m]
      /\ on_stack' = on_stack \cup {n}
      /\ DOMAIN frames' = 1..(L + 1)
      /\ \A i \in 1..L : /\ frames'[i].node = frames[i].node
                         /\ frames[i].todo \ {n} \subseteq frames'[i].todo
      /\ frames'[L + 1].node = n /\ frames'[L + 1].todo = Adjacency(n)
  <2>1. /\ Len(frames) \in Nat /\ DOMAIN frames = 1..Len(frames)
        /\ on_stack \subseteq Met /\ n \notin on_stack /\ index \in Nat
        /\ Met' = Met \cup {n} /\ edges' = edges /\ components' = components
        /\ indices'[n] = index /\ lowlinks'[n] = index
        /\ \A m \in Met : /\ indices'[m] = indices[m] /\ lowlinks'[m] = lowlinks[m]
                          /\ indices[m] \in Nat /\ indices[m] < index
                          /\ lowlinks[m] \in Nat /\ lowlinks[m] <= indices[m]
        /\ on_stack' = on_stack \cup {n}
    BY <1>1, EnterFacts
  <2>2. /\ DOMAIN frames' = 1..(Len(frames) + 1)
        /\ \A i \in 1..Len(frames) : frames'[i] = callers[i]
        /\ frames'[Len(frames) + 1] = [node |-> n, todo |-> Adjacency(n)]
    BY <1>1, EnterFacts
  <2>3. QED
    BY <2>1, <2>2
<1>3. /\ \A i \in 1..L : /\ frames[i].node \in on_stack /\ frames[i].node \in Met
                         /\ indices[frames[i].node] \in Nat
      /\ \A i, j \in 1..L : i <= j => indices[frames[i].node] <= indices[frames[j].node]
  BY <1>2, CallsInOrder
<1>4. /\ Closed' = Closed /\ GraphNodes' = GraphNodes
      /\ \A m : Adjacency(m)' = Adjacency(m) /\ CycleOf(m)' = CycleOf(m)
      /\ ImportCyclesOf(Closed)' = ImportCyclesOf(Closed)
  BY <1>2, SameGraph, SameCycles
<1>5. \A k, m : m # n => (Pending(k, m) => Pending(k, m)')
  <2>1. SUFFICES ASSUME NEW k, NEW m, m # n, Pending(k, m)
                 PROVE  \E i \in DOMAIN frames' : frames'[i].node = k /\ m \in frames'[i].todo
    BY DEF Pending
  <2>2. PICK i \in 1..L : frames[i].node = k /\ m \in frames[i].todo
    BY <1>2, <2>1 DEF Pending
  <2>3. i \in DOMAIN frames' /\ frames'[i].node = k /\ m \in frames'[i].todo
    BY <1>2, <2>1, <2>2
  <2>4. QED
    BY <2>3
<1>6. \A m : Pending(n, m)' <=> m \in Adjacency(n)
  <2>1. \A i \in 1..(L + 1) : frames'[i].node = n <=> i = L + 1
    BY <1>2, <1>3
  <2>2. L + 1 \in 1..(L + 1)
    BY <1>2
  <2>3. QED
    BY <1>2, <2>1, <2>2 DEF Pending
<1>7. Done' = Done
  BY <1>2 DEF Done
<1>8. NodesPlaced'
  <2>1. \A m \in on_stack' : frames' # <<>> /\ indices'[frames'[1].node] <= indices'[m]
    <3>1. SUFFICES ASSUME NEW m \in on_stack'
                   PROVE  frames' # <<>> /\ indices'[frames'[1].node] <= indices'[m]
      OBVIOUS
    <3>2. frames' # <<>>
      BY <1>2
    <3>3. CASE L = 0
      <4>1. on_stack = {}
        BY <1>2, <3>3 DEF FoundInv, NodesPlaced, SearchInv, NodesSound
      <4>2. QED
        BY <1>2, <3>2, <3>3, <4>1
    <3>4. CASE L # 0
      <4>1. 1 \in 1..L /\ frames # <<>>
        BY <1>2, <3>4
      <4>2. frames'[1].node = frames[1].node /\ frames[1].node \in Met
        BY <1>2, <1>3, <4>1
      <4>3. m \in on_stack => indices[frames[1].node] <= indices[m]
        BY DEF FoundInv, NodesPlaced
      <4>4. QED
        BY <1>2, <3>2, <4>2, <4>3
    <3>5. QED
      BY <3>3, <3>4
  <2>2. QED
    BY <1>2, <1>4, <2>1 DEF FoundInv, NodesPlaced
<1>9. EdgesFollowed'
  <2>1. \A k \in Met' : \A m \in Adjacency(k) \ Met' : Pending(k, m)'
    BY <1>2, <1>5, <1>6 DEF FoundInv, EdgesFollowed
  <2>2. \A k \in on_stack' : \A m \in Adjacency(k) \cap on_stack' :
            Pending(k, m)' \/ lowlinks'[k] <= indices'[m]
    <3>1. SUFFICES ASSUME NEW k \in on_stack', NEW m \in Adjacency(k) \cap on_stack',
                          ~ Pending(k, m)'
                   PROVE  lowlinks'[k] <= indices'[m]
      OBVIOUS
    <3>2. k # n /\ k \in on_stack /\ k \in Met
      BY <1>2, <1>6, <3>1
    <3>3. CASE m = n
      BY <1>2, <3>2, <3>3
    <3>4. CASE m # n
      <4>1. m \in on_stack /\ m \in Met /\ ~ Pending(k, m)
        BY <1>2, <1>5, <3>1, <3>4
      <4>2. lowlinks[k] <= indices[m]
        BY <3>1, <3>2, <4>1 DEF FoundInv, EdgesFollowed
      <4>3. QED
        BY <1>2, <3>2, <4>1, <4>2
    <3>5. QED
      BY <3>3, <3>4
  <2>3. \A k \in Done' : Adjacency(k) \subseteq Done'
    BY <1>7 DEF FoundInv, EdgesFollowed
  <2>4. QED
    BY <1>4, <2>1, <2>2, <2>3 DEF EdgesFollowed
<1>10. LowlinksHandedOver'
  <2>1. \A k \in on_stack' : Active(k)' \/ lowlinks'[k] < indices'[k]
    <3>1. Active(n)'
      <4>1. L + 1 \in 1..(L + 1)
        BY <1>2
      <4>2. QED
        BY <1>2, <4>1 DEF Active
    <3>2. \A k : Active(k) => Active(k)'
      <4>1. \A i \in 1..L : i \in 1..(L + 1)
        BY <1>2
      <4>2. QED
        BY <1>2, <4>1 DEF Active
    <3>3. QED
      BY <1>2, <3>1, <3>2 DEF FoundInv, LowlinksHandedOver
  <2>2. ASSUME NEW i \in 1..(L + 1), NEW k \in on_stack', Under(i, k)'
        PROVE  lowlinks'[frames'[i].node] <= lowlinks'[k]
    <3>1. /\ indices'[frames'[i].node] <= indices'[k]
          /\ i + 1 \in 1..(L + 1) => indices'[k] < indices'[frames'[i + 1].node]
      BY <1>2, <2>2 DEF Under
    <3>2. CASE i = L + 1
      <4>1. k = n
        BY <1>2, <3>1, <3>2
      <4>2. QED
        BY <1>2, <3>2, <4>1
    <3>3. CASE i # L + 1
      <4>1. i \in 1..L /\ i + 1 \in 1..(L + 1) /\ (i + 1 # L + 1 => i + 1 \in 1..L)
        BY <1>2, <3>3
      <4>2. frames'[i].node = frames[i].node /\ frames[i].node \in Met
        BY <1>2, <1>3, <4>1
      <4>3. k # n
        <5>1. indices'[frames'[i + 1].node] <= index
          BY <1>2, <1>3, <4>1
        <5>2. indices'[frames'[i + 1].node] \in Nat
          BY <1>2, <1>3, <4>1
        <5>3. QED
          BY <1>2, <3>1, <4>1, <5>1, <5>2
      <4>4. k \in on_stack /\ k \in Met
        BY <1>2, <4>3
      <4>5. Under(i, k)
        <5>1. indices[frames[i].node] <= indices[k]
          BY <1>2, <3>1, <4>2, <4>4
        <5>2. ASSUME i + 1 \in 1..L
              PROVE  indices[k] < indices[frames[i + 1].node]
          <6>1. frames'[i + 1].node = frames[i + 1].node /\ frames[i + 1].node \in Met
            BY <1>2, <1>3, <5>2
          <6>2. QED
            BY <1>2, <3>1, <4>1, <4>4, <6>1
        <5>3. QED
          BY <1>2, <4>4, <5>1, <5>2 DEF Under
      <4>6. lowlinks[frames[i].node] <= lowlinks[k]
        BY <1>2, <4>1, <4>4, <4>5 DEF FoundInv, LowlinksHandedOver
      <4>7. QED
        BY <1>2, <4>2, <4>4, <4>6
    <3>4. QED
      BY <3>2, <3>3
  <2>3. QED
    BY <1>2, <2>1, <2>2 DEF LowlinksHandedOver
<1>11. CallsReach'
  <2>1. SUFFICES ASSUME NEW i \in 1..(L + 1), NEW k \in on_stack',
                        indices'[frames'[i].node] <= indices'[k]
                 PROVE  Reaches(frames'[i].node, k, Closed)
    BY <1>2, <1>4 DEF CallsReach, Reaches
  <2>2. CASE i = L + 1
    <3>1. k = n
      BY <1>2, <2>1, <2>2
    <3>2. QED
      BY <1>2, <2>2, <3>1, ReachesOn
  <2>3. CASE i # L + 1
    <3>1. /\ i \in 1..L /\ L \in 1..L /\ i <= L /\ frames # <<>>
          /\ frames'[i].node = frames[i].node /\ frames[i].node \in Met
      BY <1>2, <1>3, <2>3
    <3>2. CASE k = n
      <4>1. Top.node = frames[L].node /\ n \in Adjacency(Top.node)
        BY <3>1 DEF Top
      <4>2. Reaches(frames[i].node, Top.node, Closed)
        BY <1>2, <1>3, <3>1, <4>1 DEF FoundInv, CallsReach
      <4>3. QED
        BY <3>1, <3>2, <4>1, <4>2, ReachesOn
    <3>3. CASE k # n
      <4>1. k \in on_stack /\ k \in Met /\ indices[frames[i].node] <= indices[k]
        BY <1>2, <2>1, <3>1, <3>3
      <4>2. QED
        BY <1>2, <3>1, <4>1 DEF FoundInv, CallsReach
    <3>4. QED
      BY <3>2, <3>3
  <2>4. QED
    BY <2>2, <2>3
<1>12. CyclesKept'
  BY <1>2, <1>4, <1>7 DEF FoundInv, CyclesKept
<1>13. QED
  BY <1>8, <1>9, <1>10, <1>11, <1>12 DEF FoundInv

\* Looking at a node that was met before forgets nothing that was found.
LEMMA SeeFinds ==
    ASSUME SearchInv, FoundInv, SeeNeighbor, pc = "cycles", pc' = pc
    PROVE  FoundInv'
<1> DEFINE L == Len(frames)
           t == Top.node
<1>1. PICK m \in Top.todo \cap Met :
          /\ lowlinks' = IF m \in on_stack THEN Lower(t, indices[m]) ELSE lowlinks
          /\ frames' = Advanced(m)
  BY DEF SeeNeighbor
<1>2. /\ frames # <<>> /\ UNCHANGED <<edges, index, stack, on_stack, indices, components>>
  BY DEF SeeNeighbor
<1>3. /\ L \in Nat \ {0} /\ DOMAIN frames = 1..L /\ t = frames[L].node /\ Top = frames[L]
      /\ t \in on_stack /\ t \in Met
  BY <1>2, Calls
<1>4. /\ Advanced(m) \in Seq(Frame) /\ Len(Advanced(m)) = L
      /\ \A i \in 1..L : Advanced(m)[i].node = frames[i].node
      /\ \A i \in 1..(L - 1) : Advanced(m)[i] = frames[i]
      /\ Advanced(m)[L].todo = Top.todo \ {m}
  BY <1>2, AdvancedCalls
<1>5. /\ DOMAIN frames' = 1..L /\ frames' # <<>>
      /\ \A i \in 1..L : /\ frames'[i].node = frames[i].node
                         /\ i # L => frames'[i].todo = frames[i].todo
      /\ frames'[L].todo = Top.todo \ {m}
  <2>1. /\ frames' \in Seq(Frame) /\ Len(frames') = L
        /\ \A i \in 1..L : frames'[i].node = frames[i].node
        /\ \A i \in 1..(L - 1) : frames'[i] = frames[i]
        /\ frames'[L].todo = Top.todo \ {m}
    BY <1>1, <1>4
  <2>2. L \in Nat \ {0}
    BY <1>3
  <2> HIDE DEF L
  <2>3. DOMAIN frames' = 1..L /\ frames' # <<>>
    BY <2>1, <2>2
  <2>4. \A i \in 1..L : i # L => i \in 1..(L - 1)
    BY <2>2
  <2>5. QED
    BY <2>1, <2>3, <2>4
<1>6. /\ on_stack \subseteq Met /\ Met' = Met /\ Done' = Done
      /\ \A n \in Met : indices[n] \in Nat /\ lowlinks[n] \in Nat
      /\ DOMAIN lowlinks = Met
  BY <1>2 DEF SearchInv, NodesSound, Met, Done
<1> HIDE DEF L, t
<1>7. /\ \A n \in Met : lowlinks'[n] \in Nat /\ lowlinks'[n] <= lowlinks[n]
      /\ \A n \in Met : n # t => lowlinks'[n] = lowlinks[n]
      /\ m \in on_stack => lowlinks'[t] <= indices[m]
  BY <1>1, <1>3, <1>6 DEF Lower, Smaller
<1>8. /\ Closed' = Closed /\ GraphNodes' = GraphNodes
      /\ \A n : Adjacency(n)' = Adjacency(n) /\ CycleOf(n)' = CycleOf(n)
      /\ ImportCyclesOf(Closed)' = ImportCyclesOf(Closed)
  BY <1>2, SameGraph, SameCycles
<1>9. /\ \A i \in 1..L : /\ frames[i].node \in on_stack /\ frames[i].node \in Met
                         /\ indices[frames[i].node] \in Nat
      /\ \A i, j \in 1..L : i < j => indices[frames[i].node] < indices[frames[j].node]
      /\ \A i, j \in 1..L : i <= j => indices[frames[i].node] <= indices[frames[j].node]
  BY <1>3, CallsInOrder
<1>10. \A k, x : Pending(k, x) => Pending(k, x)' \/ (k = t /\ x = m)
  <2>1. SUFFICES ASSUME NEW k, NEW x, Pending(k, x), ~ (k = t /\ x = m)
                 PROVE  \E i \in DOMAIN frames' : frames'[i].node = k /\ x \in frames'[i].todo
    BY DEF Pending
  <2>2. PICK i \in 1..L : frames[i].node = k /\ x \in frames[i].todo
    BY <1>3, <2>1 DEF Pending
  <2>3. i \in DOMAIN frames' /\ frames'[i].node = k /\ x \in frames'[i].todo
    BY <1>3, <1>5, <2>1, <2>2
  <2>4. QED
    BY <2>3
<1>11. NodesPlaced'
  <2>1. 1 \in 1..L
    BY <1>3
  <2>2. QED
    BY <1>2, <1>5, <1>6, <1>8, <2>1 DEF FoundInv, NodesPlaced
<1>12. EdgesFollowed'
  <2>1. \A k \in Met : \A x \in Adjacency(k) \ Met : Pending(k, x)'
    BY <1>1, <1>10 DEF FoundInv, EdgesFollowed
  <2>2. \A k \in on_stack : \A x \in Adjacency(k) \cap on_stack :
            Pending(k, x)' \/ lowlinks'[k] <= indices[x]
    <3>1. SUFFICES ASSUME NEW k \in on_stack, NEW x \in Adjacency(k) \cap on_stack,
                          ~ Pending(k, x)'
                   PROVE  lowlinks'[k] <= indices[x]
      OBVIOUS
    <3>2. CASE k = t /\ x = m
      BY <1>7, <3>1, <3>2
    <3>3. CASE ~ (k = t /\ x = m)
      <4>1. ~ Pending(k, x)
        BY <1>10, <3>1, <3>3
      <4>2. lowlinks[k] <= indices[x] /\ k \in Met /\ x \in Met
        BY <1>6, <3>1, <4>1 DEF FoundInv, EdgesFollowed
      <4>3. QED
        BY <1>6, <1>7, <4>2
    <3>4. QED
      BY <3>2, <3>3
  <2>3. QED
    BY <1>2, <1>6, <1>8, <2>1, <2>2 DEF FoundInv, EdgesFollowed
<1>13. \A i, k : i \in 1..L => (Under(i, k)' <=> Under(i, k))
  <2>1. SUFFICES ASSUME NEW i \in 1..L, NEW k
                 PROVE  Under(i, k)' <=> Under(i, k)
    OBVIOUS
  <2>2. frames'[i].node = frames[i].node
    BY <1>5
  <2>3. i + 1 \in 1..L => frames'[i + 1].node = frames[i + 1].node
    BY <1>5
  <2>4. DOMAIN frames' = DOMAIN frames /\ DOMAIN frames = 1..L
    BY <1>3, <1>5
  <2>5. QED
    BY <1>2, <2>2, <2>3, <2>4 DEF Under
<1>14. LowlinksHandedOver'
  <2>1. \A k \in on_stack : Active(k)' \/ lowlinks'[k] < indices[k]
    <3>1. \A k : Active(k) => Active(k)'
      BY <1>3, <1>5 DEF Active
    <3>2. SUFFICES ASSUME NEW k \in on_stack, ~ Active(k)
                   PROVE  lowlinks'[k] < indices[k]
      BY <3>1
    <3>3. lowlinks[k] < indices[k] /\ k \in Met
      BY <1>6, <3>2 DEF FoundInv, LowlinksHandedOver
    <3>4. QED
      BY <1>6, <1>7, <3>3
  <2>2. ASSUME NEW i \in 1..L, NEW k \in on_stack, Under(i, k)
        PROVE  lowlinks'[frames[i].node] <= lowlinks'[k]
    <3>1. lowlinks[frames[i].node] <= lowlinks[k] /\ k \in Met /\ frames[i].node \in Met
      BY <1>3, <1>6, <1>9, <2>2 DEF FoundInv, LowlinksHandedOver
    <3>2. CASE k = t
      <4>1. i = L
        <5>1. SUFFICES ASSUME i # L
                       PROVE  FALSE
          OBVIOUS
        <5>2. i + 1 \in 1..L /\ i + 1 <= L /\ L \in 1..L
          BY <1>3, <5>1
        <5>3. indices[t] < indices[frames[i + 1].node]
          BY <1>3, <2>2, <3>2, <5>2 DEF Under
        <5>4. indices[frames[i + 1].node] <= indices[t]
          BY <1>3, <1>9, <5>2
        <5>5. QED
          BY <1>3, <1>6, <1>9, <5>2, <5>3, <5>4
      <4>2. QED
        BY <1>3, <1>7, <3>1, <3>2, <4>1
    <3>3. CASE k # t
      BY <1>6, <1>7, <3>1, <3>3
    <3>4. QED
      BY <3>2, <3>3
  <2>3. QED
    BY <1>2, <1>3, <1>5, <1>13, <2>1, <2>2 DEF LowlinksHandedOver
<1>15. CallsReach'
  BY <1>2, <1>3, <1>5, <1>8 DEF FoundInv, CallsReach, Reaches
<1>16. CyclesKept'
  BY <1>2, <1>6, <1>8 DEF FoundInv, CyclesKept
<1>17. QED
  BY <1>11, <1>12, <1>14, <1>15, <1>16 DEF FoundInv

\* What a root pops off the stack is a whole cycle, or a node on no cycle.
LEMMA RootClosesCycle ==
    ASSUME SearchInv, FoundInv, frames # <<>>, Top.todo = {},
           lowlinks[Top.node] = indices[Top.node], NEW P,
           P = {n \in on_stack : indices[Top.node] <= indices[n]}
    PROVE  /\ Top.node \in P
           /\ \A n \in P : CycleOf(n) = P
           /\ \A n \in P : Adjacency(n) \subseteq Done \cup P
<1> DEFINE L == Len(frames)
           t == Top.node
<1>1. /\ L \in Nat \ {0} /\ DOMAIN frames = 1..L /\ L \in 1..L
      /\ t = frames[L].node /\ Top = frames[L] /\ t \in on_stack /\ t \in Met
  BY Calls
<1>2. /\ on_stack \subseteq Met
      /\ \A n \in Met : indices[n] \in Nat /\ lowlinks[n] \in Nat
  BY DEF SearchInv, NodesSound
<1>3. \A i \in 1..L : i # L => indices[frames[i].node] < indices[t]
  <2>1. SUFFICES ASSUME NEW i \in 1..L, i # L
                 PROVE  indices[frames[i].node] < indices[t]
    OBVIOUS
  <2>2. L \in Nat /\ i \in DOMAIN frames /\ L \in DOMAIN frames
    BY <1>1
  <2>3. i < L
    <3> HIDE DEF L
    <3>1. QED
      BY <2>1, <2>2
  <2>4. QED
    BY <1>1, <2>2, <2>3, CallsInOrder
<1>4. t \in P /\ P \subseteq on_stack
  BY <1>1, <1>2
<1>5. \A n \in P : lowlinks[t] <= lowlinks[n]
  <2>1. ASSUME NEW n \in P
        PROVE  Under(L, n)
    <3>1. L + 1 \notin DOMAIN frames
      BY <1>1
    <3>2. QED
      BY <1>1, <3>1 DEF Under
  <2>2. QED
    BY <1>1, <1>4, <2>1 DEF FoundInv, LowlinksHandedOver
<1>6. \A n \in P : Reaches(t, n, Closed)
  BY <1>1, <1>4 DEF FoundInv, CallsReach
<1> HIDE DEF L, t
<1>7. \A n \in P : \A x : ~ Pending(n, x)
  <2>1. SUFFICES ASSUME NEW n \in P, NEW i \in 1..L, frames[i].node = n
                 PROVE  frames[i].todo = {}
    BY <1>1 DEF Pending
  <2>2. i = L
    BY <1>1, <1>2, <1>3, <1>4, <2>1 DEF t
  <2>3. QED
    BY <1>1, <2>2
<1>8. \A n \in P : Adjacency(n) \subseteq Done \cup P
  <2>1. SUFFICES ASSUME NEW n \in P, NEW x \in Adjacency(n), x \notin Done
                 PROVE  x \in P
    OBVIOUS
  <2>2. x \in Met /\ x \in on_stack
    BY <1>2, <1>4, <1>7, <2>1 DEF FoundInv, EdgesFollowed, Done
  <2>3. lowlinks[n] <= indices[x]
    BY <1>4, <1>7, <2>1, <2>2 DEF FoundInv, EdgesFollowed
  <2>4. lowlinks[t] <= lowlinks[n] /\ lowlinks[t] = indices[t]
    BY <1>5, <2>1 DEF t
  <2>5. indices[t] <= indices[x]
    BY <1>1, <1>2, <1>4, <2>1, <2>2, <2>3, <2>4
  <2>6. QED
    BY <2>2, <2>5 DEF t
<1>9. \A n \in P : Reaches(n, t, Closed)
  <2> DEFINE lost == {n \in P : ~ Reaches(n, t, Closed)}
  <2>1. SUFFICES ASSUME lost # {}
                 PROVE  FALSE
    OBVIOUS
  <2>2. PICK n \in lost : \A x \in lost : indices[n] <= indices[x]
    <3> DEFINE T == {indices[n] : n \in lost}
    <3>1. T \in SUBSET Nat /\ T # {}
      BY <1>2, <1>4, <2>1
    <3>2. PICK least \in T : \A x \in T : least <= x
      <4> HIDE DEF T
      <4>1. QED
        BY <3>1, SmallestNumber
    <3>3. QED
      BY <3>2
  <2>3. n \in P /\ n # t /\ n \in on_stack /\ n \in Met
    BY <1>2, <1>4, ReachesOn
  <2>4. ~ Active(n)
    <3>1. SUFFICES ASSUME NEW i \in 1..L, frames[i].node = n
                   PROVE  FALSE
      BY <1>1 DEF Active
    <3>2. indices[t] <= indices[n]
      BY <2>3 DEF t
    <3>3. QED
      BY <1>1, <1>2, <1>3, <2>3, <3>1, <3>2
  <2>5. lowlinks[n] < indices[n]
    BY <2>3, <2>4 DEF FoundInv, LowlinksHandedOver
  <2>6. PICK k \in on_stack : lowlinks[n] = indices[k] /\ Reaches(n, k, Closed)
    BY <2>3 DEF SearchInv, LowlinksAreReached
  <2>7. indices[t] <= indices[k]
    BY <1>5, <2>3, <2>6 DEF t
  <2>8. k \in P /\ k \notin lost
    BY <1>2, <2>2, <2>3, <2>5, <2>6, <2>7 DEF t
  <2>9. QED
    BY <2>6, <2>8, ReachesOn
<1>10. P \subseteq GraphNodes
  BY <1>2, <1>4 DEF FoundInv, NodesPlaced
<1>11. Done \in Closed /\ Done \cup P \in Closed
  <2>1. Done \subseteq GraphNodes
    BY DEF Done, FoundInv, NodesPlaced
  <2>2. \A n \in Done : Adjacency(n) \subseteq Done
    BY DEF FoundInv, EdgesFollowed
  <2>3. QED
    BY <1>8, <1>10, <2>1, <2>2 DEF Closed
<1>12. \A n \in P : n \notin Done
  BY <1>4 DEF Done
<1>13. \A n \in P : CycleOf(n) = P
  <2>1. SUFFICES ASSUME NEW n \in P
                 PROVE  CycleOf(n) = P
    OBVIOUS
  <2>2. ASSUME NEW m \in P
        PROVE  m \in CycleOf(n)
    <3>1. Reaches(m, n, Closed)
      BY <1>6, <1>9, <2>1, <2>2, ReachesOn
    <3>2. Reaches(n, m, Closed)
      BY <1>6, <1>9, <2>1, <2>2, ReachesOn
    <3>3. QED
      BY <1>10, <3>1, <3>2 DEF CycleOf
  <2>3. ASSUME NEW m \in CycleOf(n)
        PROVE  m \in P
    <3>1. Reaches(m, n, Closed) /\ Reaches(n, m, Closed)
      BY DEF CycleOf
    <3>2. m \in Done \cup P
      BY <1>11, <2>1, <3>1 DEF Reaches
    <3>3. m \notin Done
      BY <1>11, <1>12, <2>1, <3>1 DEF Reaches
    <3>4. QED
      BY <3>2, <3>3
  <2>4. QED
    BY <2>2, <2>3
<1>14. QED
  BY <1>4, <1>8, <1>13 DEF t

\* What the return of the innermost call changes.
LEMMA ReturnFacts ==
    ASSUME SearchInv, NodesPlaced, ReturnFromCall, NEW t, t = Top.node,
           NEW L, L = Len(frames), NEW root, root = (lowlinks[t] = indices[t])
    PROVE  /\ L \in Nat \ {0} /\ L \in 1..L /\ DOMAIN frames = 1..L /\ frames # <<>>
           /\ t = frames[L].node /\ frames[L].todo = {} /\ t \in on_stack
           /\ Met' = Met /\ UNCHANGED <<edges, index, indices>> /\ on_stack \subseteq Met
           /\ DOMAIN frames' = 1..(L - 1) /\ \A i \in 1..(L - 1) : frames'[i] = frames[i]
           /\ \A n \in Met : /\ indices[n] \in Nat /\ lowlinks[n] \in Nat
                             /\ lowlinks'[n] \in Nat /\ lowlinks'[n] <= lowlinks[n]
           /\ \A i \in 1..L : /\ frames[i].node \in on_stack
                              /\ i # L => indices[frames[i].node] < indices[t]
           /\ L # 1 => /\ frames[L - 1].node # t
                       /\ lowlinks'[frames[L - 1].node] <= lowlinks[t]
                       /\ \A n \in Met \ {frames[L - 1].node} : lowlinks'[n] = lowlinks[n]
           /\ L = 1 => root
<1>1. /\ frames # <<>> /\ Top.todo = {} /\ frames' = Callers /\ UNCHANGED <<edges, index, indices>>
      /\ lowlinks' = IF Callers = <<>> THEN lowlinks
                     ELSE Lower(Callers[Len(Callers)].node, lowlinks[t])
  BY DEF ReturnFromCall
<1>2. /\ L \in Nat \ {0} /\ DOMAIN frames = 1..L /\ Top = frames[L] /\ t \in on_stack
      /\ Callers \in Seq(Frame) /\ Len(Callers) = L - 1 /\ DOMAIN Callers = 1..(L - 1)
      /\ \A i \in 1..(L - 1) : Callers[i] = frames[i]
  BY <1>1, Calls
<1>3. /\ Met' = Met /\ on_stack \subseteq Met /\ DOMAIN lowlinks = Met
      /\ \A n \in Met : /\ indices[n] \in Nat /\ lowlinks[n] \in Nat
                        /\ lowlinks[n] <= indices[n]
  BY <1>1 DEF SearchInv, NodesSound, Met
<1>4. \A i \in 1..L : /\ frames[i].node \in on_stack /\ frames[i].node \in Met
                      /\ i # L => indices[frames[i].node] < indices[t]
  <2>1. \A i \in 1..L : (i # L => i < L) /\ L \in 1..L
    BY <1>2
  <2>2. QED
    BY <1>2, <2>1, CallsInOrder
<1>5. L # 1 => /\ Callers # <<>> /\ L - 1 \in 1..L /\ L - 1 # L
               /\ Callers[Len(Callers)].node = frames[L - 1].node
  <2>1. L # 1 => L - 1 \in 1..(L - 1) /\ L - 1 \in 1..L /\ L - 1 # L /\ L - 1 # 0
    BY <1>2
  <2>2. QED
    BY <1>2, <2>1
<1>6. L = 1 => Callers = <<>>
  BY <1>2
<1>7. \A n \in Met : lowlinks'[n] \in Nat /\ lowlinks'[n] <= lowlinks[n]
  <2>1. CASE L = 1
    BY <1>1, <1>3, <1>6, <2>1
  <2>2. CASE L # 1
    BY <1>1, <1>2, <1>3, <1>5, <2>2 DEF Lower, Smaller
  <2>3. QED
    BY <2>1, <2>2
<1>8. L # 1 => /\ frames[L - 1].node # t
               /\ lowlinks'[frames[L - 1].node] <= lowlinks[t]
               /\ \A n \in Met \ {frames[L - 1].node} : lowlinks'[n] = lowlinks[n]
  <2>1. SUFFICES ASSUME L # 1
                 PROVE  /\ frames[L - 1].node # t
                        /\ lowlinks'[frames[L - 1].node] <= lowlinks[t]
                        /\ \A n \in Met \ {frames[L - 1].node} : lowlinks'[n] = lowlinks[n]
    OBVIOUS
  <2>2. frames[L - 1].node \in Met /\ indices[frames[L - 1].node] < indices[t]
    BY <1>4, <1>5, <2>1
  <2>3. frames[L - 1].node # t
    BY <1>2, <1>3, <2>2
  <2>4. QED
    BY <1>1, <1>2, <1>3, <1>5, <2>1, <2>2, <2>3 DEF Lower, Smaller
<1>9. L = 1 => root
  <2>1. SUFFICES ASSUME L = 1
                 PROVE  lowlinks[t] = indices[t]
    OBVIOUS
  <2>2. PICK k \in on_stack : lowlinks[t] = indices[k]
    BY <1>2 DEF SearchInv, LowlinksAreReached
  <2>3. indices[t] <= indices[k]
    BY <1>2, <2>1 DEF NodesPlaced
  <2>4. QED
    BY <1>2, <1>3, <2>2, <2>3
<1>10. L \in 1..L
  BY <1>2
<1>11. QED
  BY <1>1, <1>2, <1>3, <1>4, <1>7, <1>8, <1>9, <1>10

\* A root leaves the nodes that were met before it on the stack.
LEMMA ReturnPops ==
    ASSUME SearchInv, ReturnFromCall, NEW t, t = Top.node
    PROVE  LET P == {n \in on_stack : indices[t] <= indices[n]}
           IN  IF lowlinks[t] = indices[t]
               THEN /\ on_stack' = on_stack \ P
                    /\ components' = IF Cardinality(P) > 1 THEN Append(components, P)
                                     ELSE components
               ELSE on_stack' = on_stack /\ components' = components
<1> DEFINE P == {n \in on_stack : indices[t] <= indices[n]}
<1>1. CASE lowlinks[t] = indices[t]
  <2>1. /\ stack' = SubSeq(stack, 1, Position(t) - 1) /\ on_stack' = on_stack \ Popped(t)
        /\ components' = IF Cardinality(Popped(t)) > 1 THEN Append(components, Popped(t))
                         ELSE components
    BY <1>1 DEF ReturnFromCall, CloseComponent
  <2>2. t \in on_stack
    BY Calls DEF ReturnFromCall
  <2>3. on_stack' = {n \in on_stack : indices[n] < indices[t]}
    BY <2>1, <2>2, RootPops
  <2>4. \A n \in on_stack : indices[n] \in Nat
    BY DEF SearchInv, NodesSound
  <2>5. Popped(t) \subseteq on_stack
    <3>1. SUFFICES ASSUME NEW i \in Position(t)..Len(stack)
                   PROVE  stack[i] \in on_stack
      BY DEF Popped
    <3>2. stack \in Seq(Files) /\ on_stack = {stack[j] : j \in DOMAIN stack}
      BY DEF SearchInv, NodesSound, StackInOrder
    <3>3. \E j \in DOMAIN stack : stack[j] = t
      BY <2>2, <3>2
    <3>4. Position(t) \in DOMAIN stack
      BY <3>3 DEF Position
    <3>5. i \in DOMAIN stack
      BY <3>2, <3>4
    <3>6. QED
      BY <3>2, <3>5
  <2>6. Popped(t) = P
    <3>1. \A n \in on_stack : n \in Popped(t) <=> ~ (indices[n] < indices[t])
      BY <2>1, <2>3
    <3>2. QED
      BY <2>2, <2>4, <2>5, <3>1
  <2>7. QED
    BY <1>1, <2>1, <2>6
<1>2. CASE lowlinks[t] # indices[t]
  BY <1>2 DEF ReturnFromCall, CloseComponent
<1>3. QED
  BY <1>1, <1>2

\* The return of a call forgets nothing that was found.
LEMMA ReturnFinds ==
    ASSUME SearchInv, FoundInv, ReturnFromCall, pc = "cycles", pc' = pc
    PROVE  FoundInv'
<1> DEFINE L == Len(frames)
           t == Top.node
           c == frames[L - 1].node
           root == lowlinks[t] = indices[t]
           P == {n \in on_stack : indices[t] <= indices[n]}
<1>1. /\ L \in Nat \ {0} /\ L \in 1..L /\ DOMAIN frames = 1..L /\ frames # <<>>
      /\ t = frames[L].node /\ frames[L].todo = {} /\ t \in on_stack
      /\ Met' = Met /\ UNCHANGED <<edges, index, indices>> /\ on_stack \subseteq Met
      /\ DOMAIN frames' = 1..(L - 1) /\ \A i \in 1..(L - 1) : frames'[i] = frames[i]
      /\ \A n \in Met : /\ indices[n] \in Nat /\ lowlinks[n] \in Nat
                        /\ lowlinks'[n] \in Nat /\ lowlinks'[n] <= lowlinks[n]
      /\ \A i \in 1..L : /\ frames[i].node \in on_stack
                         /\ i # L => indices[frames[i].node] < indices[t]
      /\ L # 1 => /\ c # t /\ lowlinks'[c] <= lowlinks[t]
                  /\ \A n \in Met \ {c} : lowlinks'[n] = lowlinks[n]
      /\ L = 1 => root
  BY ReturnFacts DEF FoundInv
<1>2. IF root THEN /\ on_stack' = on_stack \ P
                   /\ components' = IF Cardinality(P) > 1 THEN Append(components, P)
                                    ELSE components
      ELSE on_stack' = on_stack /\ components' = components
  BY ReturnPops
<1>3. root => /\ t \in P /\ \A n \in P : CycleOf(n) = P
              /\ \A n \in P : Adjacency(n) \subseteq Done \cup P
  <2>1. Top.todo = {} /\ frames # <<>>
    BY DEF ReturnFromCall
  <2>2. QED
    BY <2>1, RootClosesCycle
<1>4. /\ \A i \in 1..L : i + 1 \in 1..L => indices[frames[i].node] < indices[frames[i + 1].node]
      /\ \A i, j \in 1..L : i < j => indices[frames[i].node] < indices[frames[j].node]
      /\ \A i, j \in 1..L : i <= j => indices[frames[i].node] <= indices[frames[j].node]
  <2>1. L \in Nat /\ DOMAIN frames = 1..L
    BY <1>1
  <2> HIDE DEF L
  <2>2. \A i \in 1..L : i < i + 1
    BY <2>1
  <2>3. QED
    BY <2>1, <2>2, CallsInOrder
<1>5. /\ Closed' = Closed /\ GraphNodes' = GraphNodes
      /\ \A n : Adjacency(n)' = Adjacency(n) /\ CycleOf(n)' = CycleOf(n)
      /\ ImportCyclesOf(Closed)' = ImportCyclesOf(Closed)
  BY <1>1, SameGraph, SameCycles
<1> HIDE DEF L, t, c, root
<1>6. \A i \in 1..(L - 1) : i \in 1..L /\ i # L
  BY <1>1
<1>7. \A i \in 1..L : i # L => i \in 1..(L - 1)
  BY <1>1
<1>8. \A k, x : Pending(k, x) => Pending(k, x)'
  <2>1. SUFFICES ASSUME NEW k, NEW x, Pending(k, x)
                 PROVE  \E i \in DOMAIN frames' : frames'[i].node = k /\ x \in frames'[i].todo
    BY DEF Pending
  <2>2. PICK i \in 1..L : frames[i].node = k /\ x \in frames[i].todo
    BY <1>1, <2>1 DEF Pending
  <2>3. i \in DOMAIN frames' /\ frames'[i] = frames[i]
    BY <1>1, <1>7, <2>2
  <2>4. QED
    BY <2>2, <2>3
<1>9. on_stack' \subseteq on_stack /\ Done \subseteq Done'
  BY <1>1, <1>2 DEF Done
<1>10. NodesPlaced'
  <2>1. ASSUME NEW n \in on_stack'
        PROVE  frames' # <<>> /\ indices[frames'[1].node] <= indices[n]
    <3>1. indices[frames[1].node] <= indices[n] /\ n \in on_stack
      BY <1>9, <2>1 DEF FoundInv, NodesPlaced
    <3>2. L # 1
      <4>1. SUFFICES ASSUME L = 1
                     PROVE  FALSE
        OBVIOUS
      <4>2. root /\ frames[1].node = t
        BY <1>1, <4>1
      <4>3. n \in P
        BY <3>1, <4>2
      <4>4. QED
        BY <1>2, <2>1, <4>2, <4>3
    <3>3. 1 \in 1..(L - 1)
      BY <1>1, <3>2
    <3>4. QED
      BY <1>1, <3>1, <3>3
  <2>2. components' \in Seq(SUBSET Files)
    <3>1. components \in Seq(SUBSET Files) /\ P \in SUBSET Files
      <4>1. Met \subseteq Files
        BY DEF FoundInv, NodesPlaced, GraphNodes
      <4>2. QED
        BY <1>1, <4>1 DEF FoundInv, NodesPlaced
    <3> HIDE DEF P
    <3>2. QED
      BY <1>2, <3>1
  <2>3. Met' \subseteq GraphNodes'
    BY <1>1, <1>5 DEF FoundInv, NodesPlaced
  <2>4. QED
    BY <1>1, <2>1, <2>2, <2>3 DEF NodesPlaced
<1>11. EdgesFollowed'
  <2>1. \A k \in Met : \A x \in Adjacency(k) \ Met : Pending(k, x)'
    BY <1>8 DEF FoundInv, EdgesFollowed
  <2>2. \A k \in on_stack' : \A x \in Adjacency(k) \cap on_stack' :
            Pending(k, x)' \/ lowlinks'[k] <= indices[x]
    <3>1. SUFFICES ASSUME NEW k \in on_stack', NEW x \in Adjacency(k) \cap on_stack',
                          ~ Pending(k, x)
                   PROVE  lowlinks'[k] <= indices[x]
      BY <1>8
    <3>2. lowlinks[k] <= indices[x] /\ k \in Met /\ x \in Met
      BY <1>1, <1>9, <3>1 DEF FoundInv, EdgesFollowed
    <3>3. QED
      BY <1>1, <3>2
  <2>3. \A k \in Done' : Adjacency(k) \subseteq Done'
    <3>1. CASE root
      <4>1. Done' = Done \cup P
        BY <1>1, <1>2, <3>1 DEF Done
      <4>2. \A k \in Done : Adjacency(k) \subseteq Done
        BY DEF FoundInv, EdgesFollowed
      <4> HIDE DEF P
      <4>3. QED
        BY <1>3, <3>1, <4>1, <4>2
    <3>2. CASE ~ root
      <4>1. Done' = Done
        BY <1>1, <1>2, <3>2 DEF Done
      <4>2. QED
        BY <4>1 DEF FoundInv, EdgesFollowed
    <3>3. QED
      BY <3>1, <3>2
  <2>4. QED
    BY <1>1, <1>5, <2>1, <2>2, <2>3 DEF EdgesFollowed
<1>12. LowlinksHandedOver'
  <2>1. ASSUME NEW k \in on_stack'
        PROVE  Active(k)' \/ lowlinks'[k] < indices[k]
    <3>1. k \in on_stack /\ k \in Met
      BY <1>1, <1>9, <2>1
    <3>2. CASE k = t
      <4>1. ~ root
        BY <1>2, <1>3, <2>1, <3>2
      <4>2. L # 1 /\ c # t /\ lowlinks'[t] = lowlinks[t]
        BY <1>1, <3>1, <3>2, <4>1
      <4>3. lowlinks[t] # indices[t] /\ lowlinks[t] <= indices[t]
        BY <3>1, <3>2, <4>1 DEF root, SearchInv, NodesSound
      <4>4. QED
        BY <1>1, <3>1, <3>2, <4>2, <4>3
    <3>3. CASE k # t /\ Active(k)
      <4>1. PICK i \in 1..L : frames[i].node = k
        BY <1>1, <3>3 DEF Active
      <4>2. i \in DOMAIN frames' /\ frames'[i].node = k
        BY <1>1, <1>7, <3>3, <4>1
      <4>3. QED
        BY <4>2 DEF Active
    <3>4. CASE ~ Active(k)
      <4>1. lowlinks[k] < indices[k]
        BY <3>1, <3>4 DEF FoundInv, LowlinksHandedOver
      <4>2. QED
        BY <1>1, <3>1, <4>1
    <3>5. QED
      BY <3>2, <3>3, <3>4
  <2>2. ASSUME NEW i \in 1..(L - 1), NEW k \in on_stack', Under(i, k)'
        PROVE  lowlinks'[frames[i].node] <= lowlinks'[k]
    <3>1. /\ i \in 1..L /\ i + 1 \in 1..L /\ i # L /\ L # 1
          /\ k \in on_stack /\ k \in Met /\ frames[i].node \in Met
          /\ frames'[i] = frames[i]
      BY <1>1, <1>9, <2>2
    <3>2. indices[frames[i].node] <= indices[k]
      BY <1>1, <2>2, <3>1 DEF Under
    <3>3. CASE i # L - 1
      <4>1. i + 1 \in 1..(L - 1) /\ i + 1 <= L - 1 /\ L - 1 \in 1..L
        BY <1>1, <3>1, <3>3
      <4>2. indices[k] < indices[frames[i + 1].node]
        BY <1>1, <2>2, <4>1 DEF Under
      <4>3. Under(i, k)
        BY <3>1, <3>2, <4>2 DEF Under
      <4>4. lowlinks[frames[i].node] <= lowlinks[k]
        BY <1>1, <3>1, <4>3 DEF FoundInv, LowlinksHandedOver
      <4>5. k # c
        <5>1. indices[frames[i + 1].node] <= indices[c] /\ c \in Met
          BY <1>1, <1>4, <3>1, <4>1 DEF c
        <5>2. frames[i + 1].node \in Met
          BY <1>1, <3>1
        <5>3. QED
          BY <1>1, <3>1, <4>2, <5>1, <5>2
      <4>6. lowlinks'[k] = lowlinks[k] /\ lowlinks'[frames[i].node] <= lowlinks[frames[i].node]
        BY <1>1, <3>1, <4>5
      <4>7. QED
        BY <1>1, <3>1, <4>4, <4>6
    <3>4. CASE i = L - 1
      <4>1. frames[i].node = c /\ c \in Met
        BY <3>1, <3>4 DEF c
      <4>2. CASE k = c
        BY <1>1, <4>1, <4>2
      <4>3. CASE k # c /\ indices[k] < indices[t]
        <5>1. Under(i, k)
          BY <1>1, <3>1, <3>2, <3>4, <4>3 DEF Under
        <5>2. lowlinks[c] <= lowlinks[k]
          BY <1>1, <3>1, <4>1, <5>1 DEF FoundInv, LowlinksHandedOver
        <5>3. QED
          BY <1>1, <3>1, <4>1, <4>3, <5>2
      <4>4. CASE k # c /\ ~ (indices[k] < indices[t])
        <5>1. Under(L, k)
          <6>1. L + 1 \notin 1..L
            BY <1>1
          <6>2. indices[t] <= indices[k]
            BY <1>1, <3>1, <4>4
          <6>3. QED
            BY <1>1, <3>1, <6>1, <6>2 DEF Under
        <5>2. lowlinks[t] <= lowlinks[k]
          BY <1>1, <3>1, <5>1 DEF FoundInv, LowlinksHandedOver
        <5>3. lowlinks'[c] <= lowlinks[t] /\ lowlinks'[k] = lowlinks[k]
          BY <1>1, <3>1, <4>4
        <5>4. QED
          BY <1>1, <3>1, <4>1, <5>2, <5>3
      <4>5. QED
        BY <4>2, <4>3, <4>4
    <3>5. QED
      BY <3>3, <3>4
  <2>3. QED
    BY <1>1, <2>1, <2>2 DEF LowlinksHandedOver
<1>13. CallsReach'
  BY <1>1, <1>5, <1>6, <1>9 DEF FoundInv, CallsReach, Reaches
<1>14. CyclesKept'
  <2>1. CASE root /\ Cardinality(P) > 1
    <3>1. Done' = Done \cup P /\ P \cap Done = {} /\ P # {}
      BY <1>1, <1>2, <1>3, <2>1 DEF Done
    <3>2. P \in ImportCyclesOf(Closed)
      <4>1. t \in GraphNodes /\ P = CycleOf(t)
        BY <1>1, <1>3, <2>1 DEF FoundInv, NodesPlaced
      <4>2. QED
        BY <2>1, <4>1, CyclesAreClasses
    <3> HIDE DEF P
    <3> DEFINE m == Len(components)
    <3>3. /\ components' = Append(components, P) /\ components \in Seq(SUBSET Files)
          /\ m \in Nat /\ DOMAIN components = 1..m /\ DOMAIN components' = 1..(m + 1)
          /\ \A i \in 1..m : components'[i] = components[i]
          /\ components'[m + 1] = P
      BY <1>2, <2>1 DEF FoundInv, NodesPlaced
    <3> HIDE DEF m
    <3>4. \A i \in 1..(m + 1) : i \in 1..m \/ i = m + 1
      BY <3>3
    <3>5. \A i \in 1..m : components[i] \subseteq Done /\ components[i] \in ImportCyclesOf(Closed)
      BY <3>3 DEF FoundInv, CyclesKept
    <3>6. \A i \in 1..m : components[i] # P
      BY <3>1, <3>5
    <3>7. \A i \in DOMAIN components' :
              components'[i] \subseteq Done' /\ components'[i] \in ImportCyclesOf(Closed)
      BY <3>1, <3>2, <3>3, <3>4, <3>5
    <3>8. \A i, j \in DOMAIN components' : i # j => components'[i] # components'[j]
      <4>1. \A i, j \in 1..m : i # j => components[i] # components[j]
        BY <3>3 DEF FoundInv, CyclesKept
      <4>2. QED
        BY <3>3, <3>4, <3>6, <4>1
    <3>9. \A n \in Done' : Cardinality(CycleOf(n)) > 1 =>
              \E i \in DOMAIN components' : components'[i] = CycleOf(n)
      <4>1. ASSUME NEW n \in Done, Cardinality(CycleOf(n)) > 1
            PROVE  \E i \in DOMAIN components' : components'[i] = CycleOf(n)
        <5>1. PICK i \in 1..m : components[i] = CycleOf(n)
          BY <3>3, <4>1 DEF FoundInv, CyclesKept
        <5>2. i \in 1..(m + 1) /\ components'[i] = CycleOf(n)
          BY <3>3, <5>1
        <5>3. QED
          BY <3>3, <5>2
      <4>2. ASSUME NEW n \in P
            PROVE  \E i \in DOMAIN components' : components'[i] = CycleOf(n)
        <5>1. m + 1 \in DOMAIN components' /\ CycleOf(n) = P
          BY <1>3, <2>1, <3>3, <4>2
        <5>2. QED
          BY <3>3, <5>1
      <4>3. QED
        BY <3>1, <4>1, <4>2
    <3>10. QED
      BY <1>5, <3>7, <3>8, <3>9 DEF CyclesKept
  <2>2. CASE root /\ ~ (Cardinality(P) > 1)
    <3>1. Done' = Done \cup P /\ components' = components
      BY <1>1, <1>2, <2>2 DEF Done
    <3>2. \A n \in P : ~ (Cardinality(CycleOf(n)) > 1)
      BY <1>3, <2>2
    <3> HIDE DEF P
    <3>3. QED
      BY <1>5, <3>1, <3>2 DEF FoundInv, CyclesKept
  <2>3. CASE ~ root
    <3>1. Done' = Done /\ components' = components
      BY <1>1, <1>2, <2>3 DEF Done
    <3>2. QED
      BY <1>5, <3>1 DEF FoundInv, CyclesKept
  <2>4. QED
    BY <2>1, <2>2, <2>3
<1>15. QED
  BY <1>10, <1>11, <1>12, <1>13, <1>14 DEF FoundInv

\* Every step of an analysis keeps what was found.
LEMMA FoundStep ==
    ASSUME SearchInv, FoundInv, [Next]_vars
    PROVE  FoundInv'
<1>1. ASSUME StartAtRoot, pc = "cycles", pc' = pc
      PROVE  FoundInv'
  <2>1. PICK n \in GraphNodes \ Met : Enter(n, <<>>) /\ frames = <<>>
    BY <1>1 DEF StartAtRoot
  <2>2. <<>> \in Seq(Frame) /\ Len(frames) = 0 /\ Len(<<>>) = 0
    BY <2>1
  <2>3. QED
    BY <1>1, <2>1, <2>2, EnterFinds
<1>2. ASSUME VisitNeighbor, pc = "cycles", pc' = pc
      PROVE  FoundInv'
  <2>1. PICK m \in Top.todo \ Met : Enter(m, Advanced(m)) /\ frames # <<>>
    BY <1>2 DEF VisitNeighbor
  <2>2. m \in Adjacency(Top.node) /\ m \in GraphNodes \ Met /\ Top.node \in Files
    <3>1. m \in Adjacency(Top.node) /\ Top.node \in Files
      BY <2>1, Calls
    <3>2. m \in Files /\ Top.node \in Files \ {m} /\ <<Top.node, m>> \in edges
      BY <3>1 DEF Adjacency
    <3>3. m \in GraphNodes
      BY <3>2 DEF GraphNodes
    <3>4. QED
      BY <2>1, <3>1, <3>3
  <2>3. /\ Advanced(m) \in Seq(Frame) /\ Len(Advanced(m)) = Len(frames)
        /\ \A i \in 1..Len(frames) : /\ Advanced(m)[i].node = frames[i].node
                                      /\ frames[i].todo \ {m} \subseteq Advanced(m)[i].todo
    <3>1. /\ Advanced(m) \in Seq(Frame) /\ Len(Advanced(m)) = Len(frames)
          /\ \A i \in 1..Len(frames) : Advanced(m)[i].node = frames[i].node
          /\ \A i \in 1..(Len(frames) - 1) : Advanced(m)[i] = frames[i]
          /\ Advanced(m)[Len(frames)].todo = Top.todo \ {m}
      BY <2>1, AdvancedCalls
    <3>2. Len(frames) \in Nat \ {0} /\ Top = frames[Len(frames)]
      BY <2>1, Calls
    <3>3. \A i \in 1..Len(frames) : i = Len(frames) \/ i \in 1..(Len(frames) - 1)
      BY <3>2
    <3>4. QED
      BY <3>1, <3>2, <3>3
  <2>4. QED
    BY <1>2, <2>1, <2>2, <2>3, EnterFinds
<1>3. ASSUME SearchCycles
      PROVE  FoundInv'
  BY <1>1, <1>2, <1>3, SeeFinds, ReturnFinds DEF SearchCycles, SearchNext
<1>4. ASSUME UNCHANGED searchVars, pc' \in {"context", "imports"} => pc \in {"context", "imports"}
      PROVE  FoundInv'
  <2>1. /\ UNCHANGED <<edges, frames, index, stack, on_stack, indices, lowlinks, components>>
        /\ Met' = Met /\ Done' = Done
    BY <1>4 DEF searchVars, Met, Done
  <2>2. /\ Closed' = Closed /\ GraphNodes' = GraphNodes
        /\ \A n : Adjacency(n)' = Adjacency(n) /\ CycleOf(n)' = CycleOf(n)
        /\ ImportCyclesOf(Closed)' = ImportCyclesOf(Closed)
    BY <2>1, SameGraph, SameCycles
  <2>3. NodesPlaced'
    BY <1>4, <2>1, <2>2 DEF FoundInv, NodesPlaced
  <2>4. EdgesFollowed'
    BY <2>1, <2>2 DEF FoundInv, EdgesFollowed, Pending
  <2>5. LowlinksHandedOver'
    BY <2>1 DEF FoundInv, LowlinksHandedOver, Active, Under
  <2>6. CallsReach'
    BY <2>1, <2>2 DEF FoundInv, CallsReach, Reaches
  <2>7. CyclesKept'
    BY <2>1, <2>2 DEF FoundInv, CyclesKept
  <2>8. QED
    BY <2>3, <2>4, <2>5, <2>6, <2>7 DEF FoundInv
<1>5. ASSUME ScanImports
      PROVE  FoundInv'
  <2>1. /\ frames = <<>> /\ on_stack = {} /\ Met = {} /\ components = <<>> /\ pc' = "cycles"
        /\ UNCHANGED <<frames, on_stack, indices, components>> /\ Met' = Met
    BY <1>5 DEF ScanImports, SearchInv, NodesSound, FoundInv, NodesPlaced, Met
  <2>2. Done' = {}
    BY <2>1 DEF Done
  <2>3. NodesPlaced'
    BY <2>1 DEF NodesPlaced
  <2>4. EdgesFollowed' /\ LowlinksHandedOver' /\ CallsReach'
    BY <2>1, <2>2 DEF EdgesFollowed, LowlinksHandedOver, CallsReach
  <2>5. CyclesKept'
    BY <2>1, <2>2 DEF CyclesKept
  <2>6. QED
    BY <2>3, <2>4, <2>5 DEF FoundInv
<1>6. BuildContext \/ SourceRaises \/ KeepCycles \/ ApplyRules \/ UNCHANGED vars
        => /\ UNCHANGED searchVars
           /\ pc' \in {"context", "imports"} => pc \in {"context", "imports"}
  BY DEF BuildContext, SourceRaises, KeepCycles, ApplyRules, vars
<1>7. QED
  BY <1>3, <1>4, <1>5, <1>6 DEF Next

\* What the search found is right throughout.
LEMMA FoundInvariant == Spec => [](SearchInv /\ FoundInv)
<1>1. Init => FoundInv
  BY FoundStarts
<1>2. SearchInv /\ FoundInv /\ [Next]_vars => FoundInv'
  BY FoundStep
<1>3. QED
  BY <1>1, <1>2, SearchInvariant, PTL DEF Spec
-----------------------------------------------------------------------------
(* The order of the cycles.                                                *)

\* The order in which the components are sorted, as a relation.
Shorter(S) == {p \in S \X S : ShorterFirst(p[1], p[2])}

\* A file is on one cycle at most.
LEMMA CyclesAreApart ==
    ASSUME NEW C \in ImportCyclesOf(Closed), NEW D \in ImportCyclesOf(Closed), NEW x \in C, x \in D
    PROVE  C = D
<1>1. PICK n \in GraphNodes : C = CycleOf(n)
  BY CyclesAreClasses
<1>2. PICK m \in GraphNodes : D = CycleOf(m)
  BY CyclesAreClasses
<1>3. /\ Reaches(x, n, Closed) /\ Reaches(n, x, Closed)
      /\ Reaches(x, m, Closed) /\ Reaches(m, x, Closed)
  BY <1>1, <1>2 DEF CycleOf
<1>4. Reaches(n, m, Closed) /\ Reaches(m, n, Closed)
  BY <1>3, ReachesOn
<1>5. \A k : /\ Reaches(k, n, Closed) <=> Reaches(k, m, Closed)
             /\ Reaches(n, k, Closed) <=> Reaches(m, k, Closed)
  BY <1>4, ReachesOn
<1>6. QED
  BY <1>1, <1>2, <1>5 DEF CycleOf

\* There are finitely many cycles, each of finitely many files.
LEMMA CyclesAreFinite ==
    /\ IsFiniteSet(ImportCyclesOf(Closed))
    /\ \A C \in ImportCyclesOf(Closed) :
          C \subseteq Files /\ IsFiniteSet(C) /\ Cardinality(C) \in Nat /\ C # {}
<1>1. \A C \in ImportCyclesOf(Closed) : C \subseteq Files /\ Cardinality(C) > 1
  BY CyclesAreClasses DEF CycleOf, GraphNodes
<1>2. IsFiniteSet(Files) /\ IsFiniteSet(SUBSET Files)
  BY ImportCyclesAssumption, FS_SUBSET
<1>3. IsFiniteSet(ImportCyclesOf(Closed))
  BY <1>1, <1>2, FS_Subset
<1>4. ASSUME NEW C \in ImportCyclesOf(Closed)
      PROVE  C \subseteq Files /\ IsFiniteSet(C) /\ Cardinality(C) \in Nat /\ C # {}
  <2>1. C \subseteq Files /\ IsFiniteSet(C) /\ Cardinality(C) \in Nat
    BY <1>1, <1>2, FS_Subset, FS_CardinalityType
  <2>2. C # {}
    BY <1>1, FS_EmptySet
  <2>3. QED
    BY <2>1, <2>2
<1>5. QED
  BY <1>3, <1>4

\* The sort key tells any two cycles apart.
LEMMA ShorterIsOrder == StrictOrder(Shorter(ImportCyclesOf(Closed)), ImportCyclesOf(Closed))
<1> DEFINE S == ImportCyclesOf(Closed)
<1>1. \A C \in S : C \subseteq Files /\ Cardinality(C) \in Nat /\ C # {}
  BY CyclesAreFinite
<1>2. \A n \in Files : Rank[n] \in Nat
  BY ImportCyclesAssumption
<1>3. \A C, D \in S : <<C, D>> \in Shorter(S) <=> ShorterFirst(C, D)
  BY DEF Shorter
<1>4. \A C, D \in S : \A x : x \in C /\ x \in D => C = D
  BY CyclesAreApart
<1> HIDE DEF S
<1>5. \A C \in S : ~ ShorterFirst(C, C)
  BY <1>1, <1>2 DEF ShorterFirst
<1>6. ASSUME NEW C \in S, NEW D \in S, NEW E \in S, ShorterFirst(C, D), ShorterFirst(D, E)
      PROVE  ShorterFirst(C, E)
  <2>1. CASE Cardinality(C) < Cardinality(D) \/ Cardinality(D) < Cardinality(E)
    BY <1>1, <1>6, <2>1 DEF ShorterFirst
  <2>2. CASE Cardinality(C) = Cardinality(D) /\ Cardinality(D) = Cardinality(E)
    <3>1. PICK c \in C : \A d \in D : Rank[c] < Rank[d]
      BY <1>1, <1>6, <2>2 DEF ShorterFirst
    <3>2. PICK d \in D : \A e \in E : Rank[d] < Rank[e]
      BY <1>1, <1>6, <2>2 DEF ShorterFirst
    <3>3. \A e \in E : Rank[c] < Rank[e]
      BY <1>1, <1>2, <3>1, <3>2
    <3>4. QED
      BY <2>2, <3>3 DEF ShorterFirst
  <2>3. QED
    BY <1>1, <1>6, <2>1, <2>2 DEF ShorterFirst
<1>7. ASSUME NEW C \in S, NEW D \in S, C # D
      PROVE  ShorterFirst(C, D) \/ ShorterFirst(D, C)
  <2>1. CASE Cardinality(C) # Cardinality(D)
    BY <1>1, <2>1 DEF ShorterFirst
  <2>2. CASE Cardinality(C) = Cardinality(D)
    <3> DEFINE T == {Rank[n] : n \in C \cup D}
    <3>1. T \in SUBSET Nat /\ T # {}
      BY <1>1, <1>2
    <3>2. PICK least \in T : \A r \in T : least <= r
      <4> HIDE DEF T
      <4>1. QED
        BY <3>1, SmallestNumber
    <3>3. PICK m \in C \cup D : \A n \in C \cup D : Rank[m] <= Rank[n]
      BY <3>2
    <3>4. \A n \in C \cup D : n \in Files /\ m \in Files /\ (n # m => Rank[n] # Rank[m])
      BY <1>1, ImportCyclesAssumption
    <3>5. \A n \in C \cup D : n # m => Rank[m] < Rank[n]
      BY <1>2, <3>3, <3>4
    <3>6. CASE m \in C
      <4>1. \A d \in D : Rank[m] < Rank[d]
        BY <1>4, <1>7, <3>5, <3>6
      <4>2. QED
        BY <2>2, <3>6, <4>1 DEF ShorterFirst
    <3>7. CASE m \in D
      <4>1. \A d \in C : Rank[m] < Rank[d]
        BY <1>4, <1>7, <3>5, <3>7
      <4>2. QED
        BY <2>2, <3>7, <4>1 DEF ShorterFirst
    <3>8. QED
      BY <3>6, <3>7
  <2>3. QED
    BY <2>1, <2>2
<1>8. StrictOrder(Shorter(S), S)
  BY <1>3, <1>5, <1>6, <1>7 DEF StrictOrder
<1>9. QED
  BY <1>8 DEF S

\* When the components are the cycles, each of them once, their sorted list is
\* the cycles from the first one on.
LEMMA SortedCycles ==
    ASSUME components \in Seq(SUBSET Files),
           \A i \in DOMAIN components : components[i] \in ImportCyclesOf(Closed),
           \A C \in ImportCyclesOf(Closed) : \E i \in DOMAIN components : components[i] = C,
           \A i, j \in DOMAIN components : i # j => components[i] # components[j]
    PROVE  SortedComponents = Listed(ImportCyclesOf(Closed), ShorterFirst)
<1> DEFINE S == ImportCyclesOf(Closed)
           R == Shorter(S)
           D == DOMAIN components
           ahead(j) == {k \in D : \/ ShorterFirst(components[k], components[j])
                                  \/ ~ ShorterFirst(components[j], components[k]) /\ k < j}
           before(x) == {y \in S : ShorterFirst(y, x)}
<1>1. IsFiniteSet(S) /\ StrictOrder(R, S)
  BY CyclesAreFinite, ShorterIsOrder
<1>2. components \in Seq(S)
  OBVIOUS
<1>3. /\ \A i \in D : components[i] \in S
      /\ \A x \in S : \E i \in D : components[i] = x
      /\ \A i, j \in D : i # j => components[i] # components[j]
  OBVIOUS
<1>4. \A x, y \in S : <<x, y>> \in R <=> ShorterFirst(x, y)
  BY DEF Shorter
<1>5. SortedComponents = [i \in D |-> components[CHOOSE j \in D : Cardinality(ahead(j)) = i - 1]]
  BY DEF SortedComponents, Sorted
<1>6. Listed(S, ShorterFirst) =
          [i \in 1..Cardinality(S) |-> CHOOSE x \in S : Cardinality(before(x)) = i - 1]
  BY DEF Listed
<1> HIDE DEF S, R
<1>7. \A x \in S : before(x) = Ahead(R, S, x)
  BY <1>4 DEF Ahead
<1>8. /\ Len(components) = Cardinality(S)
      /\ \A j \in D : Cardinality({k \in D : \/ <<components[k], components[j]>> \in R
                                             \/ /\ <<components[j], components[k]>> \notin R
                                                /\ k < j})
                          = Cardinality(Ahead(R, S, components[j]))
  BY <1>1, <1>2, <1>3, ListedOnce
<1>9. \A j \in D : ahead(j) = {k \in D : \/ <<components[k], components[j]>> \in R
                                         \/ /\ <<components[j], components[k]>> \notin R
                                            /\ k < j}
  BY <1>3, <1>4
<1>10. \A j \in D : Cardinality(ahead(j)) = Cardinality(Ahead(R, S, components[j]))
  BY <1>8, <1>9
<1>11. D = 1..Cardinality(S)
  BY <1>2, <1>8
<1> HIDE DEF ahead, before, D
<1>12. ASSUME NEW i \in D
       PROVE  components[CHOOSE j \in D : Cardinality(ahead(j)) = i - 1]
                  = CHOOSE x \in S : Cardinality(before(x)) = i - 1
  <2>1. PICK x \in S : Cardinality(Ahead(R, S, x)) = i - 1
    BY <1>1, <1>11, PlacesAreTaken
  <2>2. PICK j \in D : components[j] = x
    BY <1>3
  <2>3. Cardinality(ahead(j)) = i - 1 /\ Cardinality(before(x)) = i - 1
    BY <1>7, <1>10, <2>1, <2>2
  <2> DEFINE place == CHOOSE k \in D : Cardinality(ahead(k)) = i - 1
             first == CHOOSE y \in S : Cardinality(before(y)) = i - 1
  <2>4. place \in D /\ Cardinality(ahead(place)) = i - 1
    BY <2>3
  <2>5. first \in S /\ Cardinality(before(first)) = i - 1
    BY <2>3
  <2> HIDE DEF place, first
  <2>6. /\ components[place] \in S
        /\ Cardinality(Ahead(R, S, components[place])) = Cardinality(Ahead(R, S, first))
    BY <1>3, <1>7, <1>10, <2>4, <2>5
  <2>7. components[place] = first
    BY <1>1, <2>5, <2>6, PlacesAreTaken
  <2>8. QED
    BY <2>7 DEF place, first
<1>13. SortedComponents = Listed(S, ShorterFirst)
  BY <1>5, <1>6, <1>11, <1>12
<1>14. QED
  BY <1>13 DEF S

\* Whatever the import graph and the order of the neighbours, the search finds
\* all import cycles, each of them once, and nothing else.
THEOREM CyclesAreFound == Spec => []FindsTheCycles
<1>1. SearchInv /\ FoundInv => FindsTheCycles
  <2>1. SUFFICES ASSUME SearchInv, FoundInv
                 PROVE  FindsTheCycles
    OBVIOUS
  <2>2. \A i \in DOMAIN components : components[i] \in ImportCyclesOf(Closed)
    BY <2>1 DEF FoundInv, CyclesKept
  <2>3. ASSUME Finished
        PROVE  SortedComponents = Listed(ImportCyclesOf(Closed), ShorterFirst)
    <3>1. on_stack = {} /\ GraphNodes \subseteq Done
      BY <2>1, <2>3 DEF Finished, FoundInv, NodesPlaced, Done
    <3>2. ASSUME NEW C \in ImportCyclesOf(Closed)
          PROVE  \E i \in DOMAIN components : components[i] = C
      <4>1. PICK n \in GraphNodes : C = CycleOf(n) /\ Cardinality(CycleOf(n)) > 1
        BY CyclesAreClasses
      <4>2. QED
        BY <2>1, <3>1, <4>1 DEF FoundInv, CyclesKept
    <3>3. /\ components \in Seq(SUBSET Files)
          /\ \A i, j \in DOMAIN components : i # j => components[i] # components[j]
      BY <2>1 DEF FoundInv, NodesPlaced, CyclesKept
    <3>4. QED
      BY <2>2, <3>2, <3>3, SortedCycles
  <2>4. QED
    BY <2>2, <2>3 DEF FindsTheCycles
<1>2. QED
  BY <1>1, FoundInvariant, PTL
-----------------------------------------------------------------------------
(* The order of the findings.                                              *)

\* Files in the order of their paths.
ByPath(S) == {p \in S \X S : RankBefore(p[1], p[2])}

\* The files of a finding are those it was made for, each once.
LEMMA FilesAreListed ==
    ASSUME NEW S \in SUBSET Files
    PROVE  /\ IsFiniteSet(S) /\ Cardinality(S) \in Nat
           /\ Listed(S, RankBefore) \in Seq(Files)
           /\ Len(Listed(S, RankBefore)) = Cardinality(S)
           /\ \A x : (\E i \in DOMAIN Listed(S, RankBefore) : Listed(S, RankBefore)[i] = x)
                        <=> x \in S
<1> DEFINE R == ByPath(S)
           l == Listed(S, RankBefore)
<1>1. IsFiniteSet(S) /\ Cardinality(S) \in Nat
  BY ImportCyclesAssumption, FS_Subset, FS_CardinalityType
<1>2. \A x \in S : x \in Files /\ Rank[x] \in Nat
  BY ImportCyclesAssumption
<1>3. \A x, y \in S : <<x, y>> \in R <=> Rank[x] < Rank[y]
  BY DEF ByPath, RankBefore
<1>4. \A x, y \in S : Rank[x] = Rank[y] => x = y
  BY ImportCyclesAssumption
<1> HIDE DEF R
<1>5. StrictOrder(R, S)
  BY <1>2, <1>3, <1>4 DEF StrictOrder
<1>6. l = ListedBy(R, S)
  <2> DEFINE before(x) == {y \in S : RankBefore(y, x)}
  <2>1. \A x \in S : before(x) = Ahead(R, S, x)
    BY <1>3 DEF Ahead, RankBefore
  <2>2. l = [i \in 1..Cardinality(S) |-> CHOOSE x \in S : Cardinality(before(x)) = i - 1]
    BY DEF Listed
  <2> HIDE DEF before, l
  <2>3. \A x \in S : Cardinality(before(x)) = Cardinality(Ahead(R, S, x))
    BY <2>1
  <2>4. QED
    BY <2>2, <2>3 DEF ListedBy
<1> HIDE DEF l
<1>7. /\ l \in Seq(S) /\ Len(l) = Cardinality(S)
      /\ \A x \in S : \E i \in DOMAIN l : l[i] = x
  BY <1>1, <1>5, <1>6, ListedByOrder
<1>8. \A i \in DOMAIN l : l[i] \in S
  BY <1>7
<1>9. l \in Seq(Files)
  BY <1>7
<1>10. QED
  BY <1>1, <1>7, <1>8, <1>9 DEF l

\* The list s is the beginning of t, or has the smaller file, after n files.
DiffersAt(s, t, n) ==
    /\ n <= Len(s) /\ n < Len(t)
    /\ \A k \in 1..n : s[k] = t[k]
    /\ n = Len(s) \/ Rank[s[n + 1]] < Rank[t[n + 1]]

\* Before their first difference two lists are equal.
LEMMA FirstDifference ==
    ASSUME NEW s \in Seq(Files), NEW t \in Seq(Files)
    PROVE  FilesBefore(s, t) <=> \E n \in Nat : DiffersAt(s, t, n)
<1>1. ASSUME NEW n \in Nat, n <= Len(s), n < Len(t)
      PROVE  SubSeq(s, 1, n) = SubSeq(t, 1, n) <=> \A k \in 1..n : s[k] = t[k]
  <2>1. /\ SubSeq(s, 1, n) \in Seq(Files) /\ Len(SubSeq(s, 1, n)) = n
        /\ SubSeq(t, 1, n) \in Seq(Files) /\ Len(SubSeq(t, 1, n)) = n
        /\ \A k \in 1..n : SubSeq(s, 1, n)[k] = s[k] /\ SubSeq(t, 1, n)[k] = t[k]
    BY <1>1
  <2>2. (\A k \in 1..n : SubSeq(s, 1, n)[k] = SubSeq(t, 1, n)[k])
            => SubSeq(s, 1, n) = SubSeq(t, 1, n)
    BY <2>1
  <2>3. QED
    BY <2>1, <2>2
<1>2. \A n : n \in 0..Len(s) <=> n \in Nat /\ n <= Len(s)
  OBVIOUS
<1>3. QED
  BY <1>1, <1>2 DEF FilesBefore, DiffersAt

\* Two lists of files are equal, or one of them comes first.
LEMMA FilesAreOrdered ==
    /\ \A s \in Seq(Files) : ~ FilesBefore(s, s)
    /\ \A s, t, u \in Seq(Files) :
          FilesBefore(s, t) /\ FilesBefore(t, u) => FilesBefore(s, u)
    /\ \A s, t \in Seq(Files) : s = t \/ FilesBefore(s, t) \/ FilesBefore(t, s)
<1>1. \A s \in Seq(Files) : Len(s) \in Nat /\ \A k \in 1..Len(s) : Rank[s[k]] \in Nat
  BY ImportCyclesAssumption
<1>2. ASSUME NEW s \in Seq(Files)
      PROVE  ~ FilesBefore(s, s)
  <2>1. ASSUME NEW n \in Nat, n <= Len(s), n < Len(s)
        PROVE  ~ (Rank[s[n + 1]] < Rank[s[n + 1]])
    BY <1>1, <2>1
  <2>2. QED
    BY <1>1, <2>1, FirstDifference DEF DiffersAt
<1>3. ASSUME NEW s \in Seq(Files), NEW t \in Seq(Files), NEW u \in Seq(Files),
             FilesBefore(s, t), FilesBefore(t, u)
      PROVE  FilesBefore(s, u)
  <2>1. PICK n \in Nat : /\ n <= Len(s) /\ n < Len(t)
                         /\ \A k \in 1..n : s[k] = t[k]
                         /\ n = Len(s) \/ Rank[s[n + 1]] < Rank[t[n + 1]]
    BY <1>3, FirstDifference DEF DiffersAt
  <2>2. PICK m \in Nat : /\ m <= Len(t) /\ m < Len(u)
                         /\ \A k \in 1..m : t[k] = u[k]
                         /\ m = Len(t) \/ Rank[t[m + 1]] < Rank[u[m + 1]]
    BY <1>3, FirstDifference DEF DiffersAt
  <2>3. \E l \in Nat : /\ l <= Len(s) /\ l < Len(u)
                       /\ \A k \in 1..l : s[k] = u[k]
                       /\ l = Len(s) \/ Rank[s[l + 1]] < Rank[u[l + 1]]
    <3>1. CASE n < m
      <4>1. n + 1 \in 1..m /\ \A k \in 1..n : k \in 1..m
        BY <3>1
      <4>2. /\ n < Len(u) /\ t[n + 1] = u[n + 1] /\ \A k \in 1..n : s[k] = u[k]
        BY <1>1, <2>1, <2>2, <3>1, <4>1
      <4>3. QED
        BY <2>1, <4>2
    <3>2. CASE n = m
      <4>1. \A k \in 1..n : s[k] = u[k]
        BY <2>1, <2>2, <3>2
      <4>2. m # Len(t) /\ Rank[t[n + 1]] < Rank[u[n + 1]]
        BY <1>1, <2>1, <2>2, <3>2
      <4>3. n = Len(s) \/ Rank[s[n + 1]] < Rank[u[n + 1]]
        <5>1. CASE n = Len(s)
          BY <5>1
        <5>2. CASE n # Len(s)
          <6>1. n + 1 \in 1..Len(s) /\ n + 1 \in 1..Len(t) /\ n + 1 \in 1..Len(u)
            BY <1>1, <2>1, <2>2, <3>2, <5>2
          <6>2. Rank[s[n + 1]] \in Nat /\ Rank[t[n + 1]] \in Nat /\ Rank[u[n + 1]] \in Nat
            BY <1>1, <6>1
          <6>3. QED
            BY <2>1, <4>2, <5>2, <6>2
        <5>3. QED
          BY <5>1, <5>2
      <4>4. QED
        BY <2>1, <2>2, <3>2, <4>1, <4>3
    <3>3. CASE m < n
      <4>1. m + 1 \in 1..n /\ \A k \in 1..m : k \in 1..n
        BY <3>3
      <4>2. /\ m <= Len(s) /\ s[m + 1] = t[m + 1] /\ \A k \in 1..m : s[k] = u[k]
        BY <1>1, <2>1, <2>2, <3>3, <4>1
      <4>3. m # Len(t)
        BY <1>1, <2>1, <3>3
      <4>4. QED
        BY <2>2, <4>2, <4>3
    <3>4. QED
      BY <3>1, <3>2, <3>3
  <2>4. QED
    BY <2>3, FirstDifference DEF DiffersAt
<1>4. ASSUME NEW s \in Seq(Files), NEW t \in Seq(Files)
      PROVE  s = t \/ FilesBefore(s, t) \/ FilesBefore(t, s)
  <2> DEFINE T == {n \in Nat : n < Len(s) /\ n < Len(t) /\ s[n + 1] # t[n + 1]}
  <2>1. CASE T = {}
    <3>1. ASSUME NEW k \in Nat, 1 <= k, k <= Len(s), k <= Len(t)
          PROVE  s[k] = t[k]
      <4>1. k - 1 \in Nat /\ (k - 1) + 1 = k /\ k - 1 < Len(s) /\ k - 1 < Len(t)
        BY <1>1, <3>1
      <4>2. QED
        BY <2>1, <4>1
    <3>2. CASE Len(s) = Len(t)
      <4>1. \A k \in 1..Len(s) : s[k] = t[k]
        BY <1>1, <3>1, <3>2
      <4>2. s = t
        BY <3>2, <4>1
      <4>3. QED
        BY <4>2
    <3>3. CASE Len(s) < Len(t)
      <4>1. \A k \in 1..Len(s) : s[k] = t[k]
        BY <1>1, <3>1, <3>3
      <4>2. Len(s) \in Nat /\ DiffersAt(s, t, Len(s))
        BY <1>1, <3>3, <4>1 DEF DiffersAt
      <4>3. QED
        BY <4>2, FirstDifference
    <3>4. CASE Len(t) < Len(s)
      <4>1. \A k \in 1..Len(t) : t[k] = s[k]
        BY <1>1, <3>1, <3>4
      <4>2. Len(t) \in Nat /\ DiffersAt(t, s, Len(t))
        BY <1>1, <3>4, <4>1 DEF DiffersAt
      <4>3. QED
        BY <4>2, FirstDifference
    <3>5. QED
      BY <1>1, <3>2, <3>3, <3>4
  <2>2. CASE T # {}
    <3>1. PICK n \in T : \A m \in T : n <= m
      <4>1. T \in SUBSET Nat
        OBVIOUS
      <4> HIDE DEF T
      <4>2. QED
        BY <2>2, <4>1, SmallestNumber
    <3>2. n \in Nat /\ n < Len(s) /\ n < Len(t) /\ s[n + 1] # t[n + 1]
      BY <3>1
    <3>3. ASSUME NEW k \in 1..n
          PROVE  s[k] = t[k]
      <4>1. k - 1 \in Nat /\ (k - 1) + 1 = k /\ k - 1 < Len(s) /\ k - 1 < Len(t) /\ k - 1 < n
        BY <1>1, <3>2
      <4>2. k - 1 \notin T
        <5> HIDE DEF T
        <5>1. QED
          BY <3>1, <3>2, <4>1
      <4>3. QED
        BY <4>1, <4>2
    <3>4. n + 1 \in 1..Len(s) /\ n + 1 \in 1..Len(t)
      BY <1>1, <3>2
    <3>5. s[n + 1] \in Files /\ t[n + 1] \in Files
      BY <3>4
    <3>6. /\ Rank[s[n + 1]] \in Nat /\ Rank[t[n + 1]] \in Nat
          /\ Rank[s[n + 1]] # Rank[t[n + 1]]
      BY <3>2, <3>5, ImportCyclesAssumption
    <3>7. \A k \in 1..n : t[k] = s[k]
      BY <3>3
    <3>8. CASE Rank[s[n + 1]] < Rank[t[n + 1]]
      BY <1>1, <3>2, <3>3, <3>8, FirstDifference DEF DiffersAt
    <3>9. CASE Rank[t[n + 1]] < Rank[s[n + 1]]
      BY <1>1, <3>2, <3>7, <3>9, FirstDifference DEF DiffersAt
    <3>10. QED
      BY <3>6, <3>8, <3>9
  <2>3. QED
    BY <2>1, <2>2
<1>5. QED
  BY <1>2, <1>3, <1>4

\* The rules are numbered.
LEMMA RulesAreNumbered ==
    /\ \A r \in Rules : RuleOrder(r) \in 1..7
    /\ \A r, q \in Rules : RuleOrder(r) = RuleOrder(q) => r = q
<1> DEFINE names == <<"RULE_A", "RULE_B", "RULE_C", "RULE_D", "RULE_E", "RULE_F", "RULE_G">>
<1>1. \A r \in Rules : \E i \in 1..7 : r = names[i]
  BY DEF Rules
<1> HIDE DEF names
<1>2. \A r \in Rules : RuleOrder(r) \in 1..7 /\ r = names[RuleOrder(r)]
  <2>1. TAKE r \in Rules
  <2>2. RuleOrder(r) = CHOOSE i \in 1..7 : r = names[i]
    BY DEF RuleOrder, names
  <2>3. QED
    BY <1>1, <2>2
<1>3. QED
  BY <1>2

\* The sort key orders findings; those it does not order have the same key.
LEMMA FindingsAreOrdered ==
    /\ \A a \in Finding : ~ FindingBefore(a, a)
    /\ \A a, b, c \in Finding :
          FindingBefore(a, b) /\ FindingBefore(b, c) => FindingBefore(a, c)
    /\ \A a, b \in Finding : \/ FindingBefore(a, b) \/ FindingBefore(b, a)
                             \/ /\ a.severity = b.severity /\ a.rule_id = b.rule_id
                                /\ a.files = b.files
    /\ \A a, b, c \in Finding : FindingBefore(a, c) => FindingBefore(a, b) \/ FindingBefore(b, c)
<1> DEFINE o(x) == SeverityOrder[x.severity]
           r(x) == RuleOrder(x.rule_id)
<1>1. \A a \in Finding : a.severity \in Severities /\ a.rule_id \in Rules /\ a.files \in Seq(Files)
  BY DEF Finding
<1>2. SeverityOrder["high"] = 0 /\ SeverityOrder["medium"] = 1 /\ SeverityOrder["low"] = 2
  BY DEF SeverityOrder
<1>3. \A a \in Finding : o(a) \in Nat /\ r(a) \in Nat
  BY <1>1, <1>2, RulesAreNumbered DEF Severities
<1>4. \A a, b \in Finding : (o(a) = o(b) <=> a.severity = b.severity)
  BY <1>1, <1>2 DEF Severities
<1>5. \A a, b \in Finding : (r(a) = r(b) <=> a.rule_id = b.rule_id)
  BY <1>1, RulesAreNumbered
<1>6. \A a, b \in Finding : FindingBefore(a, b) <=>
          \/ o(a) < o(b)
          \/ o(a) = o(b) /\ r(a) < r(b)
          \/ o(a) = o(b) /\ r(a) = r(b) /\ FilesBefore(a.files, b.files)
  BY <1>5 DEF FindingBefore
<1> HIDE DEF o, r
<1>7. \A a \in Finding : ~ FindingBefore(a, a)
  BY <1>1, <1>3, <1>6, FilesAreOrdered
<1>8. ASSUME NEW a \in Finding, NEW b \in Finding, NEW c \in Finding,
             FindingBefore(a, b), FindingBefore(b, c)
      PROVE  FindingBefore(a, c)
  <2>1. FilesBefore(a.files, b.files) /\ FilesBefore(b.files, c.files)
            => FilesBefore(a.files, c.files)
    BY <1>1, FilesAreOrdered
  <2>2. QED
    BY <1>3, <1>6, <1>8, <2>1
<1>9. ASSUME NEW a \in Finding, NEW b \in Finding
      PROVE  \/ FindingBefore(a, b) \/ FindingBefore(b, a)
             \/ a.severity = b.severity /\ a.rule_id = b.rule_id /\ a.files = b.files
  <2>1. a.files = b.files \/ FilesBefore(a.files, b.files) \/ FilesBefore(b.files, a.files)
    BY <1>1, FilesAreOrdered
  <2>2. QED
    BY <1>3, <1>4, <1>5, <1>6, <2>1
<1>10. ASSUME NEW a \in Finding, NEW b \in Finding, NEW c \in Finding, FindingBefore(a, c)
       PROVE  FindingBefore(a, b) \/ FindingBefore(b, c)
  <2>1. CASE FindingBefore(b, a)
    BY <1>8, <1>10, <2>1
  <2>2. CASE a.severity = b.severity /\ a.rule_id = b.rule_id /\ a.files = b.files
    BY <1>10, <2>2 DEF FindingBefore
  <2>3. QED
    BY <1>9, <2>1, <2>2
<1>11. QED
  BY <1>7, <1>8, <1>9, <1>10
-----------------------------------------------------------------------------
(* The findings of the rules.                                              *)

\* What the scans know of a repository.
SourcesSound(sources) ==
    /\ DOMAIN sources \subseteq Files
    /\ \A f \in DOMAIN sources :
          /\ sources[f] \in Source
          /\ IsFiniteSet(sources[f].env)
          /\ \A s \in sources[f].statements : s.kind = "from" => s.names # {}
          /\ \A d \in sources[f].deeds : d.in # <<>>

CyclesSound(importCycles) == importCycles \in Seq((SUBSET Files) \ {{}})

Evidence == {"none", "plain", "strong"}

\* What a finding is made of can be read from it.
MadeOf(x, rule, severity, S, evidence) ==
    /\ x \in Finding
    /\ x.rule_id = rule /\ x.severity = severity /\ x.evidence = evidence
    /\ FilesOf(x) = S /\ x.files \in Seq(Files) /\ Len(x.files) = Cardinality(S)

\* So it is with every finding the rules make.
LEMMA FoundIsFinding ==
    ASSUME NEW rule \in Rules, NEW severity \in Severities, NEW S \in SUBSET Files,
           NEW evidence \in Evidence
    PROVE  MadeOf(Find(rule, severity, S, evidence), rule, severity, S, evidence)
<1> DEFINE l == Listed(S, RankBefore)
           x == Find(rule, severity, S, evidence)
<1>1. /\ l \in Seq(Files) /\ Len(l) = Cardinality(S)
      /\ \A z : (\E i \in DOMAIN l : l[i] = z) <=> z \in S
  BY FilesAreListed
<1>2. x = [rule_id |-> rule, severity |-> severity, files |-> l, evidence |-> evidence]
  BY DEF Find
<1> HIDE DEF l
<1>3. {l[i] : i \in DOMAIN l} = S
  BY <1>1
<1>4. x \in Finding
  BY <1>1, <1>2 DEF Finding, Evidence
<1>5. /\ x.rule_id = rule /\ x.evidence = evidence /\ x.severity = severity /\ x.files = l
  BY <1>2
<1> HIDE DEF x
<1>6. FilesOf(x) = S
  BY <1>3, <1>5 DEF FilesOf
<1>7. MadeOf(x, rule, severity, S, evidence)
  BY <1>1, <1>4, <1>5, <1>6 DEF MadeOf
<1>8. QED
  BY <1>7 DEF x

\* The findings that are listed in order before those about variables and
\* shared modules.
OfFiles(sources, importCycles) ==
    UNION {HandlerDbFindings(sources), GlobalStateFindings(sources), CycleFindings(importCycles),
           OversizedFileFindings(sources), CrossLayerDbFindings(sources)}

HandlerFinding(sources, f) ==
    Find("RULE_A", HighIf(Certainly(SignalsIn(sources, f)) # {}), {f},
         IF ReadsHigh(FirstThree(SignalsIn(sources, f))) # {} THEN "strong" ELSE "plain")

GlobalFinding(sources, f) ==
    Find("RULE_D", HighIf("high" \in RisksIn(sources, f)), {f}, "strong")

CycleFinding(C) == Find("RULE_E", HighIf(Cardinality(C) >= 4), C, "plain")

SizeFinding(f) == Find("RULE_F", "medium", {f}, "plain")

LayerFinding(f) == Find("RULE_G", "medium", {f}, "plain")

\* One of these findings, on the set S of files.
Reported(sources, x, S) ==
    \/ \E f \in HandlerFiles \cap DOMAIN sources :
          S = {f} /\ SignalsIn(sources, f) # {} /\ x = HandlerFinding(sources, f)
    \/ \E f \in DOMAIN sources \ NonProductFiles :
          S = {f} /\ RisksIn(sources, f) # {} /\ x = GlobalFinding(sources, f)
    \/ S # {} /\ x = CycleFinding(S)
    \/ \E f \in DOMAIN sources \ NonProductFiles :
          S = {f} /\ Oversized(sources[f]) /\ x = SizeFinding(f)
    \/ \E f \in DOMAIN sources \ LeftToOtherRules :
          /\ S = {f} /\ Cardinality(Certainly(SignalsIn(sources, f))) >= 2
          /\ x = LayerFinding(f)

\* A file is only found oversized for something that is told.
LEMMA OversizedIsTold ==
    ASSUME NEW sources, SourcesSound(sources), NEW f \in DOMAIN sources, Oversized(sources[f])
    PROVE  \/ sources[f].lines >= OVERSIZED_FILE_LINE_THRESHOLD
           \/ Reaching(sources[f].classes, OVERSIZED_CLASS_METHOD_THRESHOLD) # {}
<1>1. sources[f].lines \in Nat /\ sources[f].classes \in SUBSET Nat
  BY DEF SourcesSound, Source
<1>2. QED
  BY <1>1, RulesAssumption DEF Oversized, Reaching

\* What these findings are.
LEMMA OfFilesAre ==
    ASSUME NEW sources, SourcesSound(sources), NEW importCycles, CyclesSound(importCycles),
           NEW x \in OfFiles(sources, importCycles)
    PROVE  \E S \in SUBSET Files :
              /\ Reported(sources, x, S)
              /\ S \subseteq DOMAIN sources \/ \E i \in DOMAIN importCycles : S = importCycles[i]
<1>1. DOMAIN sources \subseteq Files
  BY DEF SourcesSound
<1>2. CASE x \in HandlerDbFindings(sources)
  <2>1. PICK f \in HandlerFiles \cap DOMAIN sources :
            SignalsIn(sources, f) # {} /\ x = HandlerFinding(sources, f)
    BY <1>2 DEF HandlerDbFindings, HandlerFinding
  <2>2. {f} \in SUBSET Files
    BY <1>1
  <2>3. QED
    BY <2>1, <2>2 DEF Reported
<1>3. CASE x \in GlobalStateFindings(sources)
  <2>1. PICK f \in DOMAIN sources \ NonProductFiles :
            RisksIn(sources, f) # {} /\ x = GlobalFinding(sources, f)
    BY <1>3 DEF GlobalStateFindings, GlobalFinding
  <2>2. {f} \in SUBSET Files
    BY <1>1
  <2>3. QED
    BY <2>1, <2>2 DEF Reported
<1>4. CASE x \in CycleFindings(importCycles)
  <2>1. PICK i \in DOMAIN importCycles : x = CycleFinding(importCycles[i])
    BY <1>4 DEF CycleFindings, CycleFinding
  <2>2. importCycles[i] \in SUBSET Files /\ importCycles[i] # {}
    <3>1. importCycles[i] \in (SUBSET Files) \ {{}}
      BY <2>1 DEF CyclesSound
    <3>2. QED
      BY <3>1
  <2>3. QED
    BY <2>1, <2>2 DEF Reported
<1>5. CASE x \in OversizedFileFindings(sources)
  <2>1. PICK f \in DOMAIN sources \ NonProductFiles :
            /\ Oversized(sources[f])
            /\ x = Find("RULE_F", "medium", {f},
                        IF \/ sources[f].lines >= OVERSIZED_FILE_LINE_THRESHOLD
                           \/ Reaching(sources[f].classes, OVERSIZED_CLASS_METHOD_THRESHOLD) # {}
                        THEN "plain" ELSE "none")
    BY <1>5 DEF OversizedFileFindings
  <2>2. x = SizeFinding(f)
    BY <2>1, OversizedIsTold DEF SizeFinding
  <2>3. {f} \in SUBSET Files
    BY <1>1
  <2>4. QED
    BY <2>1, <2>2, <2>3 DEF Reported
<1>6. CASE x \in CrossLayerDbFindings(sources)
  <2>1. PICK f \in DOMAIN sources \ LeftToOtherRules :
            /\ Cardinality(Certainly(SignalsIn(sources, f))) >= 2
            /\ x = LayerFinding(f)
    BY <1>6 DEF CrossLayerDbFindings, LayerFinding
  <2>2. {f} \in SUBSET Files
    BY <1>1
  <2>3. QED
    BY <2>1, <2>2 DEF Reported
<1>7. QED
  BY <1>2, <1>3, <1>4, <1>5, <1>6 DEF OfFiles

\* What a report says: its rule tells where it comes from.
LEMMA ReportedIsFinding ==
    ASSUME NEW sources, NEW S \in SUBSET Files, NEW x, Reported(sources, x, S)
    PROVE  /\ x \in Finding /\ FilesOf(x) = S /\ Len(x.files) = Cardinality(S)
           /\ x.rule_id \in {"RULE_A", "RULE_D", "RULE_E", "RULE_F", "RULE_G"}
           /\ x.rule_id = "RULE_A" => \E f \in HandlerFiles : S = {f} /\ x = HandlerFinding(sources, f)
           /\ x.rule_id = "RULE_D" => \E f \in Files : S = {f} /\ x = GlobalFinding(sources, f)
           /\ x.rule_id = "RULE_E" => x = CycleFinding(S)
           /\ x.rule_id = "RULE_F" => \E f \in Files : S = {f} /\ x = SizeFinding(f)
           /\ x.rule_id = "RULE_G" => \E f \in Files \ HandlerFiles : S = {f} /\ x = LayerFinding(f)
<1>1. /\ {"RULE_A", "RULE_D", "RULE_E", "RULE_F", "RULE_G"} \subseteq Rules
      /\ {"plain", "strong"} \subseteq Evidence
  BY DEF Rules, Evidence
<1>2. ASSUME NEW f \in HandlerFiles \cap DOMAIN sources, S = {f}, x = HandlerFinding(sources, f)
      PROVE  x \in Finding /\ FilesOf(x) = S /\ Len(x.files) = Cardinality(S) /\ x.rule_id = "RULE_A"
  <2> DEFINE severity == HighIf(Certainly(SignalsIn(sources, f)) # {})
             evidence == IF ReadsHigh(FirstThree(SignalsIn(sources, f))) # {}
                         THEN "strong" ELSE "plain"
  <2>1. severity \in Severities /\ evidence \in Evidence /\ "RULE_A" \in Rules
    BY <1>1 DEF HighIf, Severities
  <2>2. x = Find("RULE_A", severity, S, evidence)
    BY <1>2 DEF HandlerFinding
  <2> HIDE DEF severity, evidence
  <2>3. MadeOf(x, "RULE_A", severity, S, evidence)
    BY <2>1, <2>2, FoundIsFinding
  <2>4. QED
    BY <2>3 DEF MadeOf
<1>3. ASSUME NEW f \in DOMAIN sources, S = {f}, x = GlobalFinding(sources, f)
      PROVE  x \in Finding /\ FilesOf(x) = S /\ Len(x.files) = Cardinality(S) /\ x.rule_id = "RULE_D"
  <2> DEFINE severity == HighIf("high" \in RisksIn(sources, f))
  <2>1. severity \in Severities /\ "strong" \in Evidence /\ "RULE_D" \in Rules
    BY <1>1 DEF HighIf, Severities
  <2>2. x = Find("RULE_D", severity, S, "strong")
    BY <1>3 DEF GlobalFinding
  <2> HIDE DEF severity
  <2>3. MadeOf(x, "RULE_D", severity, S, "strong")
    BY <2>1, <2>2, FoundIsFinding
  <2>4. QED
    BY <2>3 DEF MadeOf
<1>4. ASSUME x = CycleFinding(S)
      PROVE  x \in Finding /\ FilesOf(x) = S /\ Len(x.files) = Cardinality(S) /\ x.rule_id = "RULE_E"
  <2> DEFINE severity == HighIf(Cardinality(S) >= 4)
  <2>1. severity \in Severities /\ "plain" \in Evidence /\ "RULE_E" \in Rules
    BY <1>1 DEF HighIf, Severities
  <2>2. x = Find("RULE_E", severity, S, "plain")
    BY <1>4 DEF CycleFinding
  <2> HIDE DEF severity
  <2>3. MadeOf(x, "RULE_E", severity, S, "plain")
    BY <2>1, <2>2, FoundIsFinding
  <2>4. QED
    BY <2>3 DEF MadeOf
<1>5. ASSUME NEW f, S = {f}, NEW rule \in {"RULE_F", "RULE_G"}, x = Find(rule, "medium", {f}, "plain")
      PROVE  x \in Finding /\ FilesOf(x) = S /\ Len(x.files) = Cardinality(S) /\ x.rule_id = rule
  <2>1. "medium" \in Severities /\ "plain" \in Evidence /\ rule \in Rules
    BY <1>1 DEF Severities
  <2>2. x = Find(rule, "medium", S, "plain")
    BY <1>5
  <2>3. MadeOf(x, rule, "medium", S, "plain")
    BY <2>1, <2>2, FoundIsFinding
  <2>4. QED
    BY <2>3 DEF MadeOf
<1>6. QED
  BY <1>2, <1>3, <1>4, <1>5
     DEF Reported, SizeFinding, LayerFinding, LeftToOtherRules

\* Two of these findings of the same rule and on the same files are the same.
LEMMA OfFilesApart ==
    ASSUME NEW sources, SourcesSound(sources), NEW importCycles, CyclesSound(importCycles)
    PROVE  /\ \A x \in OfFiles(sources, importCycles) : x \in Finding
           /\ \A x, y \in OfFiles(sources, importCycles) :
                 x.rule_id = y.rule_id /\ FilesOf(x) = FilesOf(y) => x = y
           /\ IsFiniteSet(OfFiles(sources, importCycles))
<1> DEFINE U == OfFiles(sources, importCycles)
           names == {"RULE_A", "RULE_D", "RULE_E", "RULE_F", "RULE_G"}
           key == [x \in U |-> <<x.rule_id, FilesOf(x)>>]
<1>1. \A x \in U : /\ x \in Finding /\ x.rule_id \in names /\ FilesOf(x) \in SUBSET Files
                   /\ Reported(sources, x, FilesOf(x))
  <2>1. TAKE x \in U
  <2>2. PICK S \in SUBSET Files : Reported(sources, x, S)
    BY OfFilesAre
  <2>3. x \in Finding /\ x.rule_id \in names /\ FilesOf(x) = S
    BY <2>2, ReportedIsFinding
  <2>4. QED
    BY <2>2, <2>3
<1>2. ASSUME NEW x \in U, NEW y \in U, x.rule_id = y.rule_id, FilesOf(x) = FilesOf(y)
      PROVE  x = y
  <2> DEFINE S == FilesOf(x)
  <2>1. /\ S \in SUBSET Files /\ Reported(sources, x, S) /\ Reported(sources, y, S)
        /\ x.rule_id \in names /\ y.rule_id = x.rule_id
    BY <1>1, <1>2
  <2> HIDE DEF S
  <2>2. CASE x.rule_id = "RULE_A"
    <3>1. PICK f : S = {f} /\ x = HandlerFinding(sources, f)
      BY <2>1, <2>2, ReportedIsFinding
    <3>2. PICK g : S = {g} /\ y = HandlerFinding(sources, g)
      <4>1. y.rule_id = "RULE_A"
        BY <2>1, <2>2
      <4>2. QED
        BY <2>1, <4>1, ReportedIsFinding
    <3>3. f = g
      BY <3>1, <3>2
    <3>4. QED
      BY <3>1, <3>2, <3>3
  <2>3. CASE x.rule_id = "RULE_D"
    <3>1. PICK f : S = {f} /\ x = GlobalFinding(sources, f)
      BY <2>1, <2>3, ReportedIsFinding
    <3>2. PICK g : S = {g} /\ y = GlobalFinding(sources, g)
      <4>1. y.rule_id = "RULE_D"
        BY <2>1, <2>3
      <4>2. QED
        BY <2>1, <4>1, ReportedIsFinding
    <3>3. f = g
      BY <3>1, <3>2
    <3>4. QED
      BY <3>1, <3>2, <3>3
  <2>4. CASE x.rule_id = "RULE_E"
    <3>1. y.rule_id = "RULE_E"
      BY <2>1, <2>4
    <3>2. x = CycleFinding(S) /\ y = CycleFinding(S)
      BY <2>1, <2>4, <3>1, ReportedIsFinding
    <3>3. QED
      BY <3>2
  <2>5. CASE x.rule_id = "RULE_F"
    <3>1. PICK f : S = {f} /\ x = SizeFinding(f)
      BY <2>1, <2>5, ReportedIsFinding
    <3>2. PICK g : S = {g} /\ y = SizeFinding(g)
      <4>1. y.rule_id = "RULE_F"
        BY <2>1, <2>5
      <4>2. QED
        BY <2>1, <4>1, ReportedIsFinding
    <3>3. f = g
      BY <3>1, <3>2
    <3>4. QED
      BY <3>1, <3>2, <3>3
  <2>6. CASE x.rule_id = "RULE_G"
    <3>1. PICK f : S = {f} /\ x = LayerFinding(f)
      BY <2>1, <2>6, ReportedIsFinding
    <3>2. PICK g : S = {g} /\ y = LayerFinding(g)
      <4>1. y.rule_id = "RULE_G"
        BY <2>1, <2>6
      <4>2. QED
        BY <2>1, <4>1, ReportedIsFinding
    <3>3. f = g
      BY <3>1, <3>2
    <3>4. QED
      BY <3>1, <3>2, <3>3
  <2>7. QED
    BY <2>1, <2>2, <2>3, <2>4, <2>5, <2>6
<1> HIDE DEF U
<1>3. IsFiniteSet(U)
  <2> DEFINE T == names \X SUBSET Files
  <2>1. IsFiniteSet(names)
    <3> DEFINE f == <<"RULE_A", "RULE_D", "RULE_E", "RULE_F", "RULE_G">>
    <3>1. f \in Surjection(1..5, names)
      BY DEF Surjection
    <3>2. 1 \in Int /\ 5 \in Int
      OBVIOUS
    <3>3. IsFiniteSet(1..5)
      BY <3>2, FS_Interval
    <3> HIDE DEF f, names
    <3>4. QED
      BY <3>1, <3>3, FS_Surjection
  <2>2. IsFiniteSet(SUBSET Files)
    BY ImportCyclesAssumption, FS_SUBSET
  <2> HIDE DEF names
  <2>3. IsFiniteSet(T)
    BY <2>1, <2>2, FS_Product
  <2>4. \A x \in U : key[x] \in T
    BY <1>1
  <2>5. \A x, y \in U : key[x] = key[y] => x = y
    BY <1>2
  <2>6. key \in [U -> T] /\ IsInjective(key)
    BY <2>4, <2>5 DEF IsInjective
  <2> HIDE DEF key, T
  <2>7. key \in Injection(U, T)
    BY <2>6 DEF Injection
  <2>8. QED
    BY <2>3, <2>7, FS_Injection
<1>4. QED
  BY <1>1, <1>2, <1>3 DEF U

\* Findings in the order of their sort key.
ByKey(S) == {p \in S \X S : FindingBefore(p[1], p[2])}

\* Which pairs of them there are.
LEMMA TwoFindings ==
    ASSUME NEW S, NEW a \in S, NEW b \in S
    PROVE  <<a, b>> \in ByKey(S) <=> FindingBefore(a, b)
<1> DEFINE x == <<a, b>>
<1>1. x[1] = a /\ x[2] = b /\ x \in S \X S
  BY PairOf
<1> HIDE DEF x
<1>2. x \in ByKey(S) <=> FindingBefore(x[1], x[2])
  BY <1>1 DEF ByKey
<1>3. QED
  BY <1>1, <1>2 DEF x

\* The findings of files are listed in order, each once.
LEMMA OfFilesAreListed ==
    ASSUME NEW sources, SourcesSound(sources), NEW importCycles, CyclesSound(importCycles)
    PROVE  LET l == Listed(OfFiles(sources, importCycles), FindingBefore)
           IN  /\ l \in Seq(OfFiles(sources, importCycles)) /\ l \in Seq(Finding)
               /\ \A x \in OfFiles(sources, importCycles) : \E i \in DOMAIN l : l[i] = x
               /\ \A i, j \in DOMAIN l : l[i] = l[j] => i = j
<1> DEFINE U == OfFiles(sources, importCycles)
           l == Listed(U, FindingBefore)
           R == ByKey(U)
<1>1. /\ IsFiniteSet(U) /\ \A x \in U : x \in Finding
      /\ \A x, y \in U : x.rule_id = y.rule_id /\ FilesOf(x) = FilesOf(y) => x = y
  BY OfFilesApart
<1> HIDE DEF U
<1>2. \A x, y \in U : <<x, y>> \in R <=> FindingBefore(x, y)
  BY TwoFindings
<1>3. \A x, y \in U : x.rule_id = y.rule_id /\ x.files = y.files => x = y
  BY <1>1 DEF FilesOf
<1> HIDE DEF R
<1>4. StrictOrder(R, U)
  BY <1>1, <1>2, <1>3, FindingsAreOrdered DEF StrictOrder
<1>5. l = ListedBy(R, U)
  <2> DEFINE before(x) == {y \in U : FindingBefore(y, x)}
  <2>1. \A x \in U : before(x) = Ahead(R, U, x)
    BY <1>2 DEF Ahead
  <2>2. l = [i \in 1..Cardinality(U) |-> CHOOSE x \in U : Cardinality(before(x)) = i - 1]
    BY DEF Listed
  <2> HIDE DEF before, l
  <2>3. \A x \in U : Cardinality(before(x)) = Cardinality(Ahead(R, U, x))
    BY <2>1
  <2>4. QED
    BY <2>2, <2>3 DEF ListedBy
<1> HIDE DEF l
<1>6. /\ l \in Seq(U)
      /\ \A x \in U : \E i \in DOMAIN l : l[i] = x
      /\ \A i, j \in DOMAIN l : l[i] = l[j] => i = j
  BY <1>1, <1>4, <1>5, ListedByOrder
<1>7. l \in Seq(Finding)
  BY <1>1, <1>6
<1>8. QED
  BY <1>6, <1>7 DEF l, U

\* A finite function as a list of its values.
LEMMA ListOfValues ==
    ASSUME NEW g, IsFiniteSet(DOMAIN g), NEW V, \A k \in DOMAIN g : g[k] \in V
    PROVE  /\ ListOf(g) \in Seq(V)
           /\ \A i \in DOMAIN ListOf(g) : \E k \in DOMAIN g : ListOf(g)[i] = g[k]
<1> DEFINE K == DOMAIN g
           n == Cardinality(K)
           keys == SetToSeq(K)
           l == [i \in DOMAIN keys |-> g[keys[i]]]
<1>1. PICK m \in Nat : ExistsBijection(1..m, K)
  BY FS_NatBijection
<1>2. n = m /\ n \in Nat
  BY <1>1, FS_CountingElements
<1>3. PICK f \in [1..n -> K] : IsInjective(f)
  <2>1. PICK f : f \in Bijection(1..m, K)
    BY <1>1 DEF ExistsBijection
  <2>2. f \in [1..m -> K] /\ IsInjective(f)
    BY <2>1 DEF Bijection, Injection
  <2>3. QED
    BY <1>2, <2>2
<1>4. keys = CHOOSE h \in [1..n -> K] : IsInjective(h)
  BY DEF SetToSeq
<1>5. ListOf(g) = l
  BY DEF ListOf
<1> HIDE DEF n, K
<1>6. keys \in [1..n -> K]
  BY <1>3, <1>4
<1> HIDE DEF keys
<1>7. \A i \in 1..n : l[i] \in V /\ l[i] = g[keys[i]] /\ keys[i] \in K
  BY <1>6 DEF K
<1>8. l \in [1..n -> V]
  BY <1>6, <1>7
<1> HIDE DEF l
<1>9. l \in Seq(V) /\ DOMAIN l = 1..n
  BY <1>2, <1>8
<1>10. QED
  BY <1>5, <1>7, <1>9 DEF K

\* A finding about a variable or about a shared module.
Shared(sources, x) ==
    \/ \E S \in SUBSET Files :
          /\ S \subseteq DOMAIN sources /\ Cardinality(S) > 1
          /\ x = Find("RULE_B", HighIf(Cardinality(S) >= 4), S, "plain")
    \/ \E S \in SUBSET Files :
          /\ S \subseteq DOMAIN sources /\ Cardinality(S) >= UTILS_OVERUSE_THRESHOLD
          /\ x = Find("RULE_C", HighIf(Cardinality(S) >= UTILS_OVERUSE_THRESHOLD + 3), S, "plain")

\* These have the type of findings, too, and other rules.
LEMMA SharedIsFinding ==
    ASSUME NEW sources, NEW x, Shared(sources, x)
    PROVE  x \in Finding /\ x.rule_id \in {"RULE_B", "RULE_C"}
<1>1. ASSUME NEW S \in SUBSET Files, NEW rule \in {"RULE_B", "RULE_C"}, NEW severity \in Severities,
             x = Find(rule, severity, S, "plain")
      PROVE  x \in Finding /\ x.rule_id \in {"RULE_B", "RULE_C"}
  <2>1. rule \in Rules /\ "plain" \in Evidence
    BY DEF Rules, Evidence
  <2>2. MadeOf(x, rule, severity, S, "plain")
    BY <1>1, <2>1, FoundIsFinding
  <2>3. QED
    BY <2>2 DEF MadeOf
<1>2. CASE \E S \in SUBSET Files :
              x = Find("RULE_B", HighIf(Cardinality(S) >= 4), S, "plain")
  <2>1. PICK S \in SUBSET Files : x = Find("RULE_B", HighIf(Cardinality(S) >= 4), S, "plain")
    BY <1>2
  <2>2. HighIf(Cardinality(S) >= 4) \in Severities
    BY DEF HighIf, Severities
  <2>3. QED
    BY <1>1, <2>1, <2>2
<1>3. CASE \E S \in SUBSET Files :
              x = Find("RULE_C", HighIf(Cardinality(S) >= UTILS_OVERUSE_THRESHOLD + 3), S, "plain")
  <2>1. PICK S \in SUBSET Files :
            x = Find("RULE_C", HighIf(Cardinality(S) >= UTILS_OVERUSE_THRESHOLD + 3), S, "plain")
    BY <1>3
  <2>2. HighIf(Cardinality(S) >= UTILS_OVERUSE_THRESHOLD + 3) \in Severities
    BY DEF HighIf, Severities
  <2>3. QED
    BY <1>1, <2>1, <2>2
<1>4. QED
  BY <1>2, <1>3 DEF Shared

\* The findings about variables.
LEMMA EnvFindingsAreShared ==
    ASSUME NEW sources, SourcesSound(sources)
    PROVE  /\ IsFiniteSet(DOMAIN SharedEnvFindings(sources))
           /\ \A v \in DOMAIN SharedEnvFindings(sources) : Shared(sources, SharedEnvFindings(sources)[v])
<1> DEFINE readers(v) == ReadersOf(sources, v) \cap BusinessFiles
           E == {sources[f].env : f \in DOMAIN sources}
           K == {v \in UNION E : Cardinality(readers(v)) > 1}
<1>1. IsFiniteSet(DOMAIN sources) /\ \A f \in DOMAIN sources : IsFiniteSet(sources[f].env)
  BY ImportCyclesAssumption, FS_Subset DEF SourcesSound
<1>2. IsFiniteSet(E)
  <2> DEFINE env == [f \in DOMAIN sources |-> sources[f].env]
  <2>1. env \in Surjection(DOMAIN sources, E)
    BY DEF Surjection
  <2> HIDE DEF env, E
  <2>2. QED
    BY <1>1, <2>1, FS_Surjection
<1>3. \A T \in E : IsFiniteSet(T)
  BY <1>1
<1> HIDE DEF E
<1>4. IsFiniteSet(UNION E)
  BY <1>2, <1>3, FS_UNION
<1>5. IsFiniteSet(K)
  BY <1>4, FS_Subset
<1>6. SharedEnvFindings(sources) =
          [v \in K |-> Find("RULE_B", HighIf(Cardinality(readers(v)) >= 4), readers(v), "plain")]
  BY DEF SharedEnvFindings, E
<1>7. \A v \in K : /\ readers(v) \in SUBSET Files /\ readers(v) \subseteq DOMAIN sources
                   /\ Cardinality(readers(v)) > 1
  BY RulesAssumption DEF SourcesSound, ReadersOf
<1> HIDE DEF K, readers
<1>8. \A v \in K : Shared(sources, SharedEnvFindings(sources)[v])
  BY <1>6, <1>7 DEF Shared
<1>9. QED
  BY <1>5, <1>6, <1>8

\* The findings about shared modules.
LEMMA UtilsFindingsAreShared ==
    ASSUME NEW sources, SourcesSound(sources)
    PROVE  /\ IsFiniteSet(DOMAIN UtilsOveruseFindings(sources))
           /\ \A m \in DOMAIN UtilsOveruseFindings(sources) :
                 Shared(sources, UtilsOveruseFindings(sources)[m])
<1> DEFINE module_index == ModuleIndex(DOMAIN sources)
           consumers(m) == {f \in DOMAIN sources :
                               m \in LocalModules(f, sources[f].statements, module_index)}
           K == {n \in DOMAIN module_index : MatchesUtilsName(n) /\ Overused(consumers(n))}
           M == {ModuleOf(f) : f \in DOMAIN sources}
<1>1. DOMAIN sources \subseteq Files /\ IsFiniteSet(DOMAIN sources)
  BY ImportCyclesAssumption, FS_Subset DEF SourcesSound
<1>2. IsFiniteSet(M)
  <2> DEFINE name == [f \in DOMAIN sources |-> ModuleOf(f)]
  <2>1. name \in Surjection(DOMAIN sources, M)
    BY DEF Surjection
  <2> HIDE DEF name, M
  <2>2. QED
    BY <1>1, <2>1, FS_Surjection
<1>3. DOMAIN module_index = M
  BY DEF ModuleIndex
<1> HIDE DEF M
<1>4. IsFiniteSet(K)
  BY <1>2, <1>3, FS_Subset
<1>5. UtilsOveruseFindings(sources) =
          [m \in K |-> Find("RULE_C", HighIf(Cardinality(consumers(m)) >= UTILS_OVERUSE_THRESHOLD + 3),
                            consumers(m), "plain")]
  BY DEF UtilsOveruseFindings
<1>6. \A m \in K : /\ consumers(m) \in SUBSET Files /\ consumers(m) \subseteq DOMAIN sources
                   /\ Cardinality(consumers(m)) >= UTILS_OVERUSE_THRESHOLD
  BY <1>1 DEF Overused
<1> HIDE DEF K, consumers, module_index
<1>7. \A m \in K : Shared(sources, UtilsOveruseFindings(sources)[m])
  BY <1>5, <1>6 DEF Shared
<1>8. QED
  BY <1>4, <1>5, <1>7

\* Two lists one after the other.
LEMMA Joined ==
    ASSUME NEW S, NEW s \in Seq(S), NEW t \in Seq(S)
    PROVE  /\ s \o t \in Seq(S)
           /\ DOMAIN (s \o t) = 1..(Len(s) + Len(t))
           /\ \A i \in DOMAIN s : i \in DOMAIN (s \o t) /\ (s \o t)[i] = s[i]
           /\ \A i \in DOMAIN (s \o t) : \/ i \in DOMAIN s
                                         \/ \E k \in DOMAIN t : (s \o t)[i] = t[k]
<1>1. /\ s \o t \in Seq(S) /\ Len(s \o t) = Len(s) + Len(t)
      /\ \A i \in 1..Len(s) : (s \o t)[i] = s[i]
      /\ \A k \in 1..Len(t) : (s \o t)[Len(s) + k] = t[k]
      /\ Len(s) \in Nat /\ Len(t) \in Nat /\ DOMAIN s = 1..Len(s) /\ DOMAIN t = 1..Len(t)
  OBVIOUS
<1>2. DOMAIN (s \o t) = 1..(Len(s) + Len(t))
  BY <1>1
<1>3. ASSUME NEW i \in 1..(Len(s) + Len(t)), i \notin 1..Len(s)
      PROVE  \E k \in 1..Len(t) : (s \o t)[i] = t[k]
  <2>1. i - Len(s) \in 1..Len(t) /\ Len(s) + (i - Len(s)) = i
    BY <1>1, <1>3
  <2>2. QED
    BY <1>1, <2>1
<1>4. \A i \in 1..Len(s) : i \in 1..(Len(s) + Len(t))
  BY <1>1
<1>5. QED
  BY <1>1, <1>2, <1>3, <1>4

\* The list l holds the findings of these sources and cycles.
Reports(sources, importCycles, l) ==
    /\ l \in Seq(Finding)
    /\ \A x \in OfFiles(sources, importCycles) : \E i \in DOMAIN l : l[i] = x
    /\ \A i \in DOMAIN l : l[i] \in OfFiles(sources, importCycles) \/ Shared(sources, l[i])
    /\ \A i, j \in DOMAIN l : l[i] = l[j] /\ l[i] \in OfFiles(sources, importCycles) => i = j

\* So does the list of run_rules.
LEMMA RulesReport ==
    ASSUME NEW sources, SourcesSound(sources), NEW importCycles, CyclesSound(importCycles)
    PROVE  Reports(sources, importCycles, RunRules(sources, importCycles))
<1> DEFINE U == OfFiles(sources, importCycles)
           l == Listed(U, FindingBefore)
           b == ListOf(SharedEnvFindings(sources))
           c == ListOf(UtilsOveruseFindings(sources))
<1>1. RunRules(sources, importCycles) = (l \o b) \o c
  BY DEF RunRules, OfFiles
<1>2. /\ l \in Seq(U) /\ l \in Seq(Finding)
      /\ \A x \in U : \E i \in DOMAIN l : l[i] = x
      /\ \A i, j \in DOMAIN l : l[i] = l[j] => i = j
  BY OfFilesAreListed
<1>3. b \in Seq(Finding) /\ \A i \in DOMAIN b : Shared(sources, b[i])
  <2> DEFINE g == SharedEnvFindings(sources)
  <2>1. IsFiniteSet(DOMAIN g) /\ \A k \in DOMAIN g : Shared(sources, g[k]) /\ g[k] \in Finding
    BY EnvFindingsAreShared, SharedIsFinding
  <2> HIDE DEF g
  <2>2. ListOf(g) \in Seq(Finding) /\ \A i \in DOMAIN ListOf(g) : \E k \in DOMAIN g : ListOf(g)[i] = g[k]
    BY <2>1, ListOfValues
  <2>3. QED
    BY <2>1, <2>2 DEF g
<1>4. c \in Seq(Finding) /\ \A i \in DOMAIN c : Shared(sources, c[i])
  <2> DEFINE g == UtilsOveruseFindings(sources)
  <2>1. IsFiniteSet(DOMAIN g) /\ \A k \in DOMAIN g : Shared(sources, g[k]) /\ g[k] \in Finding
    BY UtilsFindingsAreShared, SharedIsFinding
  <2> HIDE DEF g
  <2>2. ListOf(g) \in Seq(Finding) /\ \A i \in DOMAIN ListOf(g) : \E k \in DOMAIN g : ListOf(g)[i] = g[k]
    BY <2>1, ListOfValues
  <2>3. QED
    BY <2>1, <2>2 DEF g
<1>5. \A x \in U : ~ Shared(sources, x)
  <2>1. SUFFICES ASSUME NEW x \in U, Shared(sources, x)
                 PROVE  FALSE
    OBVIOUS
  <2>2. PICK S \in SUBSET Files : Reported(sources, x, S)
    BY <2>1, OfFilesAre
  <2>3. x.rule_id \in {"RULE_A", "RULE_D", "RULE_E", "RULE_F", "RULE_G"}
    BY <2>2, ReportedIsFinding
  <2>4. x.rule_id \in {"RULE_B", "RULE_C"}
    BY <2>1, SharedIsFinding
  <2>5. QED
    BY <2>3, <2>4
<1>6. \A i \in DOMAIN l : l[i] \in U
  BY <1>2
<1> HIDE DEF U, l, b, c
<1> DEFINE d == l \o b
<1>7. /\ d \in Seq(Finding)
      /\ \A i \in DOMAIN l : i \in DOMAIN d /\ d[i] = l[i]
      /\ \A i \in DOMAIN d : i \in DOMAIN l \/ \E k \in DOMAIN b : d[i] = b[k]
  BY <1>2, <1>3, Joined
<1> HIDE DEF d
<1> DEFINE e == d \o c
<1>8. /\ e \in Seq(Finding)
      /\ \A i \in DOMAIN d : i \in DOMAIN e /\ e[i] = d[i]
      /\ \A i \in DOMAIN e : i \in DOMAIN d \/ \E k \in DOMAIN c : e[i] = c[k]
  BY <1>4, <1>7, Joined
<1> HIDE DEF e
<1>9. \A i \in DOMAIN l : i \in DOMAIN e /\ e[i] = l[i]
  BY <1>7, <1>8
<1>10. \A i \in DOMAIN e : i \in DOMAIN l \/ Shared(sources, e[i])
  BY <1>3, <1>4, <1>7, <1>8
<1>11. Reports(sources, importCycles, e)
  <2>1. \A x \in U : \E i \in DOMAIN e : e[i] = x
    BY <1>2, <1>9
  <2>2. \A i \in DOMAIN e : e[i] \in U \/ Shared(sources, e[i])
    BY <1>6, <1>9, <1>10
  <2>3. \A i, j \in DOMAIN e : e[i] = e[j] /\ e[i] \in U => i = j
    BY <1>2, <1>5, <1>9, <1>10
  <2>4. QED
    BY <1>8, <2>1, <2>2, <2>3 DEF Reports, U
<1>12. QED
  BY <1>1, <1>11 DEF d, e

\* And the sorted list.
LEMMA SortedReport ==
    ASSUME NEW sources, NEW importCycles, NEW l, Reports(sources, importCycles, l)
    PROVE  Reports(sources, importCycles, Sorted(l, FindingBefore))
<1> DEFINE R == ByKey(Finding)
           D == DOMAIN l
           t == Sorted(l, FindingBefore)
           ahead(j) == {k \in D : \/ FindingBefore(l[k], l[j])
                                  \/ ~ FindingBefore(l[j], l[k]) /\ k < j}
<1>1. l \in Seq(Finding) /\ D = 1..Len(l) /\ \A i \in D : l[i] \in Finding
  BY DEF Reports
<1>2. WeakOrder(R, Finding)
  <2>1. \A a, b \in Finding : <<a, b>> \in R <=> FindingBefore(a, b)
    BY TwoFindings
  <2> HIDE DEF R
  <2>2. QED
    BY <2>1, FindingsAreOrdered DEF WeakOrder
<1>3. \A j \in D : ahead(j) = Ahead(Places(R, l), D, j)
  <2>1. SUFFICES ASSUME NEW j \in D
                 PROVE  ahead(j) = Ahead(Places(R, l), D, j)
    OBVIOUS
  <2>2. ASSUME NEW k \in D
        PROVE  k \in ahead(j) <=> k \in Ahead(Places(R, l), D, j)
    <3>1. l[k] \in Finding /\ l[j] \in Finding
      BY <1>1
    <3>2. /\ <<l[k], l[j]>> \in R <=> FindingBefore(l[k], l[j])
          /\ <<l[j], l[k]>> \in R <=> FindingBefore(l[j], l[k])
      BY <3>1, TwoFindings
    <3>3. <<k, j>> \in Places(R, l) <=> k \in ahead(j)
      <4> HIDE DEF R
      <4>1. QED
        BY <3>2, TwoPlaces DEF Precedes
    <3>4. QED
      BY <3>3 DEF Ahead
  <2>3. QED
    BY <2>2 DEF Ahead
<1>4. t = SortedBy(R, l)
  <2>1. t = [i \in D |-> l[CHOOSE j \in D : Cardinality(ahead(j)) = i - 1]]
    BY DEF Sorted
  <2> HIDE DEF t, ahead, R
  <2>2. \A j \in D : Cardinality(ahead(j)) = Cardinality(Ahead(Places(R, l), D, j))
    BY <1>3
  <2>3. QED
    BY <2>1, <2>2 DEF SortedBy
<1> HIDE DEF R, t
<1>5. t \in Seq(Finding) /\ DOMAIN t = DOMAIN l /\ Permuted(l, t)
  BY <1>1, <1>2, <1>4, SortedByOrder
<1>6. PICK p : /\ \A i \in DOMAIN l : p[i] \in DOMAIN l /\ t[i] = l[p[i]]
               /\ \A i, j \in DOMAIN l : p[i] = p[j] => i = j
               /\ \A k \in DOMAIN l : \E i \in DOMAIN l : p[i] = k
  BY <1>5 DEF Permuted
<1>7. Reports(sources, importCycles, t)
  <2> DEFINE U == OfFiles(sources, importCycles)
  <2>1. /\ \A x \in U : \E i \in D : l[i] = x
        /\ \A i \in D : l[i] \in U \/ Shared(sources, l[i])
        /\ \A i, j \in D : l[i] = l[j] /\ l[i] \in U => i = j
    BY DEF Reports
  <2>2. DOMAIN t = D /\ D = DOMAIN l
    BY <1>5
  <2>3. /\ \A i \in D : p[i] \in D /\ t[i] = l[p[i]]
        /\ \A i, j \in D : p[i] = p[j] => i = j
        /\ \A k \in D : \E i \in D : p[i] = k
    BY <1>6
  <2> HIDE DEF U, D
  <2>4. \A x \in U : \E i \in D : t[i] = x
    <3>1. SUFFICES ASSUME NEW x \in U
                   PROVE  \E i \in D : t[i] = x
      OBVIOUS
    <3>2. PICK k \in D : l[k] = x
      BY <2>1
    <3>3. PICK i \in D : p[i] = k
      BY <2>3
    <3>4. t[i] = x
      BY <2>3, <3>2, <3>3
    <3>5. QED
      BY <3>4
  <2>5. \A i \in D : t[i] \in U \/ Shared(sources, t[i])
    BY <2>1, <2>3
  <2>6. \A i, j \in D : t[i] = t[j] /\ t[i] \in U => i = j
    BY <2>1, <2>3
  <2>7. QED
    BY <1>5, <2>2, <2>4, <2>5, <2>6 DEF Reports, U
<1>8. QED
  BY <1>7 DEF t
-----------------------------------------------------------------------------
(* What the report says of a file.                                         *)

\* The places of the findings of a rule on a file.
On(l, f, rule) == {i \in DOMAIN l : l[i].rule_id = rule /\ f \in FilesOf(l[i])}

\* Of the rules that look at single files each has at most one finding on a file.
LEMMA ReportedOnce ==
    ASSUME NEW sources, SourcesSound(sources), NEW importCycles, CyclesSound(importCycles),
           NEW l, Reports(sources, importCycles, l),
           NEW f, NEW rule \in {"RULE_A", "RULE_D", "RULE_G"},
           NEW i \in On(l, f, rule)
    PROVE  /\ rule = "RULE_A" => f \in HandlerFiles /\ l[i] = HandlerFinding(sources, f)
           /\ rule = "RULE_D" => l[i] = GlobalFinding(sources, f)
           /\ rule = "RULE_G" => f \notin HandlerFiles /\ l[i] = LayerFinding(f)
           /\ \A j \in DOMAIN l : l[j] = l[i] => j = i
<1>1. i \in DOMAIN l /\ l[i].rule_id = rule /\ f \in FilesOf(l[i])
  BY DEF On
<1>2. l[i] \in OfFiles(sources, importCycles)
  <2>1. CASE Shared(sources, l[i])
    <3>1. l[i].rule_id \in {"RULE_B", "RULE_C"}
      BY <2>1, SharedIsFinding
    <3>2. QED
      BY <1>1, <3>1
  <2>2. QED
    BY <1>1, <2>1 DEF Reports
<1>3. \A j \in DOMAIN l : l[j] = l[i] => j = i
  BY <1>1, <1>2 DEF Reports
<1> DEFINE x == l[i]
<1>4. PICK S \in SUBSET Files : Reported(sources, x, S)
  BY <1>2, OfFilesAre
<1>5. x.rule_id = rule /\ f \in FilesOf(x)
  BY <1>1
<1> HIDE DEF x
<1>6. FilesOf(x) = S
  BY <1>4, ReportedIsFinding
<1>7. CASE rule = "RULE_A"
  <2>1. x.rule_id = "RULE_A"
    BY <1>5, <1>7
  <2>2. PICK g \in HandlerFiles : S = {g} /\ x = HandlerFinding(sources, g)
    BY <1>4, <2>1, ReportedIsFinding
  <2>3. g = f
    BY <1>5, <1>6, <2>2
  <2>4. x = HandlerFinding(sources, f) /\ f \in HandlerFiles
    BY <2>2, <2>3
  <2>5. QED
    BY <1>3, <1>7, <2>4 DEF x
<1>8. CASE rule = "RULE_D"
  <2>1. x.rule_id = "RULE_D"
    BY <1>5, <1>8
  <2>2. PICK g \in Files : S = {g} /\ x = GlobalFinding(sources, g)
    BY <1>4, <2>1, ReportedIsFinding
  <2>3. g = f
    BY <1>5, <1>6, <2>2
  <2>4. x = GlobalFinding(sources, f)
    BY <2>2, <2>3
  <2>5. QED
    BY <1>3, <1>8, <2>4 DEF x
<1>9. CASE rule = "RULE_G"
  <2>1. x.rule_id = "RULE_G"
    BY <1>5, <1>9
  <2>2. PICK g \in Files \ HandlerFiles : S = {g} /\ x = LayerFinding(g)
    BY <1>4, <2>1, ReportedIsFinding
  <2>3. g = f
    BY <1>5, <1>6, <2>2
  <2>4. x = LayerFinding(f) /\ f \notin HandlerFiles
    BY <2>2, <2>3
  <2>5. QED
    BY <1>3, <1>9, <2>4 DEF x
<1>10. QED
  BY <1>7, <1>8, <1>9

\* A finding of these rules that is due is reported.
LEMMA DueIsReported ==
    ASSUME NEW sources, SourcesSound(sources), NEW importCycles, CyclesSound(importCycles),
           NEW l, Reports(sources, importCycles, l), NEW f \in DOMAIN sources
    PROVE  /\ f \in HandlerFiles /\ SignalsIn(sources, f) # {} => On(l, f, "RULE_A") # {}
           /\ f \notin NonProductFiles /\ RisksIn(sources, f) # {} =>
                 \E i \in On(l, f, "RULE_D") : l[i] = GlobalFinding(sources, f)
           /\ f \notin LeftToOtherRules /\ Cardinality(Certainly(SignalsIn(sources, f))) >= 2 =>
                 On(l, f, "RULE_G") # {}
<1>1. {f} \in SUBSET Files
  BY DEF SourcesSound
<1>2. ASSUME NEW x \in OfFiles(sources, importCycles), Reported(sources, x, {f})
      PROVE  \E i \in On(l, f, x.rule_id) : l[i] = x
  <2>1. PICK i \in DOMAIN l : l[i] = x
    BY DEF Reports
  <2>2. FilesOf(x) = {f}
    BY <1>1, <1>2, ReportedIsFinding
  <2>3. i \in On(l, f, x.rule_id)
    BY <2>1, <2>2 DEF On
  <2>4. QED
    BY <2>1, <2>3
<1>3. ASSUME f \in HandlerFiles, SignalsIn(sources, f) # {}
      PROVE  On(l, f, "RULE_A") # {}
  <2> DEFINE x == HandlerFinding(sources, f)
  <2>1. x \in HandlerDbFindings(sources)
    BY <1>3 DEF HandlerDbFindings, HandlerFinding
  <2>2. x \in OfFiles(sources, importCycles)
    BY <2>1 DEF OfFiles
  <2>3. Reported(sources, x, {f})
    BY <1>3 DEF Reported
  <2>4. x.rule_id = "RULE_A"
    BY DEF HandlerFinding, Find
  <2> HIDE DEF x
  <2>5. QED
    BY <1>2, <2>2, <2>3, <2>4
<1>4. ASSUME f \notin NonProductFiles, RisksIn(sources, f) # {}
      PROVE  \E i \in On(l, f, "RULE_D") : l[i] = GlobalFinding(sources, f)
  <2> DEFINE x == GlobalFinding(sources, f)
  <2>1. x \in GlobalStateFindings(sources)
    BY <1>4 DEF GlobalStateFindings, GlobalFinding
  <2>2. x \in OfFiles(sources, importCycles)
    BY <2>1 DEF OfFiles
  <2>3. Reported(sources, x, {f})
    BY <1>4 DEF Reported
  <2>4. x.rule_id = "RULE_D"
    BY DEF GlobalFinding, Find
  <2> HIDE DEF x
  <2>5. \E i \in On(l, f, "RULE_D") : l[i] = x
    BY <1>2, <2>2, <2>3, <2>4
  <2>6. QED
    BY <2>5 DEF x
<1>5. ASSUME f \notin LeftToOtherRules, Cardinality(Certainly(SignalsIn(sources, f))) >= 2
      PROVE  On(l, f, "RULE_G") # {}
  <2> DEFINE x == LayerFinding(f)
  <2>1. x \in CrossLayerDbFindings(sources)
    BY <1>5 DEF CrossLayerDbFindings, LayerFinding
  <2>2. x \in OfFiles(sources, importCycles)
    BY <2>1 DEF OfFiles
  <2>3. Reported(sources, x, {f})
    BY <1>5 DEF Reported
  <2>4. x.rule_id = "RULE_G"
    BY DEF LayerFinding, Find
  <2> HIDE DEF x
  <2>5. QED
    BY <1>2, <2>2, <2>3, <2>4
<1>6. QED
  BY <1>3, <1>4, <1>5

\* Of the two rules about database access, at most one reports a file, and at
\* most once; and one does if it should.
LEMMA AccessReported ==
    ASSUME NEW sources, SourcesSound(sources), NEW importCycles, CyclesSound(importCycles),
           NEW l, Reports(sources, importCycles, l), NEW f \in DOMAIN sources
    PROVE  /\ Cardinality(On(l, f, "RULE_A") \cup On(l, f, "RULE_G")) <= 1
           /\ Cardinality(Certainly(SignalsIn(sources, f))) >= 2 =>
                 \/ On(l, f, "RULE_A") \cup On(l, f, "RULE_G") # {}
                 \/ f \in DataAccessFiles
<1> DEFINE reports == On(l, f, "RULE_A") \cup On(l, f, "RULE_G")
<1>1. \A i, j \in reports : i = j
  <2>1. SUFFICES ASSUME NEW i \in reports, NEW j \in reports
                 PROVE  i = j
    OBVIOUS
  <2>2. i \in DOMAIN l /\ j \in DOMAIN l
    BY DEF On
  <2>3. CASE i \in On(l, f, "RULE_A") /\ j \in On(l, f, "RULE_A")
    <3>1. l[i] = HandlerFinding(sources, f) /\ \A k \in DOMAIN l : l[k] = l[i] => k = i
      BY <2>3, ReportedOnce
    <3>2. l[j] = HandlerFinding(sources, f)
      BY <2>3, ReportedOnce
    <3>3. QED
      BY <2>2, <3>1, <3>2
  <2>4. CASE i \in On(l, f, "RULE_G") /\ j \in On(l, f, "RULE_G")
    <3>1. l[i] = LayerFinding(f) /\ \A k \in DOMAIN l : l[k] = l[i] => k = i
      BY <2>4, ReportedOnce
    <3>2. l[j] = LayerFinding(f)
      BY <2>4, ReportedOnce
    <3>3. QED
      BY <2>2, <3>1, <3>2
  <2>5. \A k \in On(l, f, "RULE_A") : f \in HandlerFiles
    BY ReportedOnce
  <2>6. \A k \in On(l, f, "RULE_G") : f \notin HandlerFiles
    BY ReportedOnce
  <2>7. QED
    BY <2>3, <2>4, <2>5, <2>6
<1>2. Cardinality(reports) <= 1
  <2> HIDE DEF reports
  <2>1. CASE reports = {}
    BY <2>1, FS_EmptySet
  <2>2. CASE reports # {}
    <3>1. PICK i : reports = {i}
      BY <1>1, <2>2
    <3>2. QED
      BY <3>1, FS_Singleton
  <2>3. QED
    BY <2>1, <2>2
<1>3. ASSUME Cardinality(Certainly(SignalsIn(sources, f))) >= 2, f \notin DataAccessFiles
      PROVE  reports # {}
  <2>1. CASE f \in HandlerFiles
    <3>1. SignalsIn(sources, f) # {}
      <4>1. SUFFICES ASSUME SignalsIn(sources, f) = {}
                     PROVE  FALSE
        OBVIOUS
      <4>2. Certainly(SignalsIn(sources, f)) = {}
        BY <4>1 DEF Certainly
      <4>3. Cardinality(Certainly(SignalsIn(sources, f))) = 0
        BY <4>2, FS_EmptySet
      <4>4. QED
        BY <1>3, <4>3
    <3>2. QED
      BY <2>1, <3>1, DueIsReported
  <2>2. CASE f \notin HandlerFiles
    <3>1. f \notin LeftToOtherRules
      BY <1>3, <2>2 DEF LeftToOtherRules
    <3>2. QED
      BY <1>3, <3>1, DueIsReported
  <2>3. QED
    BY <2>1, <2>2
<1>4. QED
  BY <1>2, <1>3
-----------------------------------------------------------------------------
(* What the validator makes of the findings.                               *)

\* Something in the file that looks like a database operation has the word
\* "high" in its name.
NamesHigh(sources, f) == \E s \in SignalsIn(sources, f) : s.high

\* The rules engine and the validator agree on a finding.
Agree(sources, x) ==
    /\ x \in Finding
    /\ DeterministicValidation(x).status =
          IF x.rule_id \in {"RULE_F", "RULE_G"} THEN "needs_review" ELSE "confirmed"
    /\ x.rule_id = "RULE_B" =>
          (DeterministicValidation(x).confidence = "high" <=> x.severity = "high")
    /\ /\ x.rule_id = "RULE_A" /\ x.severity # "high"
       /\ DeterministicValidation(x).confidence = "high"
       => NamesHigh(sources, x.files[1])

\* The verdict on a finding with files and something in its evidence.
LEMMA VerdictOf ==
    ASSUME NEW x \in Finding, x.evidence # "none", x.files # <<>>
    PROVE  /\ DeterministicValidation(x).confidence = DeterministicConfidence(x)
           /\ DeterministicValidation(x).status =
                 IF DeterministicConfidence(x) = "low" THEN "needs_review" ELSE "confirmed"
<1> DEFINE confidence == DeterministicConfidence(x)
           status == IF confidence = "low" THEN "needs_review" ELSE "confirmed"
<1>1. DeterministicValidation(x) = Verdict(x, status, confidence, "deterministic_fallback")
  BY DEF DeterministicValidation
<1> HIDE DEF confidence, status
<1>2. /\ Verdict(x, status, confidence, "deterministic_fallback").confidence = confidence
      /\ Verdict(x, status, confidence, "deterministic_fallback").status = status
  BY DEF Verdict
<1>3. DeterministicValidation(x).confidence = confidence /\ DeterministicValidation(x).status = status
  BY <1>1, <1>2
<1>4. QED
  BY <1>3 DEF confidence, status

\* A finding on a file, or on some files, has the list of its files.
LEMMA FilesKnown ==
    ASSUME NEW x, NEW rule, NEW severity, NEW S \in SUBSET Files, NEW evidence,
           MadeOf(x, rule, severity, S, evidence), S # {}
    PROVE  x \in Finding /\ x.files # <<>> /\ Len(x.files) = Cardinality(S)
<1>1. x \in Finding /\ FilesOf(x) = S /\ Len(x.files) = Cardinality(S)
  BY DEF MadeOf
<1>2. PICK f : f \in FilesOf(x)
  BY <1>1
<1>3. x.files # <<>>
  BY <1>2 DEF FilesOf
<1>4. QED
  BY <1>1, <1>3

\* What the rules see to when they make a finding.
MadeByRules(sources, rule, severity, S, evidence) ==
    /\ rule = "RULE_A" /\ evidence = "strong" /\ severity # "high" =>
          \A f \in S : NamesHigh(sources, f)
    /\ rule = "RULE_B" => (Cardinality(S) >= 4 <=> severity = "high")
    /\ rule = "RULE_C" => Cardinality(S) >= 5
    /\ rule = "RULE_D" => evidence = "strong"

\* So they do on every finding the rules make.
LEMMA FindingsAgree ==
    ASSUME NEW rule \in Rules, NEW severity \in Severities, NEW S \in SUBSET Files, S # {},
           NEW evidence \in {"plain", "strong"},
           NEW sources, MadeByRules(sources, rule, severity, S, evidence),
           NEW x, x = Find(rule, severity, S, evidence)
    PROVE  Agree(sources, x)
<1>1. MadeOf(x, rule, severity, S, evidence)
  <2>1. evidence \in Evidence
    BY DEF Evidence
  <2>2. QED
    BY <2>1, FoundIsFinding
<1>2. /\ x \in Finding /\ x.files # <<>> /\ Len(x.files) = Cardinality(S)
      /\ x.rule_id = rule /\ x.severity = severity /\ x.evidence = evidence
  BY <1>1, FilesKnown DEF MadeOf
<1>3. /\ DeterministicValidation(x).confidence = DeterministicConfidence(x)
      /\ DeterministicValidation(x).status =
            IF DeterministicConfidence(x) = "low" THEN "needs_review" ELSE "confirmed"
  BY <1>2, VerdictOf
<1>4. DeterministicConfidence(x) =
          CASE rule \in {"RULE_A", "RULE_D"} -> IF evidence = "strong" THEN "high" ELSE "medium"
            [] rule = "RULE_B" -> IF Cardinality(S) >= 4 THEN "high" ELSE "medium"
            [] rule = "RULE_C" -> IF Cardinality(S) >= 5 THEN "medium" ELSE "low"
            [] rule = "RULE_E" -> "medium"
            [] OTHER -> "low"
  BY <1>2 DEF DeterministicConfidence
<1>5. rule \in {"RULE_F", "RULE_G"} <=> DeterministicConfidence(x) = "low"
  BY <1>4 DEF Rules, MadeByRules
<1>6. rule = "RULE_B" => (DeterministicConfidence(x) = "high" <=> severity = "high")
  BY <1>4 DEF MadeByRules
<1>7. ASSUME rule = "RULE_A", DeterministicConfidence(x) = "high", severity # "high"
      PROVE  NamesHigh(sources, x.files[1])
  <2>1. \A f \in S : NamesHigh(sources, f)
    BY <1>4, <1>7 DEF MadeByRules
  <2>2. FilesOf(x) = S
    BY <1>1 DEF MadeOf
  <2>3. 1 \in DOMAIN x.files
    BY <1>2 DEF Finding
  <2>4. x.files[1] \in S
    BY <2>2, <2>3 DEF FilesOf
  <2>5. QED
    BY <2>1, <2>4
<1>8. QED
  BY <1>2, <1>3, <1>5, <1>6, <1>7 DEF Agree

\* On every finding of the report.
LEMMA ReportAgrees ==
    ASSUME UTILS_OVERUSE_THRESHOLD >= 5, NEW sources, SourcesSound(sources),
           NEW importCycles, CyclesSound(importCycles),
           NEW l, Reports(sources, importCycles, l), NEW i \in DOMAIN l
    PROVE  Agree(sources, l[i])
<1> DEFINE x == l[i]
<1>1. x \in OfFiles(sources, importCycles) \/ Shared(sources, x)
  BY DEF Reports
<1> SUFFICES Agree(sources, x)
  OBVIOUS
<1> HIDE DEF x
<1>2. \A test : /\ HighIf(test) \in Severities
                /\ (test => HighIf(test) = "high") /\ (~ test => HighIf(test) # "high")
  BY DEF HighIf, Severities
<1>3. \A f \in DOMAIN sources : {f} \in SUBSET Files /\ {f} # {}
  BY DEF SourcesSound
<1>4. {"RULE_A", "RULE_B", "RULE_C", "RULE_D", "RULE_E", "RULE_F", "RULE_G"} = Rules
      /\ "medium" \in Severities
  BY DEF Rules, Severities
<1>5. CASE Shared(sources, x)
  <2>1. CASE \E S \in SUBSET Files :
                 /\ Cardinality(S) > 1
                 /\ x = Find("RULE_B", HighIf(Cardinality(S) >= 4), S, "plain")
    <3>1. PICK S \in SUBSET Files : /\ Cardinality(S) > 1
                                    /\ x = Find("RULE_B", HighIf(Cardinality(S) >= 4), S, "plain")
      BY <2>1
    <3>2. S # {}
      BY <3>1, FS_EmptySet
    <3> DEFINE severity == HighIf(Cardinality(S) >= 4)
               rule == "RULE_B"
               evidence == "plain"
    <3>3. severity \in Severities /\ x = Find(rule, severity, S, evidence)
      BY <1>2, <3>1
    <3>4. /\ rule \in Rules /\ evidence \in {"plain", "strong"}
          /\ MadeByRules(sources, rule, severity, S, evidence)
      <4>1. Cardinality(S) >= 4 <=> severity = "high"
        BY DEF HighIf
      <4>2. QED
        BY <1>4, <4>1 DEF MadeByRules
    <3> HIDE DEF severity, rule, evidence
    <3>5. QED
      BY <3>2, <3>3, <3>4, FindingsAgree
  <2>2. CASE \E S \in SUBSET Files :
                 /\ Cardinality(S) >= UTILS_OVERUSE_THRESHOLD
                 /\ x = Find("RULE_C", HighIf(Cardinality(S) >= UTILS_OVERUSE_THRESHOLD + 3), S,
                             "plain")
    <3>1. PICK S \in SUBSET Files :
              /\ Cardinality(S) >= UTILS_OVERUSE_THRESHOLD
              /\ x = Find("RULE_C", HighIf(Cardinality(S) >= UTILS_OVERUSE_THRESHOLD + 3), S, "plain")
      BY <2>2
    <3>2. Cardinality(S) >= 5
      <4>1. Cardinality(S) \in Nat /\ UTILS_OVERUSE_THRESHOLD \in Nat
        BY FilesAreListed, RulesAssumption
      <4>2. QED
        BY <3>1, <4>1
    <3>3. S # {}
      BY <3>2, FS_EmptySet
    <3> DEFINE severity == HighIf(Cardinality(S) >= UTILS_OVERUSE_THRESHOLD + 3)
               rule == "RULE_C"
               evidence == "plain"
    <3>4. severity \in Severities /\ x = Find(rule, severity, S, evidence)
      BY <1>2, <3>1
    <3>5. /\ rule \in Rules /\ evidence \in {"plain", "strong"}
          /\ MadeByRules(sources, rule, severity, S, evidence)
      BY <1>4, <3>2 DEF MadeByRules
    <3> HIDE DEF severity, rule, evidence
    <3>6. QED
      BY <3>2, <3>3, <3>4, <3>5, FindingsAgree
  <2>3. QED
    BY <1>5, <2>1, <2>2 DEF Shared
<1>6. CASE x \in OfFiles(sources, importCycles)
  <2>1. PICK S \in SUBSET Files : Reported(sources, x, S)
    BY <1>6, OfFilesAre
  <2>2. ASSUME NEW f \in DOMAIN sources, x = HandlerFinding(sources, f)
        PROVE  Agree(sources, x)
    <3> DEFINE severity == HighIf(Certainly(SignalsIn(sources, f)) # {})
               evidence == IF ReadsHigh(FirstThree(SignalsIn(sources, f))) # {}
                           THEN "strong" ELSE "plain"
    <3>1. ASSUME Certainly(SignalsIn(sources, f)) = {}, ReadsHigh(FirstThree(SignalsIn(sources, f))) # {}
          PROVE  NamesHigh(sources, f)
      BY <3>1 DEF Certainly, ReadsHigh, FirstThree, NamesHigh
    <3>2. /\ severity \in Severities /\ evidence \in {"plain", "strong"}
          /\ evidence = "strong" /\ severity # "high" => NamesHigh(sources, f)
          /\ x = Find("RULE_A", severity, {f}, evidence)
      BY <1>2, <2>2, <3>1 DEF HandlerFinding
    <3> HIDE DEF severity, evidence
    <3>3. MadeByRules(sources, "RULE_A", severity, {f}, evidence)
      BY <3>2 DEF MadeByRules
    <3>4. QED
      BY <1>3, <1>4, <3>2, <3>3, FindingsAgree
  <2>3. ASSUME NEW f \in DOMAIN sources, x = GlobalFinding(sources, f)
        PROVE  Agree(sources, x)
    <3> DEFINE severity == HighIf("high" \in RisksIn(sources, f))
    <3>1. severity \in Severities /\ x = Find("RULE_D", severity, {f}, "strong")
      BY <1>2, <2>3 DEF GlobalFinding
    <3> HIDE DEF severity
    <3>2. MadeByRules(sources, "RULE_D", severity, {f}, "strong")
      BY DEF MadeByRules
    <3>3. QED
      BY <1>3, <1>4, <3>1, <3>2, FindingsAgree
  <2>4. ASSUME S # {}, x = CycleFinding(S)
        PROVE  Agree(sources, x)
    <3> DEFINE severity == HighIf(Cardinality(S) >= 4)
    <3>1. severity \in Severities /\ x = Find("RULE_E", severity, S, "plain")
      BY <1>2, <2>4 DEF CycleFinding
    <3> HIDE DEF severity
    <3>2. MadeByRules(sources, "RULE_E", severity, S, "plain")
      BY DEF MadeByRules
    <3>3. QED
      BY <1>4, <2>4, <3>1, <3>2, FindingsAgree
  <2>5. ASSUME NEW f \in DOMAIN sources, x = SizeFinding(f) \/ x = LayerFinding(f)
        PROVE  Agree(sources, x)
    <3>1. PICK rule \in {"RULE_F", "RULE_G"} : x = Find(rule, "medium", {f}, "plain")
      BY <2>5 DEF SizeFinding, LayerFinding
    <3> DEFINE severity == "medium"
               evidence == "plain"
               T == {f}
    <3>2. /\ rule \in Rules /\ evidence \in {"plain", "strong"} /\ severity \in Severities
          /\ MadeByRules(sources, rule, severity, T, evidence)
          /\ x = Find(rule, severity, T, evidence)
          /\ T \in SUBSET Files /\ T # {}
      BY <1>3, <1>4, <3>1 DEF MadeByRules
    <3> HIDE DEF severity, evidence, T
    <3>3. QED
      BY <3>2, FindingsAgree
  <2>6. \/ \E f \in DOMAIN sources : x = HandlerFinding(sources, f)
        \/ \E f \in DOMAIN sources : x = GlobalFinding(sources, f)
        \/ S # {} /\ x = CycleFinding(S)
        \/ \E f \in DOMAIN sources : x = SizeFinding(f) \/ x = LayerFinding(f)
    BY <2>1 DEF Reported
  <2>7. QED
    BY <2>2, <2>3, <2>4, <2>5, <2>6
<1>7. QED
  BY <1>1, <1>5, <1>6
-----------------------------------------------------------------------------
(* Changes of global state.                                                *)

\* The last element of a sequence.
LEMMA LastPlace ==
    ASSUME NEW S, NEW s \in Seq(S), s # <<>>
    PROVE  /\ Len(s) \in DOMAIN s /\ 1 \in DOMAIN s
           /\ \A i \in DOMAIN s : i <= Len(s)
  OBVIOUS

\* What the scan takes for a mutation: every deed that changes the object of
\* the module.
LEMMA MutationIsSeen ==
    ASSUME NEW deeds \in SUBSET Deed, \A e \in deeds : e.in # <<>>,
           NEW d \in deeds, ChangesGlobal(deeds, d)
    PROVE  d \in Mutations(deeds, d.name)
<1>1. \A e \in deeds : e.in \in Seq(STRING)
  BY DEF Deed
<1>2. \A e \in deeds : /\ Len(e.in) \in DOMAIN e.in /\ 1 \in DOMAIN e.in
                       /\ \A i \in DOMAIN e.in : i <= Len(e.in)
  <2> DEFINE S == STRING
  <2>1. \A e \in deeds : e.in \in Seq(S) /\ e.in # <<>>
    BY <1>1
  <2> HIDE DEF S
  <2>2. QED
    BY <2>1, LastPlace
<1>3. SUFFICES \E i \in DOMAIN d.in : Changes(d, DeclaredGlobal(deeds, d.in[i]))
  BY DEF Mutations, Functions, Walked
<1>4. CASE \/ d.kind = "element"
           \/ d.kind = "call" /\ d.method \in MutationMethods \ SafeMethods
  BY <1>2, <1>4 DEF Changes
<1>5. CASE d.kind = "assign"
  <2> DEFINE n == Len(d.in)
             g == InnermostFunction(d)
  <2>1. g = d.in[n] /\ n \in DOMAIN d.in /\ \A i \in DOMAIN d.in : i <= n
    BY <1>2 DEF InnermostFunction
  <2> HIDE DEF n
  <2>2. Declares(deeds, g, d.name) \/ HasLocal(deeds, g, d.name)
    BY <1>5 DEF HasLocal
  <2>3. Declares(deeds, g, d.name)
    BY <2>1, <2>2 DEF ChangesGlobal, MeansModule
  <2>4. PICK e \in deeds : e.kind = "global" /\ e.name = d.name /\ InnermostFunction(e) = g
    BY <2>3 DEF Declares
  <2>5. e \in Walked(deeds, g)
    BY <1>2, <2>4 DEF Walked, InnermostFunction
  <2>6. d.name \in DeclaredGlobal(deeds, g)
    BY <2>4, <2>5 DEF DeclaredGlobal
  <2>7. QED
    BY <1>5, <2>1, <2>6 DEF Changes
<1>6. QED
  BY <1>4, <1>5 DEF ChangesGlobal

\* So that its file has a finding of high severity.
LEMMA MutationReported ==
    ASSUME NEW sources, SourcesSound(sources), NEW importCycles, CyclesSound(importCycles),
           NEW l, Reports(sources, importCycles, l), NEW f \in DOMAIN sources \ NonProductFiles,
           NEW d \in sources[f].deeds, d.name \in Candidates(sources[f].bindings),
           ChangesGlobal(sources[f].deeds, d)
    PROVE  \E i \in On(l, f, "RULE_D") : l[i].severity = "high"
<1> DEFINE deeds == sources[f].deeds
           bindings == sources[f].bindings
<1>1. deeds \in SUBSET Deed /\ \A e \in deeds : e.in # <<>>
  BY DEF SourcesSound, Source
<1>2. d.name \in Candidates(bindings) /\ d \in deeds /\ ChangesGlobal(deeds, d)
  OBVIOUS
<1>3. RisksIn(sources, f) = {Risk(deeds, n) : n \in RiskyGlobals(bindings, deeds)}
  BY DEF RisksIn
<1> HIDE DEF deeds, bindings
<1>4. d \in Mutations(deeds, d.name)
  BY <1>1, <1>2, MutationIsSeen
<1>5. d.name \in RiskyGlobals(bindings, deeds) /\ Risk(deeds, d.name) = "high"
  BY <1>2, <1>4 DEF RiskyGlobals, Risk
<1>6. "high" \in RisksIn(sources, f)
  BY <1>3, <1>5
<1>7. PICK i \in On(l, f, "RULE_D") : l[i] = GlobalFinding(sources, f)
  BY <1>6, DueIsReported
<1>8. GlobalFinding(sources, f).severity = "high"
  BY <1>6 DEF GlobalFinding, Find, HighIf
<1>9. QED
  BY <1>7, <1>8
-----------------------------------------------------------------------------
(* Beginnings of names.                                                    *)

\* The prefixes of a sequence are its beginnings.
LEMMA PrefixOf ==
    ASSUME NEW S, NEW s \in Seq(S), NEW p
    PROVE  p \in Prefixes(s) <=>
              p \in Seq(S) /\ Len(p) <= Len(s) /\ \A i \in 1..Len(p) : p[i] = s[i]
<1>1. ASSUME NEW n \in 0..Len(s)
      PROVE  /\ SubSeq(s, 1, n) \in Seq(S) /\ Len(SubSeq(s, 1, n)) = n
             /\ \A i \in 1..n : SubSeq(s, 1, n)[i] = s[i]
  OBVIOUS
<1>2. ASSUME p \in Prefixes(s)
      PROVE  p \in Seq(S) /\ Len(p) <= Len(s) /\ \A i \in 1..Len(p) : p[i] = s[i]
  <2>1. PICK n \in 0..Len(s) : p = SubSeq(s, 1, n)
    BY <1>2 DEF Prefixes
  <2>2. QED
    BY <1>1, <2>1
<1>3. ASSUME p \in Seq(S), Len(p) <= Len(s), \A i \in 1..Len(p) : p[i] = s[i]
      PROVE  p \in Prefixes(s)
  <2> DEFINE n == Len(p)
             q == SubSeq(s, 1, n)
  <2>1. n \in 0..Len(s)
    BY <1>3
  <2>2. q \in Seq(S) /\ Len(q) = n /\ \A i \in 1..n : q[i] = s[i]
    BY <1>1, <2>1
  <2>3. q \in Prefixes(s)
    BY <2>1 DEF Prefixes
  <2> HIDE DEF q
  <2>4. q = p
    BY <1>3, <2>2
  <2>5. QED
    BY <2>3, <2>4
<1>4. QED
  BY <1>2, <1>3

\* Of two prefixes of a name the shorter one is a prefix of the longer one, and
\* with one more part there is one more prefix.
LEMMA PrefixesNest ==
    ASSUME NEW S, NEW s \in Seq(S)
    PROVE  /\ \A p \in Prefixes(s) : p \in Seq(S) /\ Len(p) \in Nat
           /\ \A p, q \in Prefixes(s) : /\ Len(p) <= Len(q) => p \in Prefixes(q)
                                        /\ Len(p) = Len(q) => p = q
           /\ \A x \in S : /\ Prefixes(Append(s, x)) = Prefixes(s) \cup {Append(s, x)}
                           /\ Append(s, x) \in Seq(S)
<1>1. \A p \in Prefixes(s) : /\ p \in Seq(S) /\ Len(p) \in Nat /\ Len(p) <= Len(s)
                             /\ \A i \in 1..Len(p) : p[i] = s[i]
  BY PrefixOf
<1>2. ASSUME NEW p \in Prefixes(s), NEW q \in Prefixes(s), Len(p) <= Len(q)
      PROVE  p \in Prefixes(q) /\ (Len(p) = Len(q) => p = q)
  <2>1. p \in Seq(S) /\ q \in Seq(S) /\ \A i \in 1..Len(p) : p[i] = q[i]
    BY <1>1, <1>2
  <2>2. p \in Prefixes(q)
    BY <1>2, <2>1, PrefixOf
  <2>3. QED
    BY <2>1, <2>2
<1>3. ASSUME NEW x \in S
      PROVE  /\ Prefixes(Append(s, x)) = Prefixes(s) \cup {Append(s, x)}
             /\ Append(s, x) \in Seq(S)
  <2> DEFINE t == Append(s, x)
             n == Len(s)
  <2>1. /\ t \in Seq(S) /\ Len(t) = n + 1 /\ n \in Nat
        /\ \A i \in 1..n : t[i] = s[i]
        /\ t[n + 1] = x
    OBVIOUS
  <2> HIDE DEF t
  <2>2. ASSUME NEW p \in Prefixes(t)
        PROVE  p \in Prefixes(s) \/ p = t
    <3>1. p \in Seq(S) /\ Len(p) \in Nat /\ Len(p) <= n + 1 /\ \A i \in 1..Len(p) : p[i] = t[i]
      BY <2>1, <2>2, PrefixOf
    <3>2. CASE Len(p) <= n
      <4>1. \A i \in 1..Len(p) : p[i] = s[i]
        BY <2>1, <3>1, <3>2
      <4>2. QED
        BY <3>1, <3>2, <4>1, PrefixOf
    <3>3. CASE Len(p) = n + 1
      BY <2>1, <3>1, <3>3
    <3>4. QED
      BY <2>1, <3>1, <3>2, <3>3
  <2>3. ASSUME NEW p \in Prefixes(s)
        PROVE  p \in Prefixes(t)
    <3>1. p \in Seq(S) /\ Len(p) \in Nat /\ Len(p) <= n /\ \A i \in 1..Len(p) : p[i] = s[i]
      BY <1>1
    <3>2. Len(p) <= n + 1 /\ \A i \in 1..Len(p) : p[i] = t[i]
      BY <2>1, <3>1
    <3>3. QED
      BY <2>1, <3>1, <3>2, PrefixOf
  <2>4. t \in Prefixes(t)
    BY <2>1, PrefixOf
  <2>5. Prefixes(t) = Prefixes(s) \cup {t}
    BY <2>2, <2>3, <2>4
  <2>6. QED
    BY <2>1, <2>5 DEF t
<1>4. \A p, q \in Prefixes(s) : Len(p) = Len(q) => Len(p) <= Len(q)
  BY <1>1
<1>5. QED
  BY <1>1, <1>2, <1>3, <1>4
-----------------------------------------------------------------------------
(* The index of the modules.                                               *)

\* The module of a file has a name, no part of which is a star, and the package
\* of a plain file is its directory.
LEMMA ModuleHasName ==
    ASSUME NEW f \in Files
    PROVE  /\ ModuleOf(f) \in Seq(STRING) /\ PackageOf(f) \in Seq(STRING)
           /\ \A i \in DOMAIN ModuleOf(f) : ModuleOf(f)[i] # "*"
           /\ PathOf[f].dirs \in Seq(STRING)
           /\ PathOf[f].plain => PackageOf(f) = PathOf[f].dirs
<1> DEFINE S == STRING
           dirs == PathOf[f].dirs
           stem == PathOf[f].stem
           parts == dirs \o stem
           n == Len(parts)
           m == ModuleOf(f)
<1>1. /\ dirs \in Seq(STRING \ {"", "__init__"}) /\ stem \in Seq(STRING \ {""}) \ {<<>>}
      /\ PathOf[f].plain => Len(stem) = 1
  BY RepositoryAssumption DEF Path
<1>2. dirs \in Seq(S) /\ stem \in Seq(S) /\ stem # <<>>
  <2> HIDE DEF dirs, stem
  <2>1. STRING \ {"", "__init__"} \subseteq S /\ STRING \ {""} \subseteq S
    OBVIOUS
  <2> HIDE DEF S
  <2>2. dirs \in Seq(S)
    BY <1>1, <2>1, SeqMonotonic
  <2>3. stem \in Seq(S)
    BY <1>1, <2>1, SeqMonotonic
  <2>4. QED
    BY <1>1, <2>2, <2>3
<1>3. \A i \in DOMAIN ModuleOf(f) : ModuleOf(f)[i] # "*"
  BY RepositoryAssumption
<1>4. m = IF n > 1 /\ parts[n] = "__init__" THEN SubSeq(parts, 1, n - 1) ELSE parts
  BY DEF ModuleOf
<1>5. PackageOf(f) = IF IsInit(f) THEN dirs ELSE SubSeq(m, 1, Len(m) - 1)
  BY DEF PackageOf
<1>6. IsInit(f) <=> stem = <<"__init__">>
  BY DEF IsInit
<1> HIDE DEF S, dirs, stem, m
<1>7. parts \in Seq(S) /\ n = Len(dirs) + Len(stem) /\ n \in Nat \ {0}
  BY <1>2
<1>8. m \in Seq(S) /\ Len(m) \in Nat \ {0}
  <2>1. CASE n > 1 /\ parts[n] = "__init__"
    <3> HIDE DEF parts
    <3>1. m = SubSeq(parts, 1, n - 1) /\ n - 1 \in 1..n
      BY <1>4, <1>7, <2>1
    <3>2. QED
      BY <1>7, <3>1
  <2>2. CASE ~ (n > 1 /\ parts[n] = "__init__")
    <3> HIDE DEF parts
    <3>1. QED
      BY <1>4, <1>7, <2>2
  <2>3. QED
    BY <2>1, <2>2
<1>9. PackageOf(f) \in Seq(S)
  <2>1. SubSeq(m, 1, Len(m) - 1) \in Seq(S)
    BY <1>8
  <2>2. QED
    BY <1>2, <1>5, <2>1
<1>10. ASSUME Len(stem) = 1, stem # <<"__init__">>
       PROVE  SubSeq(m, 1, Len(m) - 1) = dirs
  <2>1. n = Len(dirs) + 1 /\ parts[n] = stem[1] /\ \A i \in 1..Len(dirs) : parts[i] = dirs[i]
    BY <1>2, <1>7, <1>10
  <2>2. stem[1] # "__init__"
    BY <1>2, <1>10
  <2> HIDE DEF parts
  <2>3. m = parts /\ Len(m) - 1 = Len(dirs)
    BY <1>2, <1>4, <1>7, <2>1, <2>2
  <2>4. /\ SubSeq(m, 1, Len(dirs)) \in Seq(S) /\ Len(SubSeq(m, 1, Len(dirs))) = Len(dirs)
        /\ \A i \in 1..Len(dirs) : SubSeq(m, 1, Len(dirs))[i] = dirs[i]
    BY <1>2, <1>8, <2>1, <2>3
  <2>5. QED
    BY <1>2, <2>3, <2>4
<1>11. PathOf[f].plain => PackageOf(f) = dirs
  BY <1>1, <1>5, <1>6, <1>10 DEF stem
<1>12. QED
  BY <1>2, <1>3, <1>8, <1>9, <1>11 DEF S, dirs, m

\* The index has a file of that module, and of several the first one.
LEMMA IndexHasFirst ==
    ASSUME NEW P \in SUBSET Files, NEW m \in DOMAIN ModuleIndex(P)
    PROVE  /\ ModuleIndex(P)[m] \in P /\ ModuleOf(ModuleIndex(P)[m]) = m
           /\ \A g \in P : ModuleOf(g) = m => PathRank[ModuleIndex(P)[m]] <= PathRank[g]
<1> DEFINE F == {f \in P : ModuleOf(f) = m}
           T == {PathRank[f] : f \in F}
<1>1. F # {}
  BY DEF ModuleIndex
<1>2. \A f \in F : PathRank[f] \in Nat
  BY RepositoryAssumption
<1>3. T \in SUBSET Nat /\ T # {}
  BY <1>1, <1>2
<1>4. PICK least \in T : \A r \in T : least <= r
  <2> HIDE DEF T
  <2>1. QED
    BY <1>3, SmallestNumber
<1>5. PICK h \in F : \A g \in F : PathRank[h] <= PathRank[g]
  BY <1>4
<1>6. \E f \in P : /\ ModuleOf(f) = m
                   /\ \A g \in P : ModuleOf(g) = m => PathRank[f] <= PathRank[g]
  BY <1>5
<1>7. m \in {ModuleOf(f) : f \in P}
  BY DEF ModuleIndex
<1>8. ModuleIndex(P)[m] =
          CHOOSE f \in P : /\ ModuleOf(f) = m
                           /\ \A g \in P : ModuleOf(g) = m => PathRank[f] <= PathRank[g]
  BY <1>7 DEF ModuleIndex
<1>9. QED
  BY <1>6, <1>8

\* Of a package and a module of the same name the package is the first.
LEMMA PackageComesFirst ==
    ASSUME NEW P \in SUBSET Files, NEW m \in DOMAIN ModuleIndex(P),
           NEW h \in P, ModuleOf(h) = m, MakesPackage(h)
    PROVE  MakesPackage(ModuleIndex(P)[m])
<1> DEFINE g == ModuleIndex(P)[m]
<1>1. g \in P /\ ModuleOf(g) = m /\ PathRank[g] <= PathRank[h]
  BY IndexHasFirst
<1> HIDE DEF g
<1>2. PathRank[h] <= PathRank[g]
  BY <1>1, RepositoryAssumption
<1>3. g \in Files /\ h \in Files /\ PathRank[g] \in Nat /\ PathRank[h] \in Nat
  BY <1>1, RepositoryAssumption
<1>4. g = h
  BY <1>1, <1>2, <1>3, RepositoryAssumption
<1>5. QED
  BY <1>4 DEF g
-----------------------------------------------------------------------------
(* The resolution of a statement.                                          *)

\* As long as the dots stay inside, the base is the one Python counts.
LEMMA BaseIsNamed ==
    ASSUME NEW S, NEW package \in Seq(S), NEW module \in Seq(S), NEW level \in Nat,
           level <= Len(package)
    PROVE  /\ AbsoluteBase(package, module, level) =
                 IF level = 0 THEN module
                 ELSE SubSeq(package, 1, Len(package) + 1 - level) \o module
           /\ AbsoluteBase(package, module, level) \in Seq(S)
<1>1. CASE level = 0
  BY <1>1 DEF AbsoluteBase
<1>2. CASE level # 0
  <2> DEFINE n == Len(package) + 1 - level
  <2>1. n \in 1..Len(package) /\ Len(package) - (level - 1) = n
    BY <1>2
  <2>2. AbsoluteBase(package, module, level) = SubSeq(package, 1, n) \o module
    BY <1>2, <2>1 DEF AbsoluteBase
  <2>3. SubSeq(package, 1, n) \in Seq(S)
    BY <2>1
  <2>4. SubSeq(package, 1, n) \o module \in Seq(S)
    BY <2>3
  <2>5. QED
    BY <1>2, <2>2, <2>4
<1>3. QED
  BY <1>1, <1>2

\* A module that is a prefix of a name is its best match when it is in no way a
\* package of another module that could be meant.
LEMMA LongestIsBest ==
    ASSUME NEW S, NEW name \in Seq(S), NEW idx, NEW E,
           Prefixes(name) \cap DOMAIN idx \subseteq E,
           NEW m \in Prefixes(name) \cap DOMAIN idx, \A k \in E : m \in Prefixes(k) => k = m
    PROVE  m \in BestMatch(name, idx)
<1>1. ASSUME NEW q \in Prefixes(name) \cap DOMAIN idx
      PROVE  Len(q) <= Len(m)
  <2>1. Len(q) \in Nat /\ Len(m) \in Nat /\ (Len(m) <= Len(q) => m \in Prefixes(q))
    BY PrefixesNest
  <2>2. m \in Prefixes(q) => q = m
    OBVIOUS
  <2>3. QED
    BY <2>1, <2>2
<1>2. QED
  BY <1>1 DEF BestMatch

\* Matches are modules that are prefixes of the name.
LEMMA BestIsPrefix ==
    ASSUME NEW name, NEW idx
    PROVE  BestMatch(name, idx) \subseteq Prefixes(name) \cap DOMAIN idx
  BY DEF BestMatch

\* The modules that the base of a from import and its names stand for.
Meant(base, names, idx) ==
    (Prefixes(base) \cup UNION {Prefixes(Append(base, n)) : n \in names}) \cap DOMAIN idx

\* Each name of a from import leads to modules that are meant, and each of these
\* that is no package of another one is found by one of the names.
LEMMA NamesResolve ==
    ASSUME NEW S, NEW base \in Seq(S), NEW names \in SUBSET S, names # {}, NEW idx,
           \A m \in DOMAIN idx : \A i \in DOMAIN m : m[i] # "*"
    PROVE  /\ \A n \in names : ResolveAlias(base, n, idx) \subseteq Meant(base, names, idx)
           /\ \A m \in Meant(base, names, idx) :
                 (\A k \in Meant(base, names, idx) : m \in Prefixes(k) => k = m) =>
                     \E n \in names : m \in ResolveAlias(base, n, idx)
<1> DEFINE E == Meant(base, names, idx)
<1>1. \A n \in names : Append(base, n) \in Seq(S)
                       /\ Prefixes(Append(base, n)) = Prefixes(base) \cup {Append(base, n)}
  BY PrefixesNest
<1>2. \A x : base = <<>> => Append(base, x) = <<x>>
  OBVIOUS
<1>3. /\ Prefixes(base) \cap DOMAIN idx \subseteq E
      /\ \A n \in names : Prefixes(Append(base, n)) \cap DOMAIN idx \subseteq E
  BY DEF Meant
<1>4. ASSUME NEW n \in names
      PROVE  ResolveAlias(base, n, idx) \subseteq E
  <2>1. /\ BestMatch(base, idx) \subseteq E
        /\ BestMatch(Append(base, n), idx) \subseteq E
    BY <1>3, BestIsPrefix
  <2>2. \/ ResolveAlias(base, n, idx) = BestMatch(base, idx)
        \/ ResolveAlias(base, n, idx) = BestMatch(Append(base, n), idx)
    BY <1>2 DEF ResolveAlias
  <2>3. QED
    BY <2>1, <2>2
<1>5. ASSUME NEW n \in names, n # "*", BestMatch(Append(base, n), idx) # {}
      PROVE  ResolveAlias(base, n, idx) = BestMatch(Append(base, n), idx)
  BY <1>2, <1>5 DEF ResolveAlias
<1>6. ASSUME NEW m \in E, \A k \in E : m \in Prefixes(k) => k = m
      PROVE  \E n \in names : m \in ResolveAlias(base, n, idx)
  <2>1. ASSUME NEW n \in names, n # "*", m \in Prefixes(Append(base, n))
        PROVE  m \in ResolveAlias(base, n, idx)
    <3>1. m \in Prefixes(Append(base, n)) \cap DOMAIN idx
      BY <2>1 DEF Meant
    <3>2. m \in BestMatch(Append(base, n), idx)
      <4> DEFINE name == Append(base, n)
      <4>1. name \in Seq(S) /\ Prefixes(name) \cap DOMAIN idx \subseteq E
            /\ m \in Prefixes(name) \cap DOMAIN idx
        BY <1>1, <1>3, <3>1
      <4> HIDE DEF name, E
      <4>2. \A k \in E : m \in Prefixes(k) => k = m
        BY <1>6
      <4>3. m \in BestMatch(name, idx)
        BY <4>1, <4>2, LongestIsBest
      <4>4. QED
        BY <4>3 DEF name
    <3>3. QED
      BY <1>5, <2>1, <3>2
  <2>2. CASE m \in Prefixes(base)
    <3>1. PICK n \in names : TRUE
      OBVIOUS
    <3>2. CASE n = "*"
      <4>1. m \in Prefixes(base) \cap DOMAIN idx
        BY <2>2 DEF Meant
      <4>2. \A k \in E : m \in Prefixes(k) => k = m
        BY <1>6
      <4> HIDE DEF E
      <4>3. m \in BestMatch(base, idx)
        BY <1>3, <4>1, <4>2, LongestIsBest
      <4>4. ResolveAlias(base, n, idx) = BestMatch(base, idx)
        BY <3>2 DEF ResolveAlias
      <4>5. QED
        BY <4>3, <4>4
    <3>3. CASE n # "*"
      BY <1>1, <2>1, <2>2, <3>3
    <3>4. QED
      BY <3>2, <3>3
  <2>3. CASE m \notin Prefixes(base)
    <3>1. PICK n \in names : m \in Prefixes(Append(base, n))
      BY <2>3 DEF Meant
    <3>2. m = Append(base, n) /\ m \in DOMAIN idx
      BY <1>1, <2>3, <3>1 DEF Meant
    <3>3. n # "*"
      <4>1. /\ Len(base) + 1 \in DOMAIN Append(base, n)
            /\ Append(base, n)[Len(base) + 1] = n
        OBVIOUS
      <4>2. QED
        BY <3>2, <4>1
    <3>4. QED
      BY <2>1, <3>1, <3>3
  <2>4. QED
    BY <2>2, <2>3
<1>7. QED
  BY <1>4, <1>6

\* A statement that stays inside the repository leads to modules Python runs for
\* it, and to all of these that are no packages of another one.
LEMMA StatementResolves ==
    ASSUME NEW f \in Files, NEW s \in Statement, s.kind = "from" => s.names # {},
           StaysInside(f, s), PathOf[f].plain, NEW idx, \A m \in DOMAIN idx : \A i \in DOMAIN m : m[i] # "*"
    PROVE  /\ Innermost(f, s, idx) \subseteq ResolvedModules(f, s, idx)
           /\ ResolvedModules(f, s, idx) \subseteq Executed(f, s, idx)
<1> DEFINE S == STRING
           E == Executed(f, s, idx)
           module == s.module
           names == s.names
           level == s.level
           package == PackageOf(f)
           base == AbsoluteBase(package, module, level)
<1>1. /\ module \in Seq(S) /\ names \in SUBSET S /\ level \in Nat /\ package \in Seq(S)
      /\ package = PathOf[f].dirs /\ level <= Len(package)
  <2>1. /\ module \in Seq(S) /\ names \in SUBSET S /\ level \in Nat
    BY DEF Statement
  <2>2. package \in Seq(S) /\ package = PathOf[f].dirs
    BY ModuleHasName
  <2>3. QED
    BY <2>1, <2>2 DEF StaysInside
<1>2. Innermost(f, s, idx) = {m \in E : ~ \E k \in E : k # m /\ m \in Prefixes(k)}
  BY DEF Innermost
<1>3. CASE s.kind = "import"
  <2>1. ResolvedModules(f, s, idx) = BestMatch(module, idx)
    BY <1>3 DEF ResolvedModules
  <2>2. E = Prefixes(module) \cap DOMAIN idx
    BY <1>3 DEF Executed, Named
  <2> HIDE DEF E, S, module
  <2>3. BestMatch(module, idx) \subseteq E
    BY <2>2, BestIsPrefix
  <2>4. ASSUME NEW m \in E, \A k \in E : m \in Prefixes(k) => k = m
        PROVE  m \in BestMatch(module, idx)
    BY <1>1, <2>2, <2>4, LongestIsBest
  <2>5. QED
    BY <1>2, <2>1, <2>3, <2>4 DEF E
<1>4. CASE s.kind # "import"
  <2>1. ResolvedModules(f, s, idx) = UNION {ResolveAlias(base, n, idx) : n \in names}
    BY <1>4 DEF ResolvedModules
  <2>2. s.kind = "from" /\ names # {}
    BY <1>4 DEF Statement
  <2>3. Named(f, s) = {base} \cup {Append(base, n) : n \in names}
    <3> DEFINE counted == IF level = 0 THEN module
                          ELSE SubSeq(package, 1, Len(package) + 1 - level) \o module
    <3>1. Named(f, s) = {counted} \cup {Append(counted, n) : n \in names}
      BY <1>1, <1>4 DEF Named
    <3>2. base = counted
      <4> HIDE DEF package, module, level, S
      <4>1. /\ package \in Seq(S) /\ module \in Seq(S)
            /\ level \in Nat /\ level <= Len(package)
        BY <1>1
      <4>2. QED
        BY <4>1, BaseIsNamed
    <3>3. QED
      BY <3>1, <3>2
  <2>4. base \in Seq(S)
    <3> HIDE DEF package, module, level, S
    <3>1. QED
      BY <1>1, BaseIsNamed
  <2>5. E = Meant(base, names, idx)
    <3> HIDE DEF base, names
    <3>1. E = (UNION {Prefixes(n) : n \in {base} \cup {Append(base, n) : n \in names}}) \cap DOMAIN idx
      BY <2>3 DEF Executed
    <3>2. UNION {Prefixes(n) : n \in {base} \cup {Append(base, n) : n \in names}}
              = Prefixes(base) \cup UNION {Prefixes(Append(base, n)) : n \in names}
      OBVIOUS
    <3>3. QED
      BY <3>1, <3>2 DEF Meant
  <2> HIDE DEF E, S, base, names
  <2>6. /\ \A n \in names : ResolveAlias(base, n, idx) \subseteq E
        /\ \A m \in E : (\A k \in E : m \in Prefixes(k) => k = m) =>
                            \E n \in names : m \in ResolveAlias(base, n, idx)
    <3>1. /\ \A n \in names : ResolveAlias(base, n, idx) \subseteq Meant(base, names, idx)
          /\ \A m \in Meant(base, names, idx) :
                (\A k \in Meant(base, names, idx) : m \in Prefixes(k) => k = m) =>
                    \E n \in names : m \in ResolveAlias(base, n, idx)
      BY <1>1, <2>2, <2>4, NamesResolve
    <3>2. QED
      BY <2>5, <3>1
  <2>7. QED
    BY <1>2, <2>1, <2>6 DEF E
<1>5. QED
  BY <1>3, <1>4

\* The edges of the import graph.
LEMMA EdgesOf ==
    ASSUME NEW sources, SourcesSound(sources), NEW e
    PROVE  LET idx == ModuleIndex(DOMAIN sources)
           IN  e \in LocalEdges(StatementsOf(sources), idx) <=>
                  \E f \in DOMAIN sources : \E m \in LocalModules(f, sources[f].statements, idx) :
                     e = <<f, idx[m]>>
<1> DEFINE idx == ModuleIndex(DOMAIN sources)
           stmts == StatementsOf(sources)
           to(f) == {<<f, idx[m]>> : m \in LocalModules(f, stmts[f], idx)}
<1>1. DOMAIN stmts = DOMAIN sources /\ \A f \in DOMAIN sources : stmts[f] = sources[f].statements
  BY DEF StatementsOf
<1> HIDE DEF stmts, idx
<1>2. LocalEdges(stmts, idx) = UNION {to(f) : f \in DOMAIN stmts}
  BY DEF LocalEdges
<1>3. e \in LocalEdges(stmts, idx) <=> \E f \in DOMAIN sources : e \in to(f)
  BY <1>1, <1>2
<1>4. e \in LocalEdges(stmts, idx) <=>
          \E f \in DOMAIN sources : \E m \in LocalModules(f, sources[f].statements, idx) :
             e = <<f, idx[m]>>
  BY <1>1, <1>3
<1>5. QED
  BY <1>4 DEF stmts, idx

\* Statements only lead to modules of the index.
LEMMA ModulesAreLocal ==
    ASSUME NEW f, NEW statements, NEW idx
    PROVE  LocalModules(f, statements, idx) \subseteq DOMAIN idx
<1>1. \A name : BestMatch(name, idx) \subseteq DOMAIN idx
  BY DEF BestMatch
<1>2. \A base, n : ResolveAlias(base, n, idx) \subseteq DOMAIN idx
  BY <1>1 DEF ResolveAlias
<1>3. \A s : ResolvedModules(f, s, idx) \subseteq DOMAIN idx
  BY <1>1, <1>2 DEF ResolvedModules
<1>4. QED
  BY <1>3 DEF LocalModules

\* The edges are right for every file.
EdgesRight(sources, E) ==
    LET module_index == ModuleIndex(DOMAIN sources)
        package(m) == {f \in DOMAIN sources : ModuleOf(f) = m /\ MakesPackage(f)}
        runs(f) == {s \in sources[f].statements : s.guard # "type_checking"}
    IN  /\ E \subseteq (DOMAIN sources) \X (DOMAIN sources)
        /\ \A e \in E : package(ModuleOf(e[2])) # {} => MakesPackage(e[2])
        /\ (\A g \in DOMAIN sources : PathOf[g].plain) =>
           \A f \in DOMAIN sources : (\A s \in runs(f) : StaysInside(f, s)) =>
              LET targets == {ModuleOf(e[2]) : e \in {d \in E : d[1] = f}}
              IN  /\ UNION {Innermost(f, s, module_index) : s \in runs(f)} \subseteq targets
                  /\ targets \subseteq UNION {Executed(f, s, module_index) : s \in runs(f)}

\* So are those of the import graph.
LEMMA GraphIsRight ==
    ASSUME NEW sources, SourcesSound(sources)
    PROVE  EdgesRight(sources, LocalEdges(StatementsOf(sources), ModuleIndex(DOMAIN sources)))
<1> DEFINE P == DOMAIN sources
           idx == ModuleIndex(P)
           E == LocalEdges(StatementsOf(sources), idx)
           of(f) == LocalModules(f, sources[f].statements, idx)
           runs(f) == {s \in sources[f].statements : s.guard # "type_checking"}
           targets(f) == {ModuleOf(e[2]) : e \in {d \in E : d[1] = f}}
<1>1. P \in SUBSET Files
  BY DEF SourcesSound
<1>2. \A m \in DOMAIN idx : idx[m] \in P /\ ModuleOf(idx[m]) = m
  <2> HIDE DEF P
  <2>1. QED
    BY <1>1, IndexHasFirst
<1>3. \A e : e \in E <=> \E f \in P : \E m \in of(f) : e = <<f, idx[m]>>
  BY EdgesOf
<1>4. \A f : of(f) \subseteq DOMAIN idx
  BY ModulesAreLocal
<1>5. \A m \in DOMAIN idx : \A i \in DOMAIN m : m[i] # "*"
  <2>1. \A f \in Files : \A i \in DOMAIN ModuleOf(f) : ModuleOf(f)[i] # "*"
    BY ModuleHasName
  <2>2. QED
    BY <1>1, <1>2, <2>1
<1>6. \A h \in P : \A m \in DOMAIN idx : ModuleOf(h) = m /\ MakesPackage(h) => MakesPackage(idx[m])
  <2> HIDE DEF P
  <2>1. QED
    BY <1>1, PackageComesFirst
<1>7. \A f : of(f) = UNION {ResolvedModules(f, s, idx) : s \in runs(f)}
  BY DEF LocalModules, Collected
<1> HIDE DEF E, idx, of
<1>8. E \subseteq P \X P
  BY <1>2, <1>3, <1>4
<1>9. ASSUME NEW e \in E, NEW h \in P, ModuleOf(h) = ModuleOf(e[2]), MakesPackage(h)
      PROVE  MakesPackage(e[2])
  <2>1. PICK f \in P : \E m \in of(f) : e = <<f, idx[m]>>
    BY <1>3
  <2>2. PICK m \in of(f) : e = <<f, idx[m]>>
    BY <2>1
  <2>3. m \in DOMAIN idx /\ e[2] = idx[m] /\ ModuleOf(idx[m]) = m
    BY <1>2, <1>4, <2>2
  <2>4. QED
    BY <1>6, <1>9, <2>3
<1>10. ASSUME NEW f \in P
       PROVE  targets(f) = of(f)
  <2>1. ASSUME NEW e \in E, e[1] = f
        PROVE  ModuleOf(e[2]) \in of(f)
    <3>1. PICK g \in P : \E m \in of(g) : e = <<g, idx[m]>>
      BY <1>3
    <3>2. PICK m \in of(g) : e = <<g, idx[m]>>
      BY <3>1
    <3>3. g = f /\ m \in DOMAIN idx /\ e[2] = idx[m] /\ ModuleOf(idx[m]) = m
      BY <1>2, <1>4, <2>1, <3>2
    <3>4. QED
      BY <3>2, <3>3
  <2>2. ASSUME NEW m \in of(f)
        PROVE  \E e \in E : e[1] = f /\ ModuleOf(e[2]) = m
    <3> DEFINE e == <<f, idx[m]>>
    <3>1. e \in E /\ e[1] = f /\ e[2] = idx[m]
      BY <1>3
    <3>2. ModuleOf(idx[m]) = m
      BY <1>2, <1>4
    <3>3. QED
      BY <3>1, <3>2
  <2>3. \A m \in targets(f) : m \in of(f)
    BY <2>1
  <2>4. \A m \in of(f) : m \in targets(f)
    BY <2>2
  <2>5. QED
    BY <2>3, <2>4
<1>11. ASSUME NEW f \in P, NEW s \in runs(f), StaysInside(f, s), PathOf[f].plain
       PROVE  /\ Innermost(f, s, idx) \subseteq ResolvedModules(f, s, idx)
              /\ ResolvedModules(f, s, idx) \subseteq Executed(f, s, idx)
  <2>1. f \in Files /\ s \in Statement /\ (s.kind = "from" => s.names # {})
    BY DEF SourcesSound, Source
  <2>2. QED
    BY <1>5, <1>11, <2>1, StatementResolves
<1>12. ASSUME NEW f \in P, \A s \in runs(f) : StaysInside(f, s), PathOf[f].plain
       PROVE  /\ UNION {Innermost(f, s, idx) : s \in runs(f)} \subseteq targets(f)
              /\ targets(f) \subseteq UNION {Executed(f, s, idx) : s \in runs(f)}
  <2>1. targets(f) = UNION {ResolvedModules(f, s, idx) : s \in runs(f)}
    BY <1>7, <1>10
  <2> HIDE DEF targets, runs
  <2>2. \A s \in runs(f) : /\ Innermost(f, s, idx) \subseteq ResolvedModules(f, s, idx)
                           /\ ResolvedModules(f, s, idx) \subseteq Executed(f, s, idx)
    BY <1>11, <1>12
  <2>3. QED
    BY <2>1, <2>2
<1>13. EdgesRight(sources, E)
  BY <1>8, <1>9, <1>12 DEF EdgesRight, idx
<1>14. QED
  BY <1>13 DEF E, idx
-----------------------------------------------------------------------------
(* The analysis as a whole.                                                *)

\* What each step of the analysis leaves to the next one.
AnalysisInv ==
    /\ repository \in Repositories
    /\ pc \in {"imports", "cycles", "rules", "done"} =>
          context = [f \in FilesIn(repository, "parses") |-> repository[f]]
    /\ pc = "cycles" => edges = LocalEdges(StatementsOf(context), ModuleIndex(DOMAIN context))
    /\ pc \in {"rules", "done"} =>
          CyclesSound(cycles) /\ \A i \in DOMAIN cycles : cycles[i] \subseteq DOMAIN context
    /\ pc = "done" => Reports(context, cycles, findings)

\* What is known of the parsed files of a repository.
LEMMA ContextIsSound ==
    ASSUME NEW r \in Repositories, NEW sources,
           sources = [f \in FilesIn(r, "parses") |-> r[f]]
    PROVE  SourcesSound(sources)
<1>1. DOMAIN sources \subseteq DOMAIN r /\ \A f \in DOMAIN sources : sources[f] = r[f]
  BY DEF FilesIn
<1>2. /\ DOMAIN r \subseteq Files
      /\ \A f \in DOMAIN r :
            /\ r[f] \in Source
            /\ IsFiniteSet(r[f].env)
            /\ \A s \in r[f].statements : s.kind = "from" => s.names # {}
            /\ \A d \in r[f].deeds : d.in # <<>>
  BY ToolchainAssumption
<1>3. QED
  BY <1>1, <1>2 DEF SourcesSound

\* When the search ends, its sorted components are sets of files.
LEMMA KeptCycles ==
    ASSUME FindsTheCycles, Finished
    PROVE  /\ CyclesSound(SortedComponents)
           /\ \A i \in DOMAIN SortedComponents : SortedComponents[i] \subseteq GraphNodes
<1> DEFINE S == ImportCyclesOf(Closed)
           R == Shorter(S)
           l == SortedComponents
           before(x) == {y \in S : ShorterFirst(y, x)}
<1>1. l = Listed(S, ShorterFirst)
  BY DEF FindsTheCycles
<1>2. /\ IsFiniteSet(S) /\ StrictOrder(R, S)
      /\ \A C \in S : C \subseteq Files /\ C # {} /\ C \subseteq GraphNodes
  BY CyclesAreFinite, ShorterIsOrder, CyclesAreClasses DEF CycleOf
<1>3. \A x, y \in S : <<x, y>> \in R <=> ShorterFirst(x, y)
  BY DEF Shorter
<1>4. Listed(S, ShorterFirst) =
          [i \in 1..Cardinality(S) |-> CHOOSE x \in S : Cardinality(before(x)) = i - 1]
  BY DEF Listed
<1> HIDE DEF S, R, l
<1>5. \A x \in S : Cardinality(before(x)) = Cardinality(Ahead(R, S, x))
  <2>1. \A x \in S : before(x) = Ahead(R, S, x)
    BY <1>3 DEF Ahead
  <2>2. QED
    BY <2>1
<1> HIDE DEF before
<1>6. l = ListedBy(R, S)
  BY <1>1, <1>4, <1>5 DEF ListedBy
<1>7. l \in Seq(S)
  BY <1>2, <1>6, ListedByOrder
<1>8. S \subseteq (SUBSET Files) \ {{}}
  BY <1>2
<1>9. l \in Seq((SUBSET Files) \ {{}})
  BY <1>7, <1>8
<1>10. \A i \in DOMAIN l : l[i] \subseteq GraphNodes
  BY <1>2, <1>7
<1>11. QED
  BY <1>9, <1>10 DEF CyclesSound, l

\* The findings name files that were parsed, and at least one.
LEMMA FindingsName ==
    ASSUME NEW sources, SourcesSound(sources), NEW importCycles, CyclesSound(importCycles),
           \A i \in DOMAIN importCycles : importCycles[i] \subseteq DOMAIN sources,
           NEW x, x \in OfFiles(sources, importCycles) \/ Shared(sources, x)
    PROVE  x \in Finding /\ x.files \in Seq(DOMAIN sources) /\ x.files # <<>>
<1>1. PICK S \in SUBSET Files : /\ S # {} /\ S \subseteq DOMAIN sources
                                /\ x \in Finding /\ FilesOf(x) = S
  <2>1. CASE x \in OfFiles(sources, importCycles)
    <3>1. PICK S \in SUBSET Files :
              /\ Reported(sources, x, S)
              /\ S \subseteq DOMAIN sources \/ \E i \in DOMAIN importCycles : S = importCycles[i]
      BY <2>1, OfFilesAre
    <3>2. x \in Finding /\ FilesOf(x) = S
      BY <3>1, ReportedIsFinding
    <3>3. S \subseteq DOMAIN sources
      BY <3>1
    <3>4. S # {}
      BY <3>1 DEF Reported
    <3>5. QED
      BY <3>2, <3>3, <3>4
  <2>2. CASE Shared(sources, x)
    <3>1. \E rule \in {"RULE_B", "RULE_C"}, severity \in {"high", "medium"}, S \in SUBSET Files :
              /\ x = Find(rule, severity, S, "plain")
              /\ S \subseteq DOMAIN sources /\ S # {}
      <4>1. \A test : HighIf(test) \in {"high", "medium"}
        BY DEF HighIf
      <4>2. ASSUME NEW S \in SUBSET Files, S \subseteq DOMAIN sources, Cardinality(S) > 1,
                   x = Find("RULE_B", HighIf(Cardinality(S) >= 4), S, "plain")
            PROVE  S # {}
        BY <4>2, FS_EmptySet
      <4>3. ASSUME NEW S \in SUBSET Files, S \subseteq DOMAIN sources,
                   Cardinality(S) >= UTILS_OVERUSE_THRESHOLD
            PROVE  S # {}
        <5>1. UTILS_OVERUSE_THRESHOLD \in Nat \ {0}
          BY RulesAssumption
        <5>2. Cardinality(S) # 0
          BY <4>3, <5>1
        <5>3. QED
          BY <5>2, FS_EmptySet
      <4>4. CASE \E S \in SUBSET Files :
                    /\ S \subseteq DOMAIN sources /\ Cardinality(S) > 1
                    /\ x = Find("RULE_B", HighIf(Cardinality(S) >= 4), S, "plain")
        <5>1. PICK S \in SUBSET Files :
                  /\ S \subseteq DOMAIN sources /\ Cardinality(S) > 1
                  /\ x = Find("RULE_B", HighIf(Cardinality(S) >= 4), S, "plain")
          BY <4>4
        <5> DEFINE severity == HighIf(Cardinality(S) >= 4)
        <5>2. severity \in {"high", "medium"} /\ x = Find("RULE_B", severity, S, "plain") /\ S # {}
          BY <4>1, <4>2, <5>1
        <5> HIDE DEF severity
        <5>3. QED
          BY <5>1, <5>2
      <4>5. CASE \E S \in SUBSET Files :
                    /\ S \subseteq DOMAIN sources /\ Cardinality(S) >= UTILS_OVERUSE_THRESHOLD
                    /\ x = Find("RULE_C", HighIf(Cardinality(S) >= UTILS_OVERUSE_THRESHOLD + 3), S,
                                "plain")
        <5>1. PICK S \in SUBSET Files :
                  /\ S \subseteq DOMAIN sources /\ Cardinality(S) >= UTILS_OVERUSE_THRESHOLD
                  /\ x = Find("RULE_C", HighIf(Cardinality(S) >= UTILS_OVERUSE_THRESHOLD + 3), S,
                              "plain")
          BY <4>5
        <5> DEFINE severity == HighIf(Cardinality(S) >= UTILS_OVERUSE_THRESHOLD + 3)
        <5>2. severity \in {"high", "medium"} /\ x = Find("RULE_C", severity, S, "plain") /\ S # {}
          BY <4>1, <4>3, <5>1
        <5> HIDE DEF severity
        <5>3. QED
          BY <5>1, <5>2
      <4>6. QED
        BY <2>2, <4>4, <4>5 DEF Shared
    <3>2. PICK rule \in {"RULE_B", "RULE_C"} :
              \E severity \in {"high", "medium"}, S \in SUBSET Files :
                 /\ x = Find(rule, severity, S, "plain")
                 /\ S \subseteq DOMAIN sources /\ S # {}
      BY <3>1
    <3>3. PICK severity \in {"high", "medium"}, S \in SUBSET Files :
                 /\ x = Find(rule, severity, S, "plain")
                 /\ S \subseteq DOMAIN sources /\ S # {}
      BY <3>2
    <3>4. rule \in Rules /\ severity \in Severities /\ "plain" \in Evidence
      BY DEF Rules, Severities, Evidence
    <3>5. MadeOf(x, rule, severity, S, "plain")
      BY <3>3, <3>4, FoundIsFinding
    <3>6. QED
      BY <3>3, <3>5 DEF MadeOf
  <2>3. QED
    BY <2>1, <2>2
<1>2. x.files \in Seq(Files) /\ Len(x.files) \in Nat /\ DOMAIN x.files = 1..Len(x.files)
  BY <1>1 DEF Finding
<1>3. \A i \in DOMAIN x.files : x.files[i] \in DOMAIN sources
  BY <1>1 DEF FilesOf
<1>4. x.files \in [1..Len(x.files) -> DOMAIN sources]
  BY <1>2, <1>3
<1>5. x.files \in Seq(DOMAIN sources)
  BY <1>2, <1>4
<1>6. x.files # <<>>
  BY <1>1 DEF FilesOf
<1>7. QED
  BY <1>1, <1>5, <1>6

\* Every step of an analysis leaves what the next one needs.
LEMMA AnalysisStep ==
    ASSUME AnalysisInv, FindsTheCycles, [Next]_vars
    PROVE  AnalysisInv'
<1>1. CASE BuildContext
  BY <1>1 DEF AnalysisInv, BuildContext
<1>2. CASE SourceRaises
  BY <1>2 DEF AnalysisInv, SourceRaises
<1>3. CASE ScanImports
  BY <1>3 DEF AnalysisInv, ScanImports
<1>4. CASE SearchCycles
  <2>1. edges' = edges /\ UNCHANGED <<pc, repository, context, cycles, findings>>
    BY <1>4 DEF SearchCycles, SearchNext, StartAtRoot, VisitNeighbor, SeeNeighbor, ReturnFromCall,
                Enter
  <2>2. QED
    BY <2>1 DEF AnalysisInv
<1>5. CASE KeepCycles
  <2>1. /\ CyclesSound(SortedComponents)
        /\ \A i \in DOMAIN SortedComponents : SortedComponents[i] \subseteq GraphNodes
    BY <1>5, KeptCycles DEF KeepCycles
  <2>2. SourcesSound(context)
    BY <1>5, ContextIsSound DEF AnalysisInv, KeepCycles
  <2>3. edges \subseteq (DOMAIN context) \X (DOMAIN context)
    BY <1>5, <2>2, GraphIsRight DEF AnalysisInv, KeepCycles, EdgesRight
  <2>4. GraphNodes \subseteq DOMAIN context
    BY <2>3 DEF GraphNodes
  <2>5. QED
    BY <1>5, <2>1, <2>4 DEF AnalysisInv, KeepCycles
<1>6. CASE ApplyRules
  <2>1. SourcesSound(context) /\ CyclesSound(cycles)
    BY <1>6, ContextIsSound DEF AnalysisInv, ApplyRules
  <2>2. Reports(context, cycles, Sorted(RunRules(context, cycles), FindingBefore))
    BY <2>1, RulesReport, SortedReport
  <2>3. findings' = Sorted(RunRules(context, cycles), FindingBefore)
    BY <1>6 DEF ApplyRules
  <2>4. QED
    BY <1>6, <2>1, <2>2, <2>3 DEF AnalysisInv, ApplyRules
<1>7. CASE UNCHANGED vars
  BY <1>7 DEF AnalysisInv, vars, searchVars
<1>8. QED
  BY <1>1, <1>2, <1>3, <1>4, <1>5, <1>6, <1>7 DEF Next

\* At the end the findings are those of the files that parse.
LEMMA AnalysisInvariant == Spec => []AnalysisInv
<1>1. Init => AnalysisInv
  BY DEF Init, AnalysisInv
<1>2. AnalysisInv /\ FindsTheCycles /\ [Next]_vars => AnalysisInv'
  BY AnalysisStep
<1>3. QED
  BY <1>1, <1>2, CyclesAreFound, PTL DEF Spec

\* What is known of the files then, and of the cycles.
LEMMA AnalysisIsSound ==
    ASSUME AnalysisInv
    PROVE  /\ pc \in {"imports", "cycles", "rules", "done"} => SourcesSound(context)
           /\ pc = "done" => CyclesSound(cycles) /\ Reports(context, cycles, findings)
<1>1. ASSUME pc \in {"imports", "cycles", "rules", "done"}
      PROVE  SourcesSound(context)
  BY <1>1, ContextIsSound DEF AnalysisInv
<1>2. QED
  BY <1>1 DEF AnalysisInv
-----------------------------------------------------------------------------
(* The theorems.                                                           *)

\* The stack, its mirror and the active calls never get out of order.
THEOREM StackIsAlwaysInOrder == Spec => []StackInOrder
<1>1. SearchInv => StackInOrder
  BY DEF SearchInv
<1>2. QED
  BY <1>1, SearchInvariant, PTL

\* The lowlink of a file on the stack is always the index of a file on the
\* stack that it imports, directly or not.
THEOREM LowlinksAreAlwaysReached == Spec => []LowlinksAreReached
<1>1. SearchInv => LowlinksAreReached
  BY DEF SearchInv
<1>2. QED
  BY <1>1, SearchInvariant, PTL

\* The edges of every file are the modules Python runs for its statements, of a
\* package and a module of one name the package.
THEOREM EdgesAlwaysFollowImports == Spec => []EdgesFollowImports
<1>1. AnalysisInv => EdgesFollowImports
  <2>1. SUFFICES ASSUME AnalysisInv, pc = "cycles"
                 PROVE  EdgesFollowImports
    BY DEF EdgesFollowImports
  <2>2. SourcesSound(context)
    BY <2>1, AnalysisIsSound
  <2>3. EdgesRight(context, edges)
    BY <2>1, <2>2, GraphIsRight DEF AnalysisInv
  <2>4. QED
    BY <2>3 DEF EdgesRight, EdgesFollowImports
<1>2. QED
  BY <1>1, AnalysisInvariant, PTL

\* A file that surely uses the database more than once is reported once, unless
\* it belongs to the data-access layer, and no file is reported twice for it.
THEOREM HandlersAreAlwaysCovered == Spec => []HandlersAreCovered
<1>1. AnalysisInv => HandlersAreCovered
  <2>1. SUFFICES ASSUME AnalysisInv, pc = "done", NEW f \in DOMAIN context
                 PROVE  LET reports == FindingsOn(f, "RULE_A") \cup FindingsOn(f, "RULE_G")
                        IN  /\ Cardinality(reports) <= 1
                            /\ Cardinality(Certainly(SignalsIn(context, f))) >= 2 =>
                                  reports # {} \/ f \in DataAccessFiles
    BY DEF HandlersAreCovered
  <2>2. SourcesSound(context) /\ CyclesSound(cycles) /\ Reports(context, cycles, findings)
    BY <2>1, AnalysisIsSound
  <2>3. \A rule : FindingsOn(f, rule) = On(findings, f, rule)
    BY DEF FindingsOn, On
  <2>4. QED
    BY <2>2, <2>3, AccessReported
<1>2. QED
  BY <1>1, AnalysisInvariant, PTL

\* Every change of a module-level object that the scan takes for mutable makes
\* its file a finding of high severity.
THEOREM MutationsAreAlwaysSeen == Spec => []MutationsAreSeen
<1>1. AnalysisInv => MutationsAreSeen
  <2>1. SUFFICES ASSUME AnalysisInv, pc = "done", NEW f \in DOMAIN context \ NonProductFiles,
                        NEW d \in context[f].deeds,
                        d.name \in Candidates(context[f].bindings),
                        ChangesGlobal(context[f].deeds, d)
                 PROVE  \E i \in FindingsOn(f, "RULE_D") : findings[i].severity = "high"
    BY DEF MutationsAreSeen
  <2>2. SourcesSound(context) /\ CyclesSound(cycles) /\ Reports(context, cycles, findings)
    BY <2>1, AnalysisIsSound
  <2>3. FindingsOn(f, "RULE_D") = On(findings, f, "RULE_D")
    BY DEF FindingsOn, On
  <2>4. QED
    BY <2>1, <2>2, <2>3, MutationReported
<1>2. QED
  BY <1>1, AnalysisInvariant, PTL

\* As long as modules count as overused from five consumers on, which is where
\* the validator starts to trust RULE_C and the value in rules/config.py, the
\* validator never contradicts the rules engine.
THEOREM RulesAndValidatorAlwaysAgree ==
    ASSUME UTILS_OVERUSE_THRESHOLD >= 5
    PROVE  Spec => []RulesAndValidatorAgree
<1>1. AnalysisInv => RulesAndValidatorAgree
  <2>1. SUFFICES ASSUME AnalysisInv, pc = "done", NEW i \in DOMAIN findings
                 PROVE  Agree(context, findings[i])
    BY DEF RulesAndValidatorAgree, Agree, NamesHigh
  <2>2. SourcesSound(context) /\ CyclesSound(cycles) /\ Reports(context, cycles, findings)
    BY <2>1, AnalysisIsSound
  <2>3. QED
    BY <2>2, ReportAgrees
<1>2. QED
  BY <1>1, AnalysisInvariant, PTL

\* What the agents assume of the findings they are given (PipelineAssumption).
FindingsSuitAgents ==
    pc = "done" =>
        /\ findings \in Seq(Finding)
        /\ \A i \in DOMAIN findings :
              findings[i].files \in Seq(DOMAIN repository) /\ findings[i].files # <<>>

\* The findings of every analysis are such as the agents assume: each of them
\* names files of the repository, and at least one.
THEOREM FindingsAlwaysSuitAgents == Spec => []FindingsSuitAgents
<1>1. AnalysisInv => FindingsSuitAgents
  <2>1. SUFFICES ASSUME AnalysisInv, pc = "done"
                 PROVE  /\ findings \in Seq(Finding)
                        /\ \A i \in DOMAIN findings : /\ findings[i].files \in Seq(DOMAIN repository)
                                                      /\ findings[i].files # <<>>
    BY DEF FindingsSuitAgents
  <2>2. /\ SourcesSound(context) /\ CyclesSound(cycles) /\ Reports(context, cycles, findings)
        /\ \A i \in DOMAIN cycles : cycles[i] \subseteq DOMAIN context
    BY <2>1, AnalysisIsSound DEF AnalysisInv
  <2>3. DOMAIN context \subseteq DOMAIN repository
    BY <2>1 DEF AnalysisInv, FilesIn
  <2>4. findings \in Seq(Finding)
    BY <2>2 DEF Reports
  <2>5. ASSUME NEW i \in DOMAIN findings
        PROVE  findings[i].files \in Seq(DOMAIN repository) /\ findings[i].files # <<>>
    <3> DEFINE x == findings[i]
    <3>1. x \in OfFiles(context, cycles) \/ Shared(context, x)
      BY <2>2 DEF Reports
    <3> HIDE DEF x
    <3>2. x.files \in Seq(DOMAIN context) /\ x.files # <<>>
      BY <2>2, <3>1, FindingsName
    <3>3. QED
      BY <2>3, <3>2 DEF x
  <2>6. QED
    BY <2>4, <2>5
<1>2. QED
  BY <1>1, AnalysisInvariant, PTL
=============================================================================
