------------------------ MODULE ModuleReviewsProofs ------------------------
(***************************************************************************)
(* Proofs about the ranking and the reviews of modules, for any repository *)
(* and any history of calls.                                               *)
(***************************************************************************)
EXTENDS ModuleReviews, OrderingProofs, TLAPS

-----------------------------------------------------------------------------
(* Sums.                                                                   *)

\* The subsets with at most n elements.
Small(S, n) == {T \in SUBSET S : Cardinality(T) <= n}

\* g adds up f over each set of D.
Adds(g, f, D) ==
    g = [T \in D |-> IF T = {} THEN 0
                     ELSE f[CHOOSE x \in T : TRUE] + g[T \ {CHOOSE x \in T : TRUE}]]

\* An element taken away leaves a smaller set.
LEMMA OneLess ==
    ASSUME NEW S, IsFiniteSet(S), NEW T \in SUBSET S, T # {}
    PROVE  /\ (CHOOSE x \in T : TRUE) \in T
           /\ T \ {CHOOSE x \in T : TRUE} \in SUBSET S
           /\ Cardinality(T) \in Nat
           /\ Cardinality(T \ {CHOOSE x \in T : TRUE}) = Cardinality(T) - 1
<1>1. (CHOOSE x \in T : TRUE) \in T
  OBVIOUS
<1>2. IsFiniteSet(T)
  BY FS_Subset
<1>3. Cardinality(T) \in Nat
  BY <1>2, FS_CardinalityType
<1> DEFINE x == CHOOSE y \in T : TRUE
<1> HIDE DEF x
<1>4. x \in T => Cardinality(T \ {x}) = Cardinality(T) - 1
  BY <1>2, FS_RemoveElement
<1>5. QED
  BY <1>1, <1>3, <1>4 DEF x

\* There is a function that adds up, for the small sets.
LEMMA SmallSums ==
    ASSUME NEW S, IsFiniteSet(S), NEW f, NEW n \in Nat
    PROVE  \E g : Adds(g, f, Small(S, n))
<1> DEFINE bad == {k \in Nat : ~ \E g : Adds(g, f, Small(S, k))}
<1>1. SUFFICES ASSUME bad # {}
               PROVE  FALSE
  OBVIOUS
<1>2. PICK k \in bad : \A j \in bad : k <= j
  <2>1. bad \in SUBSET Nat
    OBVIOUS
  <2> HIDE DEF bad
  <2>2. QED
    BY <1>1, <2>1, SmallestNumber
<1>3. k \in Nat /\ ~ \E g : Adds(g, f, Small(S, k))
  OBVIOUS
<1>4. k # 0
  <2>1. SUFFICES ASSUME k = 0
                 PROVE  FALSE
    OBVIOUS
  <2>2. \A T \in Small(S, 0) : T = {}
    <3>1. TAKE T \in Small(S, 0)
    <3>2. IsFiniteSet(T) /\ Cardinality(T) <= 0
      BY FS_Subset DEF Small
    <3>3. QED
      BY <3>2, FS_CardinalityType, FS_EmptySet
  <2>3. Adds([T \in Small(S, 0) |-> 0], f, Small(S, 0))
    BY <2>2 DEF Adds
  <2>4. QED
    BY <1>3, <2>1, <2>3
<1>5. PICK g : Adds(g, f, Small(S, k - 1))
  <2>1. k - 1 \in Nat /\ ~ (k <= k - 1)
    BY <1>3, <1>4
  <2>2. k - 1 \notin bad
    BY <1>2, <2>1
  <2>3. QED
    BY <2>1, <2>2
<1> DEFINE c(T) == CHOOSE x \in T : TRUE
           h == [T \in Small(S, k) |-> IF T = {} THEN 0 ELSE f[c(T)] + g[T \ {c(T)}]]
<1>6. \A T \in Small(S, k) : T # {} => T \ {c(T)} \in Small(S, k - 1)
  <2>1. TAKE T \in Small(S, k)
  <2>2. HAVE T # {}
  <2>3. T \in SUBSET S /\ Cardinality(T) <= k
    BY DEF Small
  <2>4. T \ {c(T)} \in SUBSET S /\ Cardinality(T) \in Nat
        /\ Cardinality(T \ {c(T)}) = Cardinality(T) - 1
    BY <2>2, <2>3, OneLess
  <2> HIDE DEF c
  <2>5. Cardinality(T \ {c(T)}) <= k - 1
    BY <1>3, <2>3, <2>4
  <2>6. QED
    BY <2>4, <2>5 DEF Small
<1>7. \A T \in Small(S, k - 1) : T \in Small(S, k) /\ h[T] = g[T]
  <2>1. TAKE T \in Small(S, k - 1)
  <2>2. T \in SUBSET S /\ Cardinality(T) <= k - 1
    BY DEF Small
  <2>3. IsFiniteSet(T)
    BY <2>2, FS_Subset
  <2>4. Cardinality(T) \in Nat
    BY <2>3, FS_CardinalityType
  <2>5. Cardinality(T) <= k
    BY <1>3, <2>2, <2>4
  <2>6. T \in Small(S, k)
    BY <2>2, <2>5 DEF Small
  <2>7. g[T] = IF T = {} THEN 0 ELSE f[c(T)] + g[T \ {c(T)}]
    BY <1>5 DEF Adds
  <2>8. h[T] = IF T = {} THEN 0 ELSE f[c(T)] + g[T \ {c(T)}]
    BY <2>6
  <2> HIDE DEF h, c
  <2>9. QED
    BY <2>6, <2>7, <2>8
<1>8. Adds(h, f, Small(S, k))
  <2>1. h = [T \in Small(S, k) |-> IF T = {} THEN 0 ELSE f[c(T)] + g[T \ {c(T)}]]
    OBVIOUS
  <2> HIDE DEF h, c
  <2>2. h = [T \in Small(S, k) |-> IF T = {} THEN 0 ELSE f[c(T)] + h[T \ {c(T)}]]
    BY <1>6, <1>7, <2>1
  <2>3. QED
    BY <2>2 DEF Adds, c
<1>9. QED
  BY <1>3, <1>8

\* The sum of numbers is a number, and of natural numbers a natural one.
LEMMA SumIsNumber ==
    ASSUME NEW S, IsFiniteSet(S), NEW f, \A x \in S : f[x] \in Int
    PROVE  SumFunctionOnSet(f, S) \in Int
<1> DEFINE D == SUBSET S
           sum == CHOOSE g : Adds(g, f, D)
<1>1. SumFunctionOnSet(f, S) = sum[S]
  BY DEF SumFunctionOnSet, FoldFunctionOnSet, MapThenFoldSet, Adds
<1>2. Small(S, Cardinality(S)) = D /\ Cardinality(S) \in Nat
  BY FS_Subset, FS_CardinalityType DEF Small
<1>3. Adds(sum, f, D)
  <2>1. \E g : Adds(g, f, D)
    BY <1>2, SmallSums
  <2> HIDE DEF D
  <2>2. QED
    BY <2>1
<1> HIDE DEF sum
<1> DEFINE c(T) == CHOOSE x \in T : TRUE
<1>4. \A T \in D : sum[T] = IF T = {} THEN 0 ELSE f[c(T)] + sum[T \ {c(T)}]
  <2> HIDE DEF D
  <2>1. sum = [T \in D |-> IF T = {} THEN 0 ELSE f[c(T)] + sum[T \ {c(T)}]]
    BY <1>3 DEF Adds
  <2> HIDE DEF c
  <2>2. QED
    BY <2>1
<1>5. \A T \in D : T # {} => /\ c(T) \in S
                            /\ T \ {c(T)} \in D
                            /\ Cardinality(T) \in Nat
                            /\ Cardinality(T \ {c(T)}) = Cardinality(T) - 1
  BY OneLess
<1>6. \A T \in D : Cardinality(T) \in Nat
  BY FS_Subset, FS_CardinalityType
<1> DEFINE bad == {k \in Nat : \E T \in D : Cardinality(T) = k /\ sum[T] \notin Int}
<1>7. bad = {}
  <2>1. SUFFICES ASSUME bad # {}
                 PROVE  FALSE
    OBVIOUS
  <2>2. PICK k \in bad : \A j \in bad : k <= j
    <3>1. bad \in SUBSET Nat
      OBVIOUS
    <3> HIDE DEF bad
    <3>2. QED
      BY <2>1, <3>1, SmallestNumber
  <2>3. PICK T \in D : Cardinality(T) = k /\ sum[T] \notin Int
    OBVIOUS
  <2> HIDE DEF D, c
  <2>4. T # {}
    <3>1. T = {} => sum[T] = 0
      BY <1>4
    <3>2. sum[T] # 0
      BY <2>3
    <3>3. QED
      BY <3>1, <3>2
  <2>5. sum[T] = f[c(T)] + sum[T \ {c(T)}] /\ f[c(T)] \in Int
    BY <1>4, <1>5, <2>3, <2>4
  <2>6. sum[T \ {c(T)}] \notin Int
    BY <2>3, <2>5
  <2>7. k \in Nat /\ k - 1 \in Nat
    BY <1>5, <1>6, <2>3, <2>4
  <2>8. k - 1 \in bad
    BY <1>5, <2>3, <2>4, <2>6, <2>7
  <2> HIDE DEF bad
  <2>9. QED
    BY <2>2, <2>7, <2>8
<1>8. QED
  BY <1>1, <1>6, <1>7
-----------------------------------------------------------------------------
(* Metrics and scores are numbers.                                         *)

\* A finite set of names.
LEMMA WeightedIsFinite == IsFiniteSet(Weighted) /\ IsFiniteSet(Counted)
<1>1. IsFiniteSet(Counted)
  <2> DEFINE A == {"import_count"}
             B == A \cup {"definition_count"}
             C == B \cup {"env_read_count"}
             D == C \cup {"db_signal_count"}
             E == D \cup {"global_risk_count"}
  <2>1. E = Counted
    BY DEF Counted
  <2>2. IsFiniteSet(A)
    BY FS_Singleton
  <2> HIDE DEF A
  <2>3. IsFiniteSet(B)
    BY <2>2, FS_AddElement
  <2> HIDE DEF B
  <2>4. IsFiniteSet(C)
    BY <2>3, FS_AddElement
  <2> HIDE DEF C
  <2>5. IsFiniteSet(D)
    BY <2>4, FS_AddElement
  <2> HIDE DEF D
  <2>6. IsFiniteSet(E)
    BY <2>5, FS_AddElement
  <2>7. QED
    BY <2>1, <2>6
<1>2. IsFiniteSet(Weighted)
  <2> DEFINE A == Counted \cup {"file_count"}
             B == A \cup {"upstream_count"}
             C == B \cup {"downstream_count"}
             D == C \cup {"cross_layer_dependency_count"}
             E == D \cup {"finding_count"}
  <2>1. E = Weighted
    BY DEF Weighted
  <2>2. IsFiniteSet(A)
    BY <1>1, FS_AddElement
  <2> HIDE DEF A
  <2>3. IsFiniteSet(B)
    BY <2>2, FS_AddElement
  <2> HIDE DEF B
  <2>4. IsFiniteSet(C)
    BY <2>3, FS_AddElement
  <2> HIDE DEF C
  <2>5. IsFiniteSet(D)
    BY <2>4, FS_AddElement
  <2> HIDE DEF D
  <2>6. IsFiniteSet(E)
    BY <2>5, FS_AddElement
  <2>7. QED
    BY <2>1, <2>6
<1>3. QED
  BY <1>1, <1>2

\* What a ranking is made from.
Ranked(r, fs, h) ==
    /\ r \in Repos /\ fs \in Findings
    /\ h \in [DOMAIN r.files -> Nat]

\* The weights of a ranking.
WeightsSound(w) == \A k \in WeightKeys : w[k] \in Int

\* The files and the modules of a repository.
LEMMA RepositoryIsFinite ==
    ASSUME NEW r \in Repos
    PROVE  /\ IsFiniteSet(DOMAIN r.files)
           /\ \A i \in DOMAIN r.files : r.files[i] \in SourceFile
           /\ IsFiniteSet(ModulesOf(r)) /\ ModulesOf(r) \in SUBSET Nat
<1>1. r.files \in Seq(SourceFile)
  BY ReviewsAssumption
<1> DEFINE s == r.files
<1> HIDE DEF s
<1>2. s \in Seq(SourceFile)
  BY <1>1 DEF s
<1>3. Len(s) \in Nat /\ DOMAIN s = 1..Len(s) /\ \A i \in DOMAIN s : s[i] \in SourceFile
  BY <1>2
<1>4. IsFiniteSet(DOMAIN s)
  BY <1>3, FS_Interval
<1>5. ModulesOf(r) = {s[i].module : i \in DOMAIN s}
  BY DEF ModulesOf, s
<1>6. \A i \in DOMAIN s : s[i].module \in Nat
  BY <1>3 DEF SourceFile
<1> DEFINE f == [i \in DOMAIN s |-> s[i].module]
<1>7. f \in Surjection(DOMAIN s, ModulesOf(r))
  BY <1>5 DEF Surjection
<1>8. IsFiniteSet(ModulesOf(r))
  <2> HIDE DEF f
  <2>1. QED
    BY <1>4, <1>7, FS_Surjection
<1>9. QED
  BY <1>3, <1>4, <1>5, <1>6, <1>8 DEF s

\* The related findings are finitely many.
LEMMA RelatedIsFinite ==
    ASSUME NEW r, NEW fs \in Findings, NEW m
    PROVE  /\ IsFiniteSet(Related(r, fs, m))
           /\ IsFiniteSet(HighSeverity(r, fs, m))
<1> DEFINE of(f) == {<<f, j>> : j \in {k \in DOMAIN fs[f].files :
                                          fs[f].files[k] \in FilesOf(r, m)}}
           all == {of(f) : f \in DOMAIN fs}
<1>1. Related(r, fs, m) = UNION all
  BY DEF Related
<1>2. fs \in Seq([severity : {"high", "medium", "low"}, files : Seq(Nat)])
  BY ReviewsAssumption
<1>3. /\ IsFiniteSet(DOMAIN fs)
      /\ \A f \in DOMAIN fs : fs[f].files \in Seq(Nat)
  <2> DEFINE F == [severity : {"high", "medium", "low"}, files : Seq(Nat)]
  <2>1. fs \in Seq(F) /\ \A f \in F : f.files \in Seq(Nat)
    BY <1>2
  <2> HIDE DEF F
  <2>2. Len(fs) \in Nat /\ DOMAIN fs = 1..Len(fs) /\ \A f \in DOMAIN fs : fs[f] \in F
    BY <2>1
  <2>3. QED
    BY <2>1, <2>2, FS_Interval
<1>4. ASSUME NEW f \in DOMAIN fs
      PROVE  IsFiniteSet(of(f))
  <2> DEFINE s == fs[f].files
  <2>1. s \in Seq(Nat)
    BY <1>3
  <2> HIDE DEF s
  <2>2. IsFiniteSet(DOMAIN s)
    <3>1. Len(s) \in Nat /\ DOMAIN s = 1..Len(s)
      BY <2>1
    <3>2. QED
      BY <3>1, FS_Interval
  <2>3. IsFiniteSet({f}) /\ IsFiniteSet({f} \X DOMAIN s)
    BY <2>2, FS_Singleton, FS_Product
  <2>4. of(f) \in SUBSET ({f} \X DOMAIN s)
    BY DEF s
  <2> HIDE DEF of
  <2>5. QED
    BY <2>3, <2>4, FS_Subset
<1>5. IsFiniteSet(all)
  <2> DEFINE g == [f \in DOMAIN fs |-> of(f)]
  <2>1. g \in Surjection(DOMAIN fs, all)
    <3> HIDE DEF of
    <3>1. QED
      BY DEF Surjection
  <2> HIDE DEF g, all
  <2>2. QED
    BY <1>3, <2>1, FS_Surjection
<1>6. \A T \in all : IsFiniteSet(T)
  <2> HIDE DEF of
  <2>1. QED
    BY <1>4
<1>7. IsFiniteSet(Related(r, fs, m))
  <2> HIDE DEF all
  <2>1. QED
    BY <1>1, <1>5, <1>6, FS_UNION
<1>8. HighSeverity(r, fs, m) \in SUBSET Related(r, fs, m)
  BY DEF HighSeverity
<1>9. QED
  BY <1>7, <1>8, FS_Subset

\* The modules a module depends on, and those that depend on it.
LEMMA NeighboursAreFinite ==
    ASSUME NEW r \in Repos, NEW m
    PROVE  /\ IsFiniteSet(Downstream(r, m)) /\ IsFiniteSet(Upstream(r, m))
           /\ IsFiniteSet(CrossLayer(r, m)) /\ IsFiniteSet(MatchingTests(r, m))
           /\ IsFiniteSet(FilesOf(r, m))
<1>1. Downstream(r, m) \in SUBSET ModulesOf(r)
  <2>1. \A e \in r.edges : e[2] \in DOMAIN r.files
    BY ReviewsAssumption
  <2>2. QED
    BY <2>1 DEF Downstream, ModulesOf
<1>2. Upstream(r, m) \in SUBSET ModulesOf(r)
  BY DEF Upstream
<1>3. CrossLayer(r, m) \in SUBSET ModulesOf(r)
  BY <1>1 DEF CrossLayer
<1>4. MatchingTests(r, m) \in SUBSET DOMAIN r.files /\ FilesOf(r, m) \in SUBSET DOMAIN r.files
  BY DEF MatchingTests, FilesOf
<1>5. IsFiniteSet(DOMAIN r.files) /\ IsFiniteSet(ModulesOf(r))
  BY RepositoryIsFinite
<1>6. QED
  BY <1>1, <1>2, <1>3, <1>4, <1>5, FS_Subset

\* All metrics of a module are numbers.
LEMMA MetricsAreNumbers ==
    ASSUME NEW r, NEW fs, NEW h, Ranked(r, fs, h), NEW m
    PROVE  /\ \A k \in Measured : Metrics(r, fs, h, m)[k] \in Int
           /\ HighSeverity(r, fs, m) # {} => Metrics(r, fs, h, m).high_severity_count > 0
<1> DEFINE M == Metrics(r, fs, h, m)
           sum(k) == SumFunction([i \in FilesOf(r, m) |-> r.files[i].counts[k]])
<1>1. r \in Repos /\ fs \in Findings /\ h \in [DOMAIN r.files -> Nat]
  BY DEF Ranked
<1>2. FilesOf(r, m) \in SUBSET DOMAIN r.files
  BY DEF FilesOf
<1>3. ASSUME NEW k \in Counted
      PROVE  sum(k) \in Int
  <2> DEFINE f == [i \in FilesOf(r, m) |-> r.files[i].counts[k]]
  <2>1. DOMAIN f = FilesOf(r, m) /\ IsFiniteSet(FilesOf(r, m))
    BY <1>1, NeighboursAreFinite
  <2>2. \A i \in FilesOf(r, m) : f[i] \in Int
    <3>1. \A i \in FilesOf(r, m) : r.files[i] \in SourceFile
      BY <1>1, <1>2, RepositoryIsFinite
    <3>2. \A i \in FilesOf(r, m) : r.files[i].counts[k] \in Nat
      BY <3>1 DEF SourceFile
    <3>3. QED
      BY <3>2
  <2> HIDE DEF f
  <2>3. SumFunctionOnSet(f, FilesOf(r, m)) \in Int
    BY <2>1, <2>2, SumIsNumber
  <2>4. SumFunction(f) \in Int
    BY <2>1, <2>3 DEF SumFunction
  <2>5. QED
    BY <2>4 DEF f
<1>4. SumFunctionOnSet(h, FilesOf(r, m)) \in Int
  <2>1. IsFiniteSet(FilesOf(r, m)) /\ \A i \in FilesOf(r, m) : h[i] \in Int
    BY <1>1, <1>2, NeighboursAreFinite
  <2>2. QED
    BY <2>1, SumIsNumber
<1>5. /\ Cardinality(FilesOf(r, m)) \in Int /\ Cardinality(Upstream(r, m)) \in Int
      /\ Cardinality(Downstream(r, m)) \in Int /\ Cardinality(CrossLayer(r, m)) \in Int
      /\ Cardinality(MatchingTests(r, m)) \in Int /\ Cardinality(Related(r, fs, m)) \in Int
      /\ Cardinality(HighSeverity(r, fs, m)) \in Nat
      /\ HighSeverity(r, fs, m) # {} => Cardinality(HighSeverity(r, fs, m)) # 0
  BY <1>1, NeighboursAreFinite, RelatedIsFinite, FS_CardinalityType, FS_EmptySet
<1>6. M = [k \in Measured |->
              CASE k \in Counted -> sum(k)
                [] k = "git_change_count" -> SumFunctionOnSet(h, FilesOf(r, m))
                [] k = "file_count" -> Cardinality(FilesOf(r, m))
                [] k = "upstream_count" -> Cardinality(Upstream(r, m))
                [] k = "downstream_count" -> Cardinality(Downstream(r, m))
                [] k = "cross_layer_dependency_count" -> Cardinality(CrossLayer(r, m))
                [] k = "matching_test_file_count" -> Cardinality(MatchingTests(r, m))
                [] k = "finding_count" -> Cardinality(Related(r, fs, m))
                [] k = "high_severity_count" -> Cardinality(HighSeverity(r, fs, m))]
  BY DEF Metrics
<1> HIDE DEF sum, M
<1>7. \A k \in Counted : k \in Measured /\ M[k] = sum(k)
  BY <1>6 DEF Measured, Weighted, Counted
<1>8. /\ M["git_change_count"] = SumFunctionOnSet(h, FilesOf(r, m))
      /\ M["file_count"] = Cardinality(FilesOf(r, m))
      /\ M["upstream_count"] = Cardinality(Upstream(r, m))
      /\ M["downstream_count"] = Cardinality(Downstream(r, m))
      /\ M["cross_layer_dependency_count"] = Cardinality(CrossLayer(r, m))
      /\ M["matching_test_file_count"] = Cardinality(MatchingTests(r, m))
      /\ M["finding_count"] = Cardinality(Related(r, fs, m))
      /\ M["high_severity_count"] = Cardinality(HighSeverity(r, fs, m))
  BY <1>6 DEF Measured, Weighted, Counted
<1>9. \A k \in Measured :
         \/ k \in Counted
         \/ k \in {"git_change_count", "file_count", "upstream_count", "downstream_count",
                   "cross_layer_dependency_count", "matching_test_file_count",
                   "finding_count", "high_severity_count"}
  BY DEF Measured, Weighted
<1>10. \A k \in Measured : M[k] \in Int
  BY <1>3, <1>4, <1>5, <1>7, <1>8, <1>9
<1>11. HighSeverity(r, fs, m) # {} => M.high_severity_count > 0
  BY <1>5, <1>8
<1>12. QED
  BY <1>10, <1>11 DEF M

\* The weights that are loaded are numbers.
LEMMA WeightsAreNumbers ==
    ASSUME NEW file \in WeightFiles
    PROVE  WeightsSound(LoadPriorityWeights(file))
<1>1. \A k \in WeightKeys : DefaultWeights[k] \in Int
  BY DEF DefaultWeights
<1>2. CASE file.kind # "object"
  BY <1>1, <1>2 DEF LoadPriorityWeights, WeightsSound
<1>3. CASE file.kind = "object"
  <2>1. \A k \in DOMAIN file.weights : file.weights[k] \in Int
    BY <1>3, ReviewsAssumption
  <2>2. \A k \in WeightKeys :
           LoadPriorityWeights(file)[k] = IF k \in DOMAIN file.weights
                                          THEN file.weights[k] ELSE DefaultWeights[k]
    BY <1>3 DEF LoadPriorityWeights
  <2>3. QED
    BY <1>1, <2>1, <2>2 DEF WeightsSound
<1>4. QED
  BY <1>2, <1>3

\* And so are the scores.
LEMMA ScoreIsNumber ==
    ASSUME NEW M, \A k \in Measured : M[k] \in Int, NEW w, WeightsSound(w)
    PROVE  PriorityScore(M, w) \in Int
<1> DEFINE f == [k \in Weighted |-> M[k] * w[k]]
<1>1. \A k \in Weighted : M[k] \in Int /\ w[k] \in Int
  BY DEF WeightsSound, Measured, WeightKeys
<1>2. DOMAIN f = Weighted /\ \A k \in Weighted : f[k] \in Int
  BY <1>1
<1>3. PriorityScore(M, w) = SumFunction(f)
          + Min({M["git_change_count"], w["git_change_cap"]})
          + IF M["matching_test_file_count"] = 0 THEN w["no_test_penalty"] ELSE 0
  BY DEF PriorityScore
<1> HIDE DEF f
<1>4. SumFunction(f) \in Int
  BY <1>2, WeightedIsFinite, SumIsNumber DEF SumFunction
<1>5. M["git_change_count"] \in Int /\ w["git_change_cap"] \in Int /\ w["no_test_penalty"] \in Int
  BY DEF WeightsSound, Measured, WeightKeys
<1>6. Min({M["git_change_count"], w["git_change_cap"]}) \in Int
  <2> DEFINE a == M["git_change_count"]
             b == w["git_change_cap"]
  <2>1. a \in Int /\ b \in Int
    BY <1>5
  <2> HIDE DEF a, b
  <2>2. \E x \in {a, b} : \A y \in {a, b} : x <= y
    BY <2>1
  <2>3. Min({a, b}) \in {a, b}
    BY <2>2 DEF Min
  <2>4. Min({a, b}) \in Int
    BY <2>1, <2>3
  <2>5. QED
    BY <2>4 DEF a, b
<1>7. QED
  BY <1>3, <1>4, <1>5, <1>6
-----------------------------------------------------------------------------
(* The inventory and its order.                                            *)

\* What the sort key of an entry is made of.
Rankable(item) ==
    /\ item.priority \in {"P0", "P1", "P2"}
    /\ item.score \in Int
    /\ item.module \in Nat

\* An entry of the inventory can be ranked, and a high finding is urgent.
LEMMA ItemIsRankable ==
    ASSUME NEW r, NEW fs, NEW h, Ranked(r, fs, h), NEW w, WeightsSound(w),
           NEW m \in ModulesOf(r)
    PROVE  LET item == InventoryItem(r, fs, h, w, m)
           IN  /\ Rankable(item) /\ item.module = m
               /\ item.score = PriorityScore(Metrics(r, fs, h, m), w)
               /\ HighSeverity(r, fs, m) # {} => item.priority = "P0"
<1> DEFINE M == Metrics(r, fs, h, m)
           score == PriorityScore(M, w)
           level == PriorityLevel(Layer(r, m), M, score)
           item == InventoryItem(r, fs, h, w, m)
<1>1. item = [module |-> m, metrics |-> M, score |-> score, priority |-> level]
  BY DEF InventoryItem
<1>2. score \in Int
  BY MetricsAreNumbers, ScoreIsNumber
<1>3. HighSeverity(r, fs, m) # {} => M.high_severity_count > 0
  BY MetricsAreNumbers
<1>4. m \in Nat
  BY RepositoryIsFinite DEF Ranked
<1> HIDE DEF M, score
<1>5. /\ level \in {"P0", "P1", "P2"}
      /\ M.high_severity_count > 0 => level = "P0"
  BY DEF PriorityLevel
<1> HIDE DEF level, item
<1>6. QED
  BY <1>1, <1>2, <1>3, <1>4, <1>5 DEF Rankable, item, score, M

\* The pairs of S in the order of the inventory.
Urgencies(S) == {p \in S \X S : MoreUrgent(p[1], p[2])}

\* Which pairs of them there are.
LEMMA TwoItems ==
    ASSUME NEW S, NEW a \in S, NEW b \in S
    PROVE  <<a, b>> \in Urgencies(S) <=> MoreUrgent(a, b)
<1> DEFINE x == <<a, b>>
<1>1. x[1] = a /\ x[2] = b /\ x \in S \X S
  BY PairOf
<1> HIDE DEF x
<1>2. x \in Urgencies(S) <=> MoreUrgent(x[1], x[2])
  BY <1>1 DEF Urgencies
<1>3. QED
  BY <1>1, <1>2 DEF x

\* The sort key orders the entries.
LEMMA UrgencyIsOrder ==
    ASSUME NEW S, \A x \in S : Rankable(x)
    PROVE  WeakOrder(Urgencies(S), S)
<1>1. PriorityOrder["P0"] = 0 /\ PriorityOrder["P1"] = 1 /\ PriorityOrder["P2"] = 2
  BY DEF PriorityOrder
<1> DEFINE o(x) == PriorityOrder[x.priority]
<1>2. \A x \in S : /\ o(x) \in Nat /\ x.score \in Int /\ x.module \in Nat
  BY <1>1 DEF Rankable
<1>3. \A x, y \in S : x.priority = y.priority <=> o(x) = o(y)
  BY <1>1 DEF Rankable
<1>4. \A x, y \in S : MoreUrgent(x, y) <=>
         \/ o(x) < o(y)
         \/ o(x) = o(y) /\ x.score > y.score
         \/ o(x) = o(y) /\ x.score = y.score /\ x.module < y.module
  BY <1>3 DEF MoreUrgent
<1> HIDE DEF o
<1>5. \A x \in S : ~ MoreUrgent(x, x)
  BY <1>2, <1>4
<1>6. \A x, y, z \in S : MoreUrgent(x, y) /\ MoreUrgent(y, z) => MoreUrgent(x, z)
  BY <1>2, <1>4
<1>7. \A x, y, z \in S : MoreUrgent(x, z) => MoreUrgent(x, y) \/ MoreUrgent(y, z)
  BY <1>2, <1>4
<1>8. QED
  BY <1>5, <1>6, <1>7, TwoItems DEF WeakOrder

\* The sorted inventory: the same entries, each once, from the most urgent on.
LEMMA InventoryIsSorted ==
    ASSUME NEW S, \A x \in S : Rankable(x), NEW s \in Seq(S)
    PROVE  LET t == Sorted(s, MoreUrgent)
           IN  /\ t \in Seq(S) /\ DOMAIN t = DOMAIN s
               /\ \E p : /\ \A i \in DOMAIN s : p[i] \in DOMAIN s /\ t[i] = s[p[i]]
                         /\ \A i, j \in DOMAIN s : p[i] = p[j] => i = j
                         /\ \A k \in DOMAIN s : \E i \in DOMAIN s : p[i] = k
               /\ \A i, j \in DOMAIN t : i < j => ~ MoreUrgent(t[j], t[i])
<1> DEFINE R == Urgencies(S)
           D == DOMAIN s
           ahead(j) == {k \in D : \/ MoreUrgent(s[k], s[j])
                                  \/ ~ MoreUrgent(s[j], s[k]) /\ k < j}
           p == [i \in D |-> CHOOSE j \in D : Cardinality(ahead(j)) = i - 1]
           t == Sorted(s, MoreUrgent)
<1>1. Len(s) \in Nat /\ D = 1..Len(s) /\ \A i \in D : s[i] \in S
  OBVIOUS
<1>2. t = [i \in D |-> s[p[i]]]
  BY DEF Sorted
<1>3. WeakOrder(R, S)
  BY UrgencyIsOrder
<1> HIDE DEF t, R
<1>4. \A j \in D : ahead(j) = Ahead(Places(R, s), D, j)
  <2>1. SUFFICES ASSUME NEW j \in D
                 PROVE  ahead(j) = Ahead(Places(R, s), D, j)
    OBVIOUS
  <2>2. ASSUME NEW k \in D
        PROVE  k \in ahead(j) <=> k \in Ahead(Places(R, s), D, j)
    <3>1. s[k] \in S /\ s[j] \in S
      BY <1>1
    <3>2. /\ <<s[k], s[j]>> \in R <=> MoreUrgent(s[k], s[j])
          /\ <<s[j], s[k]>> \in R <=> MoreUrgent(s[j], s[k])
      BY <3>1, TwoItems DEF R
    <3>3. <<k, j>> \in Places(R, s) <=> k \in ahead(j)
      BY <3>2, TwoPlaces DEF Precedes
    <3>4. QED
      BY <3>3 DEF Ahead
  <2>3. QED
    BY <2>2 DEF Ahead
<1>5. \A i \in D : p[i] \in D /\ Cardinality(Ahead(Places(R, s), D, p[i])) = i - 1
  <2>1. SUFFICES ASSUME NEW i \in D
                 PROVE  p[i] \in D /\ Cardinality(Ahead(Places(R, s), D, p[i])) = i - 1
    OBVIOUS
  <2>2. \E j \in D : Cardinality(ahead(j)) = i - 1
    <3> HIDE DEF ahead, D
    <3>1. \E j \in D : Cardinality(Ahead(Places(R, s), D, j)) = i - 1
      BY <1>3, SortedIsDefined DEF D
    <3>2. QED
      BY <1>4, <3>1
  <2>3. p[i] \in D /\ Cardinality(ahead(p[i])) = i - 1
    <3> HIDE DEF ahead, D
    <3>1. QED
      BY <2>2
  <2>4. QED
    BY <1>4, <2>3
<1> HIDE DEF p, ahead
<1>6. /\ \A i, j \in D : p[i] = p[j] => i = j
      /\ \A k \in D : \E i \in D : p[i] = k
      /\ \A i, j \in D : i < j => <<s[p[j]], s[p[i]]>> \notin R
  <2>1. Sorting(p, R, s)
    BY <1>5 DEF Sorting
  <2> HIDE DEF D
  <2>2. /\ \A i, j \in DOMAIN s : p[i] = p[j] => i = j
        /\ \A k \in DOMAIN s : \E i \in DOMAIN s : p[i] = k
        /\ \A i, j \in DOMAIN s : i < j => <<s[p[j]], s[p[i]]>> \notin R
    BY <1>3, <2>1, SortedInOrder
  <2>3. QED
    BY <2>2 DEF D
<1> HIDE DEF D
<1>7. \A i \in D : p[i] \in D /\ t[i] = s[p[i]] /\ t[i] \in S
  BY <1>1, <1>2, <1>5
<1>8. t \in Seq(S) /\ DOMAIN t = D
  <2>1. t \in [1..Len(s) -> S]
    BY <1>1, <1>2, <1>7
  <2>2. QED
    BY <1>1, <2>1
<1>9. ASSUME NEW i \in D, NEW j \in D, i < j
      PROVE  ~ MoreUrgent(t[j], t[i])
  <2>1. t[i] \in S /\ t[j] \in S /\ <<t[j], t[i]>> \notin R
    BY <1>6, <1>7, <1>9
  <2>2. QED
    BY <2>1, TwoItems DEF R
<1>10. \E q : /\ \A i \in D : q[i] \in D /\ t[i] = s[q[i]]
              /\ \A i, j \in D : q[i] = q[j] => i = j
              /\ \A k \in D : \E i \in D : q[i] = k
  BY <1>6, <1>7
<1>11. \A i, j \in DOMAIN t : i < j => ~ MoreUrgent(t[j], t[i])
  BY <1>8, <1>9
<1>12. QED
  BY <1>8, <1>10, <1>11 DEF D, t
-----------------------------------------------------------------------------
(* The ranking.                                                            *)

Item(m) == InventoryItem(repo, findings, hotness, weights, m)

Items == {Item(m) : m \in ModulesOf(repo)}

\* The inventory holds each module once, with the weights loaded once; at the
\* end all modules, from the most urgent one on.
RankInv ==
    /\ Ranked(repo, findings, hotness)
    /\ weightsFile \in WeightFiles
    /\ inventory \in Seq(Items)
    /\ weights = NotLoaded => inventory = <<>>
    /\ weights # NotLoaded => \E file \in WeightFiles : weights = LoadPriorityWeights(file)
    /\ \A i, j \in DOMAIN inventory : inventory[i].module = inventory[j].module => i = j
    /\ pc = "hotness" => weights = NotLoaded
    /\ pc \in {"review", "done"} =>
          /\ Unranked = {}
          /\ \A i, j \in DOMAIN inventory : i < j => ~ MoreUrgent(inventory[j], inventory[i])

\* Weights that are loaded are told from those that are not.
LEMMA LoadedIsLoaded ==
    ASSUME NEW file
    PROVE  LoadPriorityWeights(file) # NotLoaded
<1>1. DOMAIN NotLoaded = {}
  BY DEF NotLoaded
<1>2. DOMAIN LoadPriorityWeights(file) = WeightKeys
  BY DEF LoadPriorityWeights, DefaultWeights
<1>3. "git_change_cap" \in WeightKeys
  BY DEF WeightKeys
<1>4. QED
  BY <1>1, <1>2, <1>3

\* What the entries of the inventory are.
LEMMA EntriesAreItems ==
    ASSUME RankInv
    PROVE  /\ Len(inventory) \in Nat /\ DOMAIN inventory = 1..Len(inventory)
           /\ \A i \in DOMAIN inventory :
                 LET m == inventory[i].module
                 IN  /\ m \in ModulesOf(repo) /\ inventory[i] = Item(m)
                     /\ Rankable(inventory[i])
                     /\ inventory[i].score
                           = PriorityScore(Metrics(repo, findings, hotness, m), weights)
                     /\ HighSeverity(repo, findings, m) # {} => inventory[i].priority = "P0"
<1>1. inventory \in Seq(Items) /\ Ranked(repo, findings, hotness)
  BY DEF RankInv
<1>2. Len(inventory) \in Nat /\ DOMAIN inventory = 1..Len(inventory)
      /\ \A i \in DOMAIN inventory : inventory[i] \in Items
  BY <1>1
<1>3. SUFFICES ASSUME NEW i \in DOMAIN inventory
               PROVE  LET m == inventory[i].module
                      IN  /\ m \in ModulesOf(repo) /\ inventory[i] = Item(m)
                          /\ Rankable(inventory[i])
                          /\ inventory[i].score
                                = PriorityScore(Metrics(repo, findings, hotness, m), weights)
                          /\ HighSeverity(repo, findings, m) # {} =>
                                inventory[i].priority = "P0"
  BY <1>2
<1>4. weights # NotLoaded
  BY <1>2 DEF RankInv
<1>5. WeightsSound(weights)
  BY <1>4, WeightsAreNumbers DEF RankInv
<1>6. PICK m \in ModulesOf(repo) : inventory[i] = Item(m)
  BY <1>2 DEF Items
<1>7. /\ Rankable(Item(m)) /\ Item(m).module = m
      /\ Item(m).score = PriorityScore(Metrics(repo, findings, hotness, m), weights)
      /\ HighSeverity(repo, findings, m) # {} => Item(m).priority = "P0"
  BY <1>1, <1>5, ItemIsRankable DEF Item
<1>8. QED
  BY <1>6, <1>7

\* Nothing is ranked at the beginning.
LEMMA RankStarts ==
    ASSUME Init
    PROVE  RankInv
<1>1. repo \in Repos /\ findings \in Findings /\ weightsFile \in WeightFiles
      /\ inventory = <<>> /\ weights = NotLoaded /\ pc = "hotness"
      /\ hotness = [i \in DOMAIN repo.files |-> 0]
  BY DEF Init
<1>2. Ranked(repo, findings, hotness)
  BY <1>1 DEF Ranked
<1>3. QED
  BY <1>1, <1>2 DEF RankInv

\* One more module is ranked.
LEMMA OneModuleRanked ==
    ASSUME RankInv, RankModule
    PROVE  RankInv'
<1> DEFINE m == NextModule
<1>1. /\ pc = "rank" /\ pc' = pc /\ Unranked # {}
      /\ repo' = repo /\ findings' = findings /\ hotness' = hotness
      /\ weightsFile' = weightsFile
      /\ inventory' = Append(inventory, InventoryItem(repo, findings, hotness, weights', m))
  BY DEF RankModule, input
<1>2. m \in ModulesOf(repo) /\ \A i \in DOMAIN inventory : inventory[i].module # m
  <2>1. Ranked(repo, findings, hotness)
    BY DEF RankInv
  <2>2. Unranked \in SUBSET Nat
    BY <2>1, RepositoryIsFinite DEF Unranked, Ranked
  <2>3. \E n \in Unranked : \A k \in Unranked : n <= k
    BY <1>1, <2>2, SmallestNumber
  <2>4. m \in Unranked
    BY <2>3 DEF NextModule
  <2>5. QED
    BY <2>4 DEF Unranked
<1>3. /\ weights' # NotLoaded
      /\ \E file \in WeightFiles : weights' = LoadPriorityWeights(file)
      /\ inventory \in Seq(Items')
  <2>1. CASE weights = NotLoaded
    <3>1. weights' = LoadPriorityWeights(weightsFile) /\ weightsFile \in WeightFiles
          /\ inventory = <<>>
      BY <2>1 DEF RankModule, RankInv
    <3>2. QED
      BY <3>1, LoadedIsLoaded
  <2>2. CASE weights # NotLoaded
    <3>1. weights' = weights
      BY <2>2 DEF RankModule
    <3>2. Items' = Items
      BY <1>1, <3>1 DEF Items, Item
    <3>3. QED
      BY <2>2, <3>1, <3>2 DEF RankInv
  <2>3. QED
    BY <2>1, <2>2
<1> DEFINE item == InventoryItem(repo, findings, hotness, weights', m)
<1>4. item \in Items' /\ item.module = m
  BY <1>1, <1>2 DEF Items, Item, InventoryItem
<1> HIDE DEF item, m
<1>5. /\ inventory' \in Seq(Items')
      /\ DOMAIN inventory' = 1..(Len(inventory) + 1) /\ DOMAIN inventory = 1..Len(inventory)
      /\ \A i \in DOMAIN inventory : inventory'[i] = inventory[i]
      /\ inventory'[Len(inventory) + 1] = item
      /\ Len(inventory) \in Nat
  <2>1. inventory' = Append(inventory, item)
    BY <1>1 DEF item
  <2> DEFINE S == Items'
  <2>2. inventory \in Seq(S) /\ item \in S
    BY <1>3, <1>4
  <2> HIDE DEF S
  <2>3. QED
    BY <2>1, <2>2 DEF S
<1>6. \A i, j \in DOMAIN inventory' : inventory'[i].module = inventory'[j].module => i = j
  <2>1. \A i, j \in DOMAIN inventory : inventory[i].module = inventory[j].module => i = j
    BY DEF RankInv
  <2>2. \A i \in DOMAIN inventory' : i \in DOMAIN inventory \/ i = Len(inventory) + 1
    BY <1>5
  <2>3. QED
    BY <1>2, <1>4, <1>5, <2>1, <2>2
<1>7. Ranked(repo, findings, hotness)' /\ weightsFile' \in WeightFiles
  BY <1>1 DEF RankInv, Ranked
<1>8. pc' \notin {"hotness", "review", "done"}
  BY <1>1
<1>9. QED
  BY <1>3, <1>5, <1>6, <1>7, <1>8 DEF RankInv

\* The inventory is sorted.
LEMMA AllModulesRanked ==
    ASSUME RankInv, SortInventory
    PROVE  RankInv'
<1>1. /\ pc' = "review" /\ Unranked = {}
      /\ repo' = repo /\ findings' = findings /\ hotness' = hotness /\ weights' = weights
      /\ weightsFile' = weightsFile
      /\ inventory' = Sorted(inventory, MoreUrgent)
  BY DEF SortInventory, input
<1> DEFINE S == {inventory[i] : i \in DOMAIN inventory}
<1>2. \A x \in S : Rankable(x)
  BY EntriesAreItems
<1>3. inventory \in Seq(S) /\ S \subseteq Items
  <2>1. inventory \in Seq(Items)
    BY DEF RankInv
  <2>2. QED
    BY <2>1
<1> HIDE DEF S
<1>4. /\ inventory' \in Seq(S) /\ DOMAIN inventory' = DOMAIN inventory
      /\ \E p : /\ \A i \in DOMAIN inventory :
                       p[i] \in DOMAIN inventory /\ inventory'[i] = inventory[p[i]]
                /\ \A i, j \in DOMAIN inventory : p[i] = p[j] => i = j
                /\ \A k \in DOMAIN inventory : \E i \in DOMAIN inventory : p[i] = k
      /\ \A i, j \in DOMAIN inventory' : i < j => ~ MoreUrgent(inventory'[j], inventory'[i])
  <2> DEFINE t == Sorted(inventory, MoreUrgent)
  <2>1. /\ t \in Seq(S) /\ DOMAIN t = DOMAIN inventory
        /\ \E p : /\ \A i \in DOMAIN inventory :
                         p[i] \in DOMAIN inventory /\ t[i] = inventory[p[i]]
                  /\ \A i, j \in DOMAIN inventory : p[i] = p[j] => i = j
                  /\ \A k \in DOMAIN inventory : \E i \in DOMAIN inventory : p[i] = k
        /\ \A i, j \in DOMAIN t : i < j => ~ MoreUrgent(t[j], t[i])
    BY <1>2, <1>3, InventoryIsSorted
  <2>2. inventory' = t
    BY <1>1
  <2> HIDE DEF t
  <2>3. QED
    BY <2>1, <2>2
<1>5. PICK p : /\ \A i \in DOMAIN inventory :
                      p[i] \in DOMAIN inventory /\ inventory'[i] = inventory[p[i]]
               /\ \A i, j \in DOMAIN inventory : p[i] = p[j] => i = j
               /\ \A k \in DOMAIN inventory : \E i \in DOMAIN inventory : p[i] = k
  BY <1>4
<1>6. Items' = Items /\ ModulesOf(repo)' = ModulesOf(repo)
  BY <1>1 DEF Items, Item
<1>7. inventory' \in Seq(Items')
  <2> DEFINE I == Items
  <2>1. S \subseteq I /\ inventory' \in Seq(S)
    BY <1>3, <1>4
  <2> HIDE DEF I
  <2>2. inventory' \in Seq(I)
    BY <2>1
  <2>3. QED
    BY <1>6, <2>2 DEF I
<1>8. \A i, j \in DOMAIN inventory' : inventory'[i].module = inventory'[j].module => i = j
  <2>1. \A i, j \in DOMAIN inventory : inventory[i].module = inventory[j].module => i = j
    BY DEF RankInv
  <2>2. ASSUME NEW i \in DOMAIN inventory, NEW j \in DOMAIN inventory,
               inventory'[i].module = inventory'[j].module
        PROVE  i = j
    <3>1. /\ p[i] \in DOMAIN inventory /\ inventory'[i] = inventory[p[i]]
          /\ p[j] \in DOMAIN inventory /\ inventory'[j] = inventory[p[j]]
      BY <1>5
    <3>2. p[i] = p[j]
      BY <2>1, <2>2, <3>1
    <3>3. QED
      BY <1>5, <3>2
  <2>3. QED
    BY <1>4, <2>2
<1>9. Unranked' = {}
  <2>1. \A k \in DOMAIN inventory : \E i \in DOMAIN inventory' : inventory'[i] = inventory[k]
    <3>1. TAKE k \in DOMAIN inventory
    <3>2. PICK i \in DOMAIN inventory : p[i] = k
      BY <1>5
    <3>3. inventory'[i] = inventory[k] /\ i \in DOMAIN inventory'
      BY <1>4, <1>5, <3>2
    <3>4. QED
      BY <3>3
  <2>2. QED
    BY <1>1, <1>6, <2>1 DEF Unranked
<1>10. weights' = NotLoaded => inventory' = <<>>
  <2>1. weights = NotLoaded => inventory = <<>>
    BY DEF RankInv
  <2>2. inventory = <<>> => inventory' = <<>>
    BY <1>4
  <2>3. QED
    BY <1>1, <2>1, <2>2
<1>11. /\ Ranked(repo, findings, hotness)' /\ weightsFile' \in WeightFiles
       /\ weights' # NotLoaded => \E file \in WeightFiles : weights' = LoadPriorityWeights(file)
  BY <1>1 DEF RankInv, Ranked
<1>12. QED
  BY <1>1, <1>4, <1>7, <1>8, <1>9, <1>10, <1>11 DEF RankInv

\* Every step keeps the ranking.
LEMMA RankStep ==
    ASSUME RankInv, [Next]_vars
    PROVE  RankInv'
<1>1. CASE CollectGitHotness
  <2>1. /\ pc = "hotness" /\ pc' = "rank"
        /\ repo' = repo /\ findings' = findings /\ weights' = weights
        /\ weightsFile' = weightsFile /\ inventory' = inventory
        /\ hotness' \in Histories \cup {[i \in DOMAIN repo.files |-> 0]}
    BY <1>1 DEF CollectGitHotness, input
  <2>2. weights = NotLoaded /\ inventory = <<>> /\ weightsFile \in WeightFiles
    BY <2>1 DEF RankInv
  <2>3. repo \in Repos /\ findings \in Findings
    BY DEF RankInv, Ranked
  <2>4. hotness' \in [DOMAIN repo.files -> Nat]
    BY <2>1, <2>3, ReviewsAssumption
  <2>5. Ranked(repo, findings, hotness)'
    BY <2>1, <2>3, <2>4 DEF Ranked
  <2>6. QED
    BY <2>1, <2>2, <2>5 DEF RankInv
<1>2. CASE RankModule
  BY <1>2, OneModuleRanked
<1>3. CASE SortInventory
  BY <1>3, AllModulesRanked
<1>4. ASSUME UNCHANGED <<input, hotness, weights, inventory>>, weightsFile' \in WeightFiles,
             pc' = "hotness" => pc = "hotness",
             pc' \in {"review", "done"} => pc \in {"review", "done"}
      PROVE  RankInv'
  <2>1. /\ repo' = repo /\ findings' = findings /\ hotness' = hotness /\ weights' = weights
        /\ inventory' = inventory
    BY <1>4 DEF input
  <2>2. Items' = Items /\ Unranked' = Unranked
    BY <2>1 DEF Items, Item, Unranked
  <2>3. Ranked(repo, findings, hotness)'
    BY <2>1 DEF RankInv, Ranked
  <2>4. QED
    BY <1>4, <2>1, <2>2, <2>3 DEF RankInv
<1>5. CASE EditWeights
  BY <1>4, <1>5 DEF EditWeights
<1>6. weightsFile \in WeightFiles
  BY DEF RankInv
<1>7. CASE WeightsRaise
  BY <1>4, <1>6, <1>7 DEF WeightsRaise, ranking
<1>8. CASE ReviewByRules \/ StartReview
  BY <1>4, <1>6, <1>8 DEF ReviewByRules, StartReview, BetweenModules, ranking
<1>9. CASE CallAnswered \/ CallFails \/ CallRaises
  BY <1>4, <1>6, <1>9 DEF CallAnswered, CallFails, CallRaises, Calling, ranking
<1>10. CASE FinishReview \/ BuildCards
  BY <1>4, <1>6, <1>10 DEF FinishReview, BuildCards, ranking
<1>11. CASE UNCHANGED vars
  BY <1>4, <1>6, <1>11 DEF vars, ranking
<1>12. QED
  BY <1>1, <1>2, <1>3, <1>5, <1>7, <1>8, <1>9, <1>10, <1>11 DEF Next

\* The inductive invariant of the ranking.
LEMMA RankInvariant == Spec => []RankInv
<1>1. Init => RankInv
  BY RankStarts
<1>2. RankInv /\ [Next]_vars => RankInv'
  BY RankStep
<1>3. QED
  BY <1>1, <1>2, PTL DEF Spec

\* All modules are ranked by the same weights, whatever becomes of the file.
THEOREM WeightsAreSettled == Spec => []RankedAlike
<1>1. ASSUME RankInv
      PROVE  RankedAlike
  <2>1. CASE weights = NotLoaded
    <3>1. inventory = <<>> /\ weightsFile \in WeightFiles
      BY <1>1, <2>1 DEF RankInv
    <3>2. DOMAIN inventory = {}
      BY <3>1
    <3>3. QED
      BY <3>1, <3>2 DEF RankedAlike
  <2>2. CASE weights # NotLoaded
    <3>1. PICK file \in WeightFiles : weights = LoadPriorityWeights(file)
      BY <1>1, <2>2 DEF RankInv
    <3>2. QED
      BY <1>1, <3>1, EntriesAreItems DEF RankedAlike
  <2>3. QED
    BY <2>1, <2>2
<1>2. QED
  BY <1>1, RankInvariant, PTL
-----------------------------------------------------------------------------
(* Which modules are reviewed.                                             *)

\* The modules reviewed are at the places p: an entry at none of them is P2, or
\* comes after them all.
FirstPlaces(p) ==
    /\ \A i \in DOMAIN Detailed :
          /\ p[i] \in DOMAIN inventory /\ Detailed[i] = inventory[p[i]]
          /\ Detailed[i].priority # "P2"
    /\ \A i, j \in DOMAIN Detailed : i < j => p[i] < p[j]
    /\ \A k \in DOMAIN inventory :
          \/ \E i \in DOMAIN Detailed : p[i] = k
          \/ inventory[k].priority = "P2"
          \/ /\ Len(Detailed) = MaxDetailed
             /\ \A i \in DOMAIN Detailed : p[i] < k

\* The modules reviewed are the first ones of the inventory that are not P2.
LEMMA DetailedAre ==
    ASSUME RankInv
    PROVE  /\ Len(Detailed) \in Nat /\ Len(Detailed) <= MaxDetailed
           /\ DOMAIN Detailed = 1..Len(Detailed)
           /\ \E p : FirstPlaces(p)
<1> DEFINE T == {i \in DOMAIN inventory : inventory[i].priority # "P2"}
           c == Cardinality(T)
           urgent == Kept(inventory, LAMBDA item : item.priority # "P2")
           q == Numbered(T)
           n == Min({MaxDetailed, c})
<1>1. Len(inventory) \in Nat /\ DOMAIN inventory = 1..Len(inventory)
  BY EntriesAreItems
<1>2. urgent = [i \in 1..c |-> inventory[q[i]]]
  BY DEF Kept, Listed, Numbered
<1>3. T \in SUBSET (1..Len(inventory))
      /\ \A k \in DOMAIN inventory : k \in T <=> inventory[k].priority # "P2"
  BY <1>1
<1>4. Detailed = SubSeq(urgent, 1, Min({MaxDetailed, Len(urgent)}))
  BY DEF Detailed, DetailedModules
<1> HIDE DEF T, urgent
<1>5. /\ c \in Nat
      /\ \A i \in 1..c : q[i] \in T
      /\ \A i, j \in 1..c : i < j => q[i] < q[j]
      /\ \A k \in T : \E i \in 1..c : q[i] = k
  BY <1>1, <1>3, NumberedInOrder
<1> HIDE DEF c, q
<1>6. urgent \in Seq({inventory[q[i]] : i \in 1..c}) /\ Len(urgent) = c
  BY <1>2, <1>5
<1>7. n \in Nat /\ n <= MaxDetailed /\ n <= c /\ (n = MaxDetailed \/ n = c)
  <2>1. MaxDetailed \in Nat
    BY ReviewsAssumption
  <2>2. \E x \in {MaxDetailed, c} : \A y \in {MaxDetailed, c} : x <= y
    BY <1>5, <2>1
  <2>3. n \in {MaxDetailed, c} /\ \A y \in {MaxDetailed, c} : n <= y
    BY <2>2 DEF Min
  <2> HIDE DEF n
  <2>4. QED
    BY <1>5, <2>1, <2>3
<1>8. Detailed = SubSeq(urgent, 1, n)
  BY <1>4, <1>6
<1> HIDE DEF n
<1>9. /\ Len(Detailed) = n /\ DOMAIN Detailed = 1..n
      /\ \A i \in 1..n : Detailed[i] = inventory[q[i]]
  <2> DEFINE S == {inventory[q[i]] : i \in 1..c}
  <2>1. urgent \in Seq(S)
    BY <1>6
  <2> HIDE DEF S
  <2>2. /\ Len(Detailed) = n /\ DOMAIN Detailed = 1..n
        /\ \A i \in 1..n : Detailed[i] = urgent[i]
    BY <1>6, <1>7, <1>8, <2>1
  <2>3. QED
    BY <1>2, <1>5, <1>7, <2>2
<1>10. \A i \in 1..n : i \in 1..c
  BY <1>5, <1>7
<1>11. \A i \in 1..n : q[i] \in DOMAIN inventory /\ inventory[q[i]].priority # "P2"
  BY <1>1, <1>3, <1>5, <1>10
<1>12. ASSUME NEW k \in DOMAIN inventory
       PROVE  \/ \E i \in 1..n : q[i] = k
              \/ inventory[k].priority = "P2"
              \/ n = MaxDetailed /\ \A i \in 1..n : q[i] < k
  <2>1. CASE k \notin T
    BY <1>3, <2>1
  <2>2. CASE k \in T
    <3>1. PICK x \in 1..c : q[x] = k
      BY <1>5, <2>2
    <3>2. CASE x <= n
      BY <1>5, <1>7, <3>1, <3>2
    <3>3. CASE ~ (x <= n)
      <4>1. n = MaxDetailed /\ x \in Nat /\ n < x
        BY <1>5, <1>7, <3>3
      <4>2. \A i \in 1..n : i < x
        BY <1>7, <4>1
      <4>3. QED
        BY <1>5, <1>10, <3>1, <4>1, <4>2
    <3>4. QED
      BY <3>2, <3>3
  <2>3. QED
    BY <2>1, <2>2
<1>13. \A i, j \in 1..n : i < j => q[i] < q[j]
  BY <1>5, <1>10
<1>14. FirstPlaces(q)
  BY <1>9, <1>11, <1>12, <1>13 DEF FirstPlaces
<1>15. /\ Len(Detailed) \in Nat /\ Len(Detailed) <= MaxDetailed
       /\ DOMAIN Detailed = 1..Len(Detailed)
  BY <1>7, <1>9
<1>16. QED
  BY <1>14, <1>15

\* Each module is reviewed once.
LEMMA DetailedApart ==
    ASSUME RankInv
    PROVE  /\ \A i \in DOMAIN Detailed : /\ Rankable(Detailed[i])
                                         /\ \E k \in DOMAIN inventory : Detailed[i] = inventory[k]
           /\ \A i, j \in DOMAIN Detailed : Detailed[i].module = Detailed[j].module => i = j
<1>0. PICK q : FirstPlaces(q)
  BY DetailedAre
<1>1. /\ \A i \in DOMAIN Detailed : q[i] \in DOMAIN inventory /\ Detailed[i] = inventory[q[i]]
      /\ \A i, j \in DOMAIN Detailed : i < j => q[i] < q[j]
  BY <1>0 DEF FirstPlaces
<1>2. /\ Len(Detailed) \in Nat /\ DOMAIN Detailed = 1..Len(Detailed)
      /\ Len(inventory) \in Nat /\ DOMAIN inventory = 1..Len(inventory)
      /\ \A k \in DOMAIN inventory : Rankable(inventory[k])
      /\ \A k, l \in DOMAIN inventory : inventory[k].module = inventory[l].module => k = l
  BY DetailedAre, EntriesAreItems DEF RankInv
<1>3. ASSUME NEW i \in DOMAIN Detailed, NEW j \in DOMAIN Detailed,
             Detailed[i].module = Detailed[j].module
      PROVE  i = j
  <2>1. q[i] = q[j]
    BY <1>1, <1>2, <1>3
  <2>2. i \in Nat /\ j \in Nat /\ q[i] \in Nat
    BY <1>1, <1>2
  <2>3. ~ (i < j) /\ ~ (j < i)
    BY <1>1, <2>1, <2>2
  <2>4. QED
    BY <2>2, <2>3
<1>4. QED
  BY <1>1, <1>2, <1>3

\* The entry of a module that is reviewed.
LEMMA ItemOfDetailed ==
    ASSUME RankInv, NEW k \in DOMAIN inventory
    PROVE  ItemOf(inventory[k].module) = inventory[k]
<1> DEFINE S == {inventory[i] : i \in DOMAIN inventory}
           m == inventory[k].module
<1>1. inventory[k] \in S /\ inventory[k].module = m
  OBVIOUS
<1>2. \A x \in S : x.module = m => x = inventory[k]
  BY DEF RankInv
<1>3. ItemOf(m) = CHOOSE x \in S : x.module = m
  BY DEF ItemOf
<1> HIDE DEF S, m
<1>4. QED
  BY <1>1, <1>2, <1>3 DEF m
-----------------------------------------------------------------------------
(* The reviews.                                                            *)

PartNames == {"validator", "planner", "critic"}

\* The parts of a review that were asked for before part n.
Asked(n) == {Parts[k] : k \in 1..(n - 1)}

\* The parts of a review of module m that were answered.
AnsweredIn(cs, m) ==
    {cs[i].part : i \in {j \in DOMAIN cs : cs[j].module = m /\ cs[j].outcome = "answered"}}

\* After the calls cs the review r of an entry says who wrote it.
ReviewSound(cs, asked, r, item) ==
    LET answered == AnsweredIn(cs, item.module)
        silent == PartNames \ answered
    IN  /\ r.module = item.module
        /\ r.mode = "llm" <=> silent = {}
        /\ r.mode = "deterministic_fallback" <=> answered = {}
        /\ \A name \in silent : r.parts[name] = DeterministicReview(item)[name]
        /\ asked => {r.errors[j] : j \in DOMAIN r.errors} = silent

\* And so does the one that is being made, before its part n.
CurrentSound(cs, cur, item, n) ==
    LET answered == AnsweredIn(cs, item.module)
    IN  /\ answered \subseteq Asked(n)
        /\ DOMAIN cur = {"parts", "llm_successes", "errors"} /\ DOMAIN cur.parts = PartNames
        /\ cur.llm_successes = Cardinality(answered)
        /\ \A name \in PartNames \ answered :
              cur.parts[name] = DeterministicReview(item)[name]
        /\ cur.errors \in Seq(PartNames)
        /\ {cur.errors[j] : j \in DOMAIN cur.errors} = Asked(n) \ answered

\* s is a list, of whatever elements.
Listing(s) == s \in Seq({s[i] : i \in DOMAIN s})

Call == [module : Nat, part : PartNames, outcome : {"answered", "failed"}]

\* Reviews are made one after the other, and calls belong to them.
ReviewInv ==
    /\ part \in 0..4
    /\ pc \in {"hotness", "rank"} => part = 0 /\ reviews = <<>> /\ calls = <<>>
    /\ pc # "done" => DOMAIN cards = {}
    /\ Listing(reviews)
    /\ Len(reviews) <= Len(Detailed)
    /\ part > 0 => pc \in {"review", "crashed"} /\ model /\ Len(reviews) < Len(Detailed)
    /\ \A i \in DOMAIN reviews : ReviewSound(calls, model, reviews[i], Detailed[i])
    /\ calls \in Seq(Call)
    /\ \A k \in DOMAIN calls :
          \/ \E i \in DOMAIN reviews : calls[k].module = Detailed[i].module
          \/ part > 0 /\ calls[k].module = Entry.module
    /\ part > 0 /\ pc = "review" => CurrentSound(calls, current, Entry, part)
    /\ pc = "done" =>
          /\ DOMAIN cards = {Detailed[i].module : i \in DOMAIN Detailed}
          /\ \A i \in DOMAIN reviews : cards[reviews[i].module] = reviews[i]

\* A list that grows.
LEMMA ListingGrows ==
    ASSUME NEW s, Listing(s), NEW x
    PROVE  /\ Len(s) \in Nat /\ DOMAIN s = 1..Len(s)
           /\ Listing(Append(s, x)) /\ Len(Append(s, x)) = Len(s) + 1
           /\ DOMAIN Append(s, x) = 1..(Len(s) + 1)
           /\ \A i \in 1..Len(s) : Append(s, x)[i] = s[i]
           /\ Append(s, x)[Len(s) + 1] = x
<1> DEFINE S == {s[i] : i \in DOMAIN s} \cup {x}
           t == Append(s, x)
<1>1. s \in Seq({s[i] : i \in DOMAIN s})
  BY DEF Listing
<1>2. Len(s) \in Nat /\ DOMAIN s = 1..Len(s)
  BY <1>1
<1>3. s \in Seq(S) /\ x \in S
  <2>1. \A i \in DOMAIN s : s[i] \in S
    OBVIOUS
  <2> HIDE DEF S
  <2>2. s \in [1..Len(s) -> S]
    BY <1>1, <1>2, <2>1
  <2>3. QED
    BY <1>2, <2>2 DEF S
<1> HIDE DEF S
<1>4. /\ t \in Seq(S) /\ Len(t) = Len(s) + 1 /\ DOMAIN t = 1..(Len(s) + 1)
      /\ \A i \in 1..Len(s) : t[i] = s[i]
      /\ t[Len(s) + 1] = x
  BY <1>2, <1>3
<1> HIDE DEF t
<1>5. Listing(t)
  <2> DEFINE T == {t[i] : i \in DOMAIN t}
  <2>1. \A i \in DOMAIN t : t[i] \in T
    OBVIOUS
  <2> HIDE DEF T
  <2>2. t \in Seq(T)
    <3>1. Len(t) \in Nat /\ DOMAIN t = 1..Len(t)
      BY <1>4
    <3>2. t \in [1..Len(t) -> T]
      BY <1>4, <2>1, <3>1
    <3>3. QED
      BY <3>1, <3>2
  <2>3. QED
    BY <2>2 DEF Listing, T
<1>6. QED
  BY <1>2, <1>4, <1>5 DEF t

\* The order of the parts.
LEMMA PartsInOrder ==
    /\ Asked(1) = {} /\ Asked(4) = PartNames
    /\ DOMAIN Parts = 1..3 /\ Len(Parts) = 3
    /\ \A n \in 1..3 : /\ Parts[n] \in PartNames /\ Parts[n] \notin Asked(n)
                       /\ Asked(n + 1) = Asked(n) \cup {Parts[n]}
<1>1. DOMAIN Parts = 1..3 /\ Len(Parts) = 3
  BY DEF Parts
<1>2. Parts[1] = "validator" /\ Parts[2] = "planner" /\ Parts[3] = "critic"
  BY DEF Parts
<1>3. Asked(1) = {}
  BY DEF Asked
<1>4. \A n \in 1..3 : Asked(n + 1) = Asked(n) \cup {Parts[n]}
  <2>1. TAKE n \in 1..3
  <2>2. \A k \in Int : k \in 1..((n + 1) - 1) <=> k \in 1..(n - 1) \/ k = n
    OBVIOUS
  <2>3. QED
    BY <2>2 DEF Asked
<1>5. /\ Asked(2) = {Parts[1]}
      /\ Asked(3) = {Parts[1], Parts[2]}
      /\ Asked(4) = {Parts[1], Parts[2], Parts[3]}
  <2>1. Asked(2) = Asked(1) \cup {Parts[1]} /\ Asked(3) = Asked(2) \cup {Parts[2]}
        /\ Asked(4) = Asked(3) \cup {Parts[3]}
    <3>1. 1 + 1 = 2 /\ 2 + 1 = 3 /\ 3 + 1 = 4
      OBVIOUS
    <3>2. QED
      BY <1>4, <3>1
  <2>2. QED
    BY <1>3, <2>1
<1>6. \A n \in 1..3 : Parts[n] \in PartNames /\ Parts[n] \notin Asked(n)
  <2>1. TAKE n \in 1..3
  <2>2. n = 1 \/ n = 2 \/ n = 3
    OBVIOUS
  <2>3. QED
    BY <1>2, <1>3, <1>5, <2>2 DEF PartNames
<1>7. Asked(4) = PartNames
  BY <1>2, <1>5 DEF PartNames
<1>8. QED
  BY <1>1, <1>3, <1>4, <1>6, <1>7

\* There are three parts.
LEMMA ThreeParts == IsFiniteSet(PartNames) /\ Cardinality(PartNames) = 3
<1> DEFINE A == {"validator"}
           B == A \cup {"planner"}
           C == B \cup {"critic"}
<1>1. C = PartNames /\ "planner" \notin A /\ "critic" \notin B
  BY DEF PartNames
<1>2. IsFiniteSet(A) /\ Cardinality(A) = 1
  BY FS_Singleton
<1> HIDE DEF A
<1>3. IsFiniteSet(B) /\ Cardinality(B) = 2
  BY <1>1, <1>2, FS_AddElement
<1> HIDE DEF B
<1>4. IsFiniteSet(C) /\ Cardinality(C) = 3
  BY <1>1, <1>3, FS_AddElement
<1>5. QED
  BY <1>1, <1>4

\* One more call answers at most one part of one module.
LEMMA OneMoreCall ==
    ASSUME NEW cs \in Seq(Call), NEW c \in Call
    PROVE  /\ Append(cs, c) \in Seq(Call)
           /\ \A k \in DOMAIN Append(cs, c) : \/ k \in DOMAIN cs /\ Append(cs, c)[k] = cs[k]
                                              \/ Append(cs, c)[k] = c
           /\ \A m : m # c.module => AnsweredIn(Append(cs, c), m) = AnsweredIn(cs, m)
           /\ c.outcome = "answered" =>
                 AnsweredIn(Append(cs, c), c.module) = AnsweredIn(cs, c.module) \cup {c.part}
           /\ c.outcome # "answered" =>
                 AnsweredIn(Append(cs, c), c.module) = AnsweredIn(cs, c.module)
<1> DEFINE n == Len(cs)
           ds == Append(cs, c)
<1>1. /\ ds \in Seq(Call) /\ n \in Nat
      /\ DOMAIN cs = 1..n /\ DOMAIN ds = 1..(n + 1)
      /\ \A k \in 1..n : ds[k] = cs[k]
      /\ ds[n + 1] = c
  OBVIOUS
<1>2. \A k \in 1..(n + 1) : k \in 1..n \/ k = n + 1
  BY <1>1
<1>3. 1..n \subseteq 1..(n + 1) /\ n + 1 \in 1..(n + 1)
  BY <1>1
<1> HIDE DEF n, ds
<1>4. \A m : AnsweredIn(ds, m) = AnsweredIn(cs, m)
                 \cup (IF m = c.module /\ c.outcome = "answered" THEN {c.part} ELSE {})
  BY <1>1, <1>2, <1>3 DEF AnsweredIn
<1>5. \A k \in DOMAIN ds : (k \in DOMAIN cs /\ ds[k] = cs[k]) \/ ds[k] = c
  BY <1>1, <1>2
<1>6. \A m : m # c.module => AnsweredIn(ds, m) = AnsweredIn(cs, m)
  BY <1>4
<1>7. /\ c.outcome = "answered" =>
             AnsweredIn(ds, c.module) = AnsweredIn(cs, c.module) \cup {c.part}
      /\ c.outcome # "answered" => AnsweredIn(ds, c.module) = AnsweredIn(cs, c.module)
  BY <1>4
<1>8. QED
  BY <1>1, <1>5, <1>6, <1>7 DEF ds

CallOf(m, p, outcome) == [module |-> m, part |-> p, outcome |-> outcome]

\* The call for a part of a module.
LEMMA CallOfPart ==
    ASSUME NEW m \in Nat, NEW p \in PartNames, NEW outcome \in {"answered", "failed"}
    PROVE  /\ CallOf(m, p, outcome) \in Call /\ CallOf(m, p, outcome).module = m
           /\ CallOf(m, p, outcome).part = p /\ CallOf(m, p, outcome).outcome = outcome
BY DEF Call, CallOf

\* The entry under review.
LEMMA EntryIsNext ==
    ASSUME RankInv, ReviewInv, Len(reviews) < Len(Detailed)
    PROVE  /\ Len(reviews) + 1 \in DOMAIN Detailed
           /\ Rankable(Entry)
           /\ \A i \in DOMAIN reviews : i \in DOMAIN Detailed /\ Detailed[i].module # Entry.module
<1>1. Len(Detailed) \in Nat /\ DOMAIN Detailed = 1..Len(Detailed)
  BY DetailedAre
<1>2. Len(reviews) \in Nat /\ DOMAIN reviews = 1..Len(reviews)
  BY ListingGrows DEF ReviewInv
<1>3. Len(reviews) + 1 \in DOMAIN Detailed
      /\ \A i \in DOMAIN reviews : i \in DOMAIN Detailed /\ i # Len(reviews) + 1
  BY <1>1, <1>2
<1>4. QED
  BY <1>3, DetailedApart DEF Entry

\* Nothing was answered for a module before its review.
LEMMA NotAskedYet ==
    ASSUME RankInv, ReviewInv, Len(reviews) < Len(Detailed), part = 0
    PROVE  AnsweredIn(calls, Entry.module) = {}
<1>1. \A k \in DOMAIN calls : calls[k].module # Entry.module
  BY EntryIsNext DEF ReviewInv
<1>2. QED
  BY <1>1 DEF AnsweredIn
-----------------------------------------------------------------------------
(* One review.                                                             *)

\* A review stays sound when calls for other modules are made.
LEMMA ReviewStays ==
    ASSUME NEW cs, NEW ds, NEW asked, NEW r, NEW item, ReviewSound(cs, asked, r, item),
           AnsweredIn(ds, item.module) = AnsweredIn(cs, item.module)
    PROVE  ReviewSound(ds, asked, r, item)
BY DEF ReviewSound

\* A review by rules.
LEMMA ReviewOfRules ==
    ASSUME NEW cs, NEW asked, ~ asked, NEW item, AnsweredIn(cs, item.module) = {}
    PROVE  ReviewSound(cs, asked,
               ReviewOf(item, DeterministicReview(item), "deterministic_fallback", <<>>), item)
<1>1. PartNames # {}
  BY DEF PartNames
<1>2. QED
  BY <1>1 DEF ReviewSound, ReviewOf

\* A review by the model begins with the one by rules.
LEMMA ReviewBegins ==
    ASSUME NEW cs, NEW item, AnsweredIn(cs, item.module) = {}
    PROVE  CurrentSound(cs, [parts |-> DeterministicReview(item), llm_successes |-> 0,
                             errors |-> <<>>], item, 1)
<1> DEFINE d == DeterministicReview(item)
           cur == [parts |-> d, llm_successes |-> 0, errors |-> <<>>]
<1>1. DOMAIN d = PartNames
  BY DEF DeterministicReview, PartNames
<1> HIDE DEF d
<1>2. /\ cur.parts = d /\ cur.llm_successes = 0 /\ cur.errors = <<>>
      /\ DOMAIN cur = {"parts", "llm_successes", "errors"}
  OBVIOUS
<1> HIDE DEF cur
<1>3. cur.errors \in Seq(PartNames) /\ DOMAIN cur.errors = {}
  BY <1>2
<1>4. Asked(1) = {} /\ Cardinality({}) = 0
  BY PartsInOrder, FS_EmptySet
<1>5. CurrentSound(cs, cur, item, 1)
  BY <1>1, <1>2, <1>3, <1>4 DEF CurrentSound, d
<1>6. QED
  BY <1>5 DEF cur, d

\* A part that is answered.
LEMMA PartAnswered ==
    ASSUME NEW cs \in Seq(Call), NEW item, item.module \in Nat, NEW n \in 1..3, NEW cur,
           CurrentSound(cs, cur, item, n), NEW answer, NEW ds,
           ds = Append(cs, CallOf(item.module, Parts[n], "answered"))
    PROVE  CurrentSound(ds,
               [cur EXCEPT !.parts[Parts[n]] = SanitizeReview(Parts[n], answer, @),
                           !.llm_successes = @ + 1], item, n + 1)
<1> DEFINE p == Parts[n]
           A == AnsweredIn(cs, item.module)
           B == AnsweredIn(ds, item.module)
           value == SanitizeReview(p, answer, cur.parts[p])
           nxt == [cur EXCEPT !.parts[p] = SanitizeReview(p, answer, @), !.llm_successes = @ + 1]
<1>1. p \in PartNames /\ p \notin Asked(n) /\ Asked(n + 1) = Asked(n) \cup {p}
  BY PartsInOrder
<1>2. B = A \cup {p}
  <2> DEFINE e == item.module
             c == CallOf(e, p, "answered")
  <2>1. e \in Nat /\ ds = Append(cs, c)
    OBVIOUS
  <2>2. c \in Call /\ c.module = e /\ c.part = p /\ c.outcome = "answered"
    BY <1>1, CallOfPart
  <2> HIDE DEF e, p, c
  <2>3. AnsweredIn(ds, e) = AnsweredIn(cs, e) \cup {p}
    BY <2>1, <2>2, OneMoreCall
  <2>4. QED
    BY <2>3 DEF e
<1>3. /\ A \subseteq Asked(n)
      /\ DOMAIN cur = {"parts", "llm_successes", "errors"} /\ DOMAIN cur.parts = PartNames
      /\ cur.llm_successes = Cardinality(A)
      /\ \A name \in PartNames \ A : cur.parts[name] = DeterministicReview(item)[name]
      /\ cur.errors \in Seq(PartNames)
      /\ {cur.errors[j] : j \in DOMAIN cur.errors} = Asked(n) \ A
  BY DEF CurrentSound
<1> HIDE DEF A, B, p
<1>4. Cardinality(B) = Cardinality(A) + 1
  <2>1. A \in SUBSET PartNames
    <3>1. Asked(n) \subseteq PartNames
      <4>1. \A k \in 1..(n - 1) : k \in 1..3
        OBVIOUS
      <4>2. QED
        BY <4>1, PartsInOrder DEF Asked
    <3>2. QED
      BY <1>3, <3>1
  <2>2. IsFiniteSet(A) /\ p \notin A
    BY <1>1, <1>3, <2>1, ThreeParts, FS_Subset
  <2>3. QED
    BY <1>2, <2>2, FS_AddElement
<1>5. /\ DOMAIN nxt = {"parts", "llm_successes", "errors"}
      /\ nxt.llm_successes = Cardinality(A) + 1
      /\ nxt.errors = cur.errors
  BY <1>3
<1>6. nxt.parts = [cur.parts EXCEPT ![p] = value]
  BY <1>3
<1> HIDE DEF value, nxt
<1>7. /\ DOMAIN nxt.parts = PartNames
      /\ \A name \in PartNames : name # p => nxt.parts[name] = cur.parts[name]
  BY <1>3, <1>6
<1>8. /\ B \subseteq Asked(n + 1)
      /\ \A name \in PartNames \ B : nxt.parts[name] = DeterministicReview(item)[name]
      /\ {nxt.errors[j] : j \in DOMAIN nxt.errors} = Asked(n + 1) \ B
  BY <1>1, <1>2, <1>3, <1>5, <1>7
<1>9. CurrentSound(ds, nxt, item, n + 1)
  BY <1>3, <1>4, <1>5, <1>7, <1>8 DEF CurrentSound, B
<1>10. QED
  BY <1>9 DEF nxt, p

\* A part whose call fails.
LEMMA PartFailed ==
    ASSUME NEW cs \in Seq(Call), NEW item, item.module \in Nat, NEW n \in 1..3, NEW cur,
           CurrentSound(cs, cur, item, n), NEW ds,
           ds = Append(cs, CallOf(item.module, Parts[n], "failed"))
    PROVE  CurrentSound(ds, [cur EXCEPT !.errors = Append(@, Parts[n])], item, n + 1)
<1> DEFINE p == Parts[n]
           A == AnsweredIn(cs, item.module)
           nxt == [cur EXCEPT !.errors = Append(@, p)]
<1>1. p \in PartNames /\ p \notin Asked(n) /\ Asked(n + 1) = Asked(n) \cup {p}
  BY PartsInOrder
<1>2. AnsweredIn(ds, item.module) = A
  <2> DEFINE e == item.module
             c == CallOf(e, p, "failed")
  <2>1. e \in Nat /\ ds = Append(cs, c)
    OBVIOUS
  <2>2. c \in Call /\ c.module = e /\ c.part = p /\ c.outcome = "failed"
    BY <1>1, CallOfPart
  <2> HIDE DEF e, p, c
  <2>3. AnsweredIn(ds, e) = AnsweredIn(cs, e)
    BY <2>1, <2>2, OneMoreCall
  <2>4. QED
    BY <2>3 DEF e
<1>3. /\ A \subseteq Asked(n)
      /\ DOMAIN cur = {"parts", "llm_successes", "errors"} /\ DOMAIN cur.parts = PartNames
      /\ cur.llm_successes = Cardinality(A)
      /\ \A name \in PartNames \ A : cur.parts[name] = DeterministicReview(item)[name]
      /\ cur.errors \in Seq(PartNames)
      /\ {cur.errors[j] : j \in DOMAIN cur.errors} = Asked(n) \ A
  BY DEF CurrentSound
<1> HIDE DEF A, p
<1>4. /\ DOMAIN nxt = {"parts", "llm_successes", "errors"}
      /\ nxt.llm_successes = Cardinality(A) /\ nxt.parts = cur.parts
  BY <1>3
<1>5. nxt.errors = Append(cur.errors, p)
  BY <1>3
<1> HIDE DEF nxt
<1>6. /\ nxt.errors \in Seq(PartNames)
      /\ {nxt.errors[j] : j \in DOMAIN nxt.errors}
            = {cur.errors[j] : j \in DOMAIN cur.errors} \cup {p}
  <2> DEFINE s == cur.errors
             t == nxt.errors
  <2>1. s \in Seq(PartNames) /\ t = Append(s, p)
    BY <1>3, <1>5
  <2> HIDE DEF s, t
  <2>2. /\ t \in Seq(PartNames) /\ Len(s) \in Nat
        /\ DOMAIN s = 1..Len(s) /\ DOMAIN t = 1..(Len(s) + 1)
        /\ \A j \in 1..Len(s) : t[j] = s[j]
        /\ t[Len(s) + 1] = p
    BY <1>1, <2>1
  <2>3. \A j \in 1..(Len(s) + 1) : j \in 1..Len(s) \/ j = Len(s) + 1
    BY <2>2
  <2>4. 1..Len(s) \subseteq 1..(Len(s) + 1) /\ Len(s) + 1 \in 1..(Len(s) + 1)
    BY <2>2
  <2>5. {t[j] : j \in DOMAIN t} = {s[j] : j \in DOMAIN s} \cup {p}
    BY <2>2, <2>3, <2>4
  <2>6. QED
    BY <2>2, <2>5 DEF s, t
<1>7. /\ A \subseteq Asked(n + 1)
      /\ {nxt.errors[j] : j \in DOMAIN nxt.errors} = Asked(n + 1) \ A
  BY <1>1, <1>3, <1>6
<1>8. CurrentSound(ds, nxt, item, n + 1)
  BY <1>2, <1>3, <1>4, <1>6, <1>7 DEF CurrentSound
<1>9. QED
  BY <1>8 DEF nxt, p

\* A review that is finished.
LEMMA ReviewFinished ==
    ASSUME NEW cs, NEW asked, NEW item, NEW cur, CurrentSound(cs, cur, item, 4)
    PROVE  ReviewSound(cs, asked,
               ReviewOf(item, cur.parts, Mode(cur.llm_successes), cur.errors), item)
<1> DEFINE A == AnsweredIn(cs, item.module)
           r == ReviewOf(item, cur.parts, Mode(cur.llm_successes), cur.errors)
<1>1. /\ A \subseteq PartNames
      /\ cur.llm_successes = Cardinality(A)
      /\ \A name \in PartNames \ A : cur.parts[name] = DeterministicReview(item)[name]
      /\ {cur.errors[j] : j \in DOMAIN cur.errors} = PartNames \ A
  BY PartsInOrder DEF CurrentSound
<1> HIDE DEF A
<1>2. /\ Cardinality(A) \in Nat
      /\ Cardinality(A) = 3 <=> A = PartNames
      /\ Cardinality(A) = 0 <=> A = {}
  BY <1>1, ThreeParts, FS_Subset, FS_CardinalityType, FS_EmptySet
<1>3. /\ Mode(Cardinality(A)) = "llm" <=> PartNames \ A = {}
      /\ Mode(Cardinality(A)) = "deterministic_fallback" <=> A = {}
  BY <1>1, <1>2 DEF Mode
<1>4. /\ r.module = item.module /\ r.mode = Mode(Cardinality(A))
      /\ r.parts = cur.parts /\ r.errors = cur.errors
  BY <1>1 DEF ReviewOf
<1> HIDE DEF r
<1>5. ReviewSound(cs, asked, r, item)
  BY <1>1, <1>3, <1>4 DEF ReviewSound, A
<1>6. QED
  BY <1>5 DEF r
-----------------------------------------------------------------------------
(* All reviews.                                                            *)

CountedDetailed == Len(Detailed) \in Nat

\* Before and after a step there is a number of modules to review.
LEMMA DetailedCount == RankInv => CountedDetailed
<1>1. ASSUME RankInv
      PROVE  CountedDetailed
  BY <1>1, DetailedAre DEF CountedDetailed
<1>2. QED
  BY <1>1

\* The same after a step.
LEMMA DetailedCountNext == RankInv' => CountedDetailed'
BY DetailedCount, PTL

\* No review is made while modules are ranked.
LEMMA NoReviewYet ==
    ASSUME ReviewInv, RankInv', pc \in {"hotness", "rank"}, pc' # "done",
           UNCHANGED <<model, reviewing, cards>>
    PROVE  ReviewInv'
<1>1. part' = 0 /\ reviews' = <<>> /\ calls' = <<>> /\ cards' = cards
  BY DEF ReviewInv, reviewing
<1>2. DOMAIN cards' = {}
  BY <1>1 DEF ReviewInv
<1>3. Len(reviews') = 0 /\ DOMAIN reviews' = {} /\ DOMAIN calls' = {} /\ calls' \in Seq(Call)
  BY <1>1
<1>4. Listing(reviews')
  BY <1>1 DEF Listing
<1>5. Len(reviews') <= Len(Detailed)'
  BY <1>3, DetailedCountNext DEF CountedDetailed
<1>6. QED
  BY <1>1, <1>2, <1>3, <1>4, <1>5 DEF ReviewInv

\* The reviews begin with none.
LEMMA ReviewStarts ==
    ASSUME Init
    PROVE  ReviewInv
<1>1. pc = "hotness" /\ part = 0 /\ reviews = <<>> /\ calls = <<>> /\ DOMAIN cards = {}
  BY DEF Init
<1>2. Len(reviews) = 0 /\ DOMAIN reviews = {} /\ DOMAIN calls = {} /\ calls \in Seq(Call)
  BY <1>1
<1>3. Listing(reviews)
  BY <1>1 DEF Listing
<1>4. Len(reviews) <= Len(Detailed)
  BY <1>2, RankStarts, DetailedCount DEF CountedDetailed
<1>5. QED
  BY <1>1, <1>2, <1>3, <1>4 DEF ReviewInv

\* One more review is made.
LEMMA OneMoreReview ==
    ASSUME RankInv, ReviewInv, NEW r, Len(reviews) < Len(Detailed),
           ReviewSound(calls, model, r, Entry), reviews' = Append(reviews, r),
           pc = "review", pc' = pc, part' = 0,
           UNCHANGED <<model, inventory, calls, cards>>
    PROVE  ReviewInv'
<1>1. Detailed' = Detailed
  BY DEF Detailed
<1>2. /\ Len(reviews) \in Nat /\ DOMAIN reviews = 1..Len(reviews)
      /\ Listing(reviews') /\ Len(reviews') = Len(reviews) + 1
      /\ DOMAIN reviews' = 1..(Len(reviews) + 1)
      /\ \A i \in 1..Len(reviews) : reviews'[i] = reviews[i]
      /\ reviews'[Len(reviews) + 1] = r
  BY ListingGrows DEF ReviewInv
<1>3. Len(reviews') <= Len(Detailed)
  BY <1>2, DetailedCount DEF CountedDetailed
<1>4. \A i \in DOMAIN reviews' : ReviewSound(calls, model, reviews'[i], Detailed[i])
  <2>1. TAKE i \in DOMAIN reviews'
  <2>2. CASE i \in DOMAIN reviews
    BY <1>2, <2>2 DEF ReviewInv
  <2>3. CASE i = Len(reviews) + 1
    BY <1>2, <2>3 DEF Entry
  <2>4. QED
    BY <1>2, <2>2, <2>3
<1>5. \A k \in DOMAIN calls : \E i \in DOMAIN reviews' : calls[k].module = Detailed[i].module
  <2>1. TAKE k \in DOMAIN calls
  <2>2. CASE \E i \in DOMAIN reviews : calls[k].module = Detailed[i].module
    BY <1>2, <2>2
  <2>3. CASE calls[k].module = Entry.module
    <3>1. Len(reviews) + 1 \in DOMAIN reviews'
      BY <1>2
    <3>2. QED
      BY <2>3, <3>1 DEF Entry
  <2>4. QED
    BY <2>2, <2>3 DEF ReviewInv
<1>6. calls \in Seq(Call) /\ DOMAIN cards = {}
  BY DEF ReviewInv
<1>7. QED
  BY <1>1, <1>2, <1>3, <1>4, <1>5, <1>6 DEF ReviewInv

\* A part is asked for; the call may end the analysis.
LEMMA OnePartCalled ==
    ASSUME RankInv, ReviewInv, Calling, NEW outcome \in {"answered", "failed"},
           Called(outcome), UNCHANGED <<model, inventory, reviews, cards>>,
           \/ /\ pc' = pc /\ part' = part + 1
              /\ CurrentSound(calls', current', Entry, part + 1)
           \/ pc' = "crashed" /\ part' = part
    PROVE  ReviewInv'
<1>1. Detailed' = Detailed /\ Entry' = Entry
  BY DEF Detailed, Entry
<1>2. /\ part \in 1..3 /\ pc = "review" /\ model
      /\ Len(reviews) < Len(Detailed) /\ Listing(reviews)
  BY PartsInOrder DEF Calling, ReviewInv
<1> DEFINE m == Entry.module
           c == CallOf(m, Parts[part], outcome)
<1>3. m \in Nat /\ \A i \in DOMAIN reviews : Detailed[i].module # m
  BY <1>2, EntryIsNext DEF Rankable
<1>4. c \in Call /\ c.module = m
  <2>1. Parts[part] \in PartNames
    BY <1>2, PartsInOrder
  <2> HIDE DEF m
  <2>2. QED
    BY <1>3, <2>1, CallOfPart
<1>5. calls' = Append(calls, c)
  BY DEF Called, CallOf
<1> HIDE DEF c
<1>6. /\ calls' \in Seq(Call)
      /\ \A k \in DOMAIN calls' : \/ k \in DOMAIN calls /\ calls'[k] = calls[k]
                                  \/ calls'[k] = c
      /\ \A n : n # m => AnsweredIn(calls', n) = AnsweredIn(calls, n)
  <2>1. calls \in Seq(Call)
    BY DEF ReviewInv
  <2> HIDE DEF m
  <2>2. QED
    BY <1>4, <1>5, <2>1, OneMoreCall
<1>7. \A i \in DOMAIN reviews : ReviewSound(calls', model, reviews[i], Detailed[i])
  <2>1. TAKE i \in DOMAIN reviews
  <2>2. ReviewSound(calls, model, reviews[i], Detailed[i])
    BY DEF ReviewInv
  <2>3. AnsweredIn(calls', Detailed[i].module) = AnsweredIn(calls, Detailed[i].module)
    BY <1>3, <1>6
  <2>4. QED
    BY <2>2, <2>3, ReviewStays
<1>8. \A k \in DOMAIN calls' : \/ \E i \in DOMAIN reviews : calls'[k].module = Detailed[i].module
                               \/ calls'[k].module = m
  <2>1. \A k \in DOMAIN calls : \/ \E i \in DOMAIN reviews : calls[k].module = Detailed[i].module
                                \/ calls[k].module = m
    BY DEF ReviewInv
  <2> HIDE DEF m
  <2>2. QED
    BY <1>4, <1>6, <2>1
<1>9. /\ part' \in 1..4 /\ pc' \in {"review", "crashed"}
      /\ pc' = "review" => CurrentSound(calls', current', Entry, part')
  BY <1>2
<1>10. part' > 0
  BY <1>9
<1>11. DOMAIN cards = {} /\ Len(reviews) <= Len(Detailed)
  BY <1>2 DEF ReviewInv
<1>12. reviews' = reviews /\ cards' = cards /\ model' = model
  OBVIOUS
<1>13. /\ part' \in 0..4
       /\ ~ (pc' \in {"hotness", "rank"}) /\ pc' # "done"
  BY <1>9
<1>14. \A i \in DOMAIN reviews' : ReviewSound(calls', model', reviews'[i], Detailed'[i])
  BY <1>1, <1>7, <1>12
<1>15. \A k \in DOMAIN calls' :
          \/ \E i \in DOMAIN reviews' : calls'[k].module = Detailed'[i].module
          \/ part' > 0 /\ calls'[k].module = Entry'.module
  BY <1>1, <1>8, <1>10, <1>12
<1>16. part' > 0 /\ pc' = "review" => CurrentSound(calls', current', Entry', part')
  BY <1>1, <1>9
<1>17. /\ DOMAIN cards' = {} /\ Listing(reviews') /\ Len(reviews') <= Len(Detailed')
       /\ part' > 0 => /\ pc' \in {"review", "crashed"} /\ model'
                       /\ Len(reviews') < Len(Detailed')
  BY <1>1, <1>2, <1>9, <1>11, <1>12
<1>18. QED
  BY <1>6, <1>13, <1>14, <1>15, <1>16, <1>17 DEF ReviewInv

\* The cards are made from the reviews.
LEMMA CardsAreReviews ==
    ASSUME RankInv, ReviewInv, BuildCards
    PROVE  ReviewInv'
<1>1. /\ pc = "review" /\ part = 0 /\ Len(reviews) = Len(Detailed) /\ pc' = "done"
      /\ model' = model /\ inventory' = inventory /\ part' = part /\ calls' = calls
      /\ reviews' = reviews
  BY DEF BuildCards, input, ranking, reviewing
<1>2. Detailed' = Detailed
  BY <1>1 DEF Detailed
<1> DEFINE M == {Detailed[i].module : i \in DOMAIN Detailed}
           R == {reviews[i] : i \in DOMAIN reviews}
<1>3. cards' = [m \in M |-> CHOOSE r \in R : r.module = m]
  BY DEF BuildCards
<1>4. /\ Len(reviews) \in Nat /\ DOMAIN reviews = 1..Len(reviews)
      /\ DOMAIN Detailed = DOMAIN reviews
  BY <1>1, ListingGrows, DetailedAre DEF ReviewInv
<1>5. \A i \in DOMAIN reviews : reviews[i].module = Detailed[i].module
  BY DEF ReviewInv, ReviewSound
<1>6. \A i \in DOMAIN reviews : cards'[reviews[i].module] = reviews[i]
  <2>1. TAKE i \in DOMAIN reviews
  <2> DEFINE m == reviews[i].module
  <2>2. m \in M /\ reviews[i] \in R
    BY <1>4, <1>5
  <2>3. \A r \in R : r.module = m => r = reviews[i]
    <3>1. \A j \in DOMAIN reviews : reviews[j].module = m => j = i
      BY <1>4, <1>5, DetailedApart
    <3>2. QED
      BY <3>1
  <2>4. reviews[i].module = m
    OBVIOUS
  <2> HIDE DEF M, R, m
  <2>5. (CHOOSE r \in R : r.module = m) = reviews[i]
    BY <2>2, <2>3, <2>4
  <2>6. cards'[m] = reviews[i]
    BY <1>3, <2>2, <2>5
  <2>7. QED
    BY <2>6 DEF m
<1>7. DOMAIN cards' = M
  BY <1>3
<1>8. QED
  BY <1>1, <1>2, <1>6, <1>7 DEF ReviewInv

\* Every step keeps the reviews sound.
LEMMA ReviewStep ==
    ASSUME RankInv, RankInv', ReviewInv, [Next]_vars
    PROVE  ReviewInv'
<1>1. CASE CollectGitHotness \/ RankModule \/ WeightsRaise \/ SortInventory \/ EditWeights
  BY <1>1, NoReviewYet
     DEF CollectGitHotness, RankModule, WeightsRaise, SortInventory, EditWeights, input
<1>2. CASE ReviewByRules
  <2>1. /\ pc = "review" /\ part = 0 /\ Len(reviews) < Len(Detailed) /\ ~ model
        /\ pc' = pc /\ part' = part /\ model' = model /\ inventory' = inventory
        /\ calls' = calls /\ cards' = cards
    BY <1>2 DEF ReviewByRules, BetweenModules, input, ranking
  <2>2. reviews' = Append(reviews,
            ReviewOf(Entry, DeterministicReview(Entry), "deterministic_fallback", <<>>))
    BY <1>2 DEF ReviewByRules
  <2>3. ReviewSound(calls, model,
            ReviewOf(Entry, DeterministicReview(Entry), "deterministic_fallback", <<>>), Entry)
    BY <2>1, NotAskedYet, ReviewOfRules
  <2>4. QED
    BY <2>1, <2>2, <2>3, OneMoreReview
<1>3. CASE StartReview
  <2>1. /\ pc = "review" /\ part = 0 /\ Len(reviews) < Len(Detailed) /\ model
        /\ pc' = pc /\ part' = 1 /\ model' = model /\ inventory' = inventory
        /\ calls' = calls /\ cards' = cards /\ reviews' = reviews
        /\ current' = [parts |-> DeterministicReview(Entry), llm_successes |-> 0,
                       errors |-> <<>>]
    BY <1>3 DEF StartReview, BetweenModules, input, ranking
  <2>2. Detailed' = Detailed /\ Entry' = Entry
    BY <2>1 DEF Detailed, Entry
  <2>3. CurrentSound(calls, current', Entry, 1)
    BY <2>1, NotAskedYet, ReviewBegins
  <2>4. /\ \A i \in DOMAIN reviews : ReviewSound(calls, model, reviews[i], Detailed[i])
        /\ \A k \in DOMAIN calls :
              \E i \in DOMAIN reviews : calls[k].module = Detailed[i].module
        /\ calls \in Seq(Call) /\ DOMAIN cards = {} /\ Listing(reviews)
        /\ Len(reviews) <= Len(Detailed)
    <3>1. pc # "done" /\ ~ (part > 0)
      BY <2>1
    <3>2. QED
      BY <3>1 DEF ReviewInv
  <2>5. \A i \in DOMAIN reviews' : ReviewSound(calls', model', reviews'[i], Detailed'[i])
    BY <2>1, <2>2, <2>4
  <2>6. \A k \in DOMAIN calls' : \E i \in DOMAIN reviews' : calls'[k].module = Detailed'[i].module
    BY <2>1, <2>2, <2>4
  <2>7. CurrentSound(calls', current', Entry', part')
    BY <2>1, <2>2, <2>3
  <2>8. /\ part' \in 0..4 /\ pc' = "review" /\ model' /\ Len(reviews') < Len(Detailed')
        /\ calls' \in Seq(Call) /\ DOMAIN cards' = {} /\ Listing(reviews')
        /\ Len(reviews') <= Len(Detailed')
    BY <2>1, <2>2, <2>4
  <2>9. QED
    BY <2>5, <2>6, <2>7, <2>8 DEF ReviewInv
<1>4. ASSUME Calling
      PROVE  /\ part \in 1..3 /\ Entry.module \in Nat /\ calls \in Seq(Call)
             /\ CurrentSound(calls, current, Entry, part)
  <2>1. part \in 1..3 /\ pc = "review" /\ part > 0
    BY <1>4, PartsInOrder DEF Calling
  <2>2. Len(reviews) < Len(Detailed) /\ CurrentSound(calls, current, Entry, part)
        /\ calls \in Seq(Call)
    BY <2>1 DEF ReviewInv
  <2>3. QED
    BY <2>1, <2>2, EntryIsNext DEF Rankable
<1>5. CASE CallAnswered
  <2>1. /\ Calling /\ Called("answered") /\ pc' = pc /\ part' = part + 1
        /\ UNCHANGED <<model, inventory, reviews, cards>>
        /\ calls' = Append(calls, CallOf(Entry.module, Parts[part], "answered"))
    BY <1>5 DEF CallAnswered, Called, CallOf, input, ranking
  <2>2. PICK answer : current' = [current EXCEPT
              !.parts[Parts[part]] = SanitizeReview(Parts[part], answer, @),
              !.llm_successes = @ + 1]
    BY <1>5 DEF CallAnswered
  <2>3. CurrentSound(calls', current', Entry, part + 1)
    BY <1>4, <2>1, <2>2, PartAnswered
  <2>4. QED
    BY <2>1, <2>3, OnePartCalled
<1>6. CASE CallFails
  <2>1. /\ Calling /\ Called("failed") /\ pc' = pc /\ part' = part + 1
        /\ UNCHANGED <<model, inventory, reviews, cards>>
        /\ calls' = Append(calls, CallOf(Entry.module, Parts[part], "failed"))
        /\ current' = [current EXCEPT !.errors = Append(@, Parts[part])]
    BY <1>6 DEF CallFails, Called, CallOf, input, ranking
  <2>2. CurrentSound(calls', current', Entry, part + 1)
    BY <1>4, <2>1, PartFailed
  <2>3. QED
    BY <2>1, <2>2, OnePartCalled
<1>7. CASE CallRaises
  <2>1. /\ Calling /\ Called("failed") /\ pc' = "crashed" /\ part' = part
        /\ UNCHANGED <<model, inventory, reviews, cards>>
    BY <1>7 DEF CallRaises, input, ranking
  <2>2. QED
    BY <2>1, OnePartCalled
<1>8. CASE FinishReview
  <2>1. /\ pc = "review" /\ part = 4 /\ pc' = pc /\ part' = 0
        /\ UNCHANGED <<model, inventory, calls, cards>>
        /\ reviews' = Append(reviews,
               ReviewOf(Entry, current.parts, Mode(current.llm_successes), current.errors))
    <3>1. Len(Parts) + 1 = 4
      BY PartsInOrder
    <3>2. QED
      BY <1>8, <3>1 DEF FinishReview, input, ranking
  <2>2. Len(reviews) < Len(Detailed) /\ CurrentSound(calls, current, Entry, 4)
    BY <2>1 DEF ReviewInv
  <2>3. ReviewSound(calls, model,
            ReviewOf(Entry, current.parts, Mode(current.llm_successes), current.errors), Entry)
    BY <2>2, ReviewFinished
  <2>4. QED
    BY <2>1, <2>2, <2>3, OneMoreReview
<1>9. CASE BuildCards
  BY <1>9, CardsAreReviews
<1>10. CASE UNCHANGED vars
  <2>1. UNCHANGED <<pc, model, inventory, part, current, reviews, calls, cards>>
    BY <1>10 DEF vars, input, ranking, reviewing
  <2>2. Detailed' = Detailed /\ Entry' = Entry
    BY <2>1 DEF Detailed, Entry
  <2>3. QED
    BY <2>1, <2>2 DEF ReviewInv
<1>11. QED
  BY <1>1, <1>2, <1>3, <1>5, <1>6, <1>7, <1>8, <1>9, <1>10 DEF Next

\* The inductive invariant of the reviews.
LEMMA ReviewInvariant == Spec => [](RankInv /\ ReviewInv)
<1>1. Init => RankInv /\ ReviewInv
  BY RankStarts, ReviewStarts
<1>2. RankInv /\ ReviewInv /\ [Next]_vars => (RankInv /\ ReviewInv)'
  BY RankStep, ReviewStep
<1>3. QED
  BY <1>1, <1>2, PTL DEF Spec

\* The mode of every review, and of its card, says who wrote it.
THEOREM ModeIsTrue == Spec => []ModeTellsTheAuthor
<1>1. ASSUME RankInv, ReviewInv
      PROVE  ModeTellsTheAuthor
  <2>1. SUFFICES ASSUME NEW i \in DOMAIN reviews
                 PROVE  LET r == reviews[i]
                            answered == AnsweredFor(r.module)
                            silent == {"validator", "planner", "critic"} \ answered
                        IN  /\ r.mode = "llm" <=> silent = {}
                            /\ r.mode = "deterministic_fallback" <=> answered = {}
                            /\ \A name \in silent :
                                  r.parts[name] = DeterministicReview(ItemOf(r.module))[name]
                            /\ model => {r.errors[j] : j \in DOMAIN r.errors} = silent
                            /\ r.module \in DOMAIN cards => cards[r.module] = r
    BY DEF ModeTellsTheAuthor
  <2>2. i \in DOMAIN Detailed
    <3>1. Len(reviews) \in Nat /\ DOMAIN reviews = 1..Len(reviews)
      BY <1>1, ListingGrows DEF ReviewInv
    <3>2. /\ Len(Detailed) \in Nat /\ DOMAIN Detailed = 1..Len(Detailed)
          /\ Len(reviews) <= Len(Detailed)
      BY <1>1, DetailedAre DEF ReviewInv
    <3>3. QED
      BY <3>1, <3>2
  <2>3. ReviewSound(calls, model, reviews[i], Detailed[i])
    BY <1>1 DEF ReviewInv
  <2>4. ItemOf(Detailed[i].module) = Detailed[i]
    <3>1. PICK k \in DOMAIN inventory : Detailed[i] = inventory[k]
      BY <1>1, <2>2, DetailedApart
    <3>2. QED
      BY <1>1, <3>1, ItemOfDetailed
  <2>5. AnsweredFor(Detailed[i].module) = AnsweredIn(calls, Detailed[i].module)
    BY DEF AnsweredFor, AnsweredIn
  <2>6. reviews[i].module \in DOMAIN cards => cards[reviews[i].module] = reviews[i]
    <3>1. CASE pc = "done"
      BY <1>1, <3>1 DEF ReviewInv
    <3>2. CASE pc # "done"
      BY <1>1, <3>2 DEF ReviewInv
    <3>3. QED
      BY <3>1, <3>2
  <2>7. QED
    BY <2>3, <2>4, <2>5, <2>6 DEF ReviewSound, PartNames
<1>2. QED
  BY <1>1, ReviewInvariant, PTL
-----------------------------------------------------------------------------
(* Which modules get a card.                                               *)

\* An entry no less urgent than another in the sort key is so in priority and,
\* at the same priority, in score.
LEMMA NotLessUrgent ==
    ASSUME NEW a, Rankable(a), NEW b, Rankable(b), ~ MoreUrgent(b, a)
    PROVE  /\ PriorityOrder[a.priority] <= PriorityOrder[b.priority]
           /\ a.priority = b.priority => a.score >= b.score
<1>1. PriorityOrder["P0"] = 0 /\ PriorityOrder["P1"] = 1 /\ PriorityOrder["P2"] = 2
  BY DEF PriorityOrder
<1>2. /\ PriorityOrder[a.priority] \in Nat /\ PriorityOrder[b.priority] \in Nat
      /\ a.score \in Int /\ b.score \in Int
  BY <1>1 DEF Rankable
<1>3. QED
  BY <1>2 DEF MoreUrgent

\* The cards are as many as the modules reviewed.
LEMMA CardsAreCounted ==
    ASSUME RankInv
    PROVE  LET M == {Detailed[i].module : i \in DOMAIN Detailed}
           IN  IsFiniteSet(M) /\ Cardinality(M) = Len(Detailed)
<1> DEFINE n == Len(Detailed)
           M == {Detailed[i].module : i \in DOMAIN Detailed}
           f == [i \in 1..n |-> Detailed[i].module]
<1>1. n \in Nat /\ DOMAIN Detailed = 1..n
  BY DetailedAre
<1>2. \A i, j \in 1..n : Detailed[i].module = Detailed[j].module => i = j
  BY <1>1, DetailedApart
<1>3. f \in Bijection(1..n, M)
  BY <1>1, <1>2 DEF Bijection, Injection, Surjection, IsInjective
<1>4. ExistsBijection(1..n, M)
  BY <1>3 DEF ExistsBijection
<1> HIDE DEF n, M, f
<1>5. IsFiniteSet(M) /\ Cardinality(M) = n
  BY <1>1, <1>4, FS_NatBijection, FS_CountingElements
<1>6. QED
  BY <1>5 DEF n, M

\* Nobody without a card is more urgent than anyone with one.
THEOREM TheUrgentGetCards == Spec => []NobodyIsPassedOver
<1>1. ASSUME RankInv, ReviewInv
      PROVE  NobodyIsPassedOver
  <2>1. SUFFICES ASSUME pc = "done", NEW m \in ModulesOf(repo) \ DOMAIN cards
                 PROVE  /\ \A c \in DOMAIN cards :
                              /\ PriorityOrder[ItemOf(c).priority]
                                    <= PriorityOrder[ItemOf(m).priority]
                              /\ ItemOf(c).priority = ItemOf(m).priority =>
                                     ItemOf(c).score >= ItemOf(m).score
                        /\ (\E f \in DOMAIN findings : \E j \in DOMAIN findings[f].files :
                                /\ findings[f].severity = "high"
                                /\ findings[f].files[j] \in FilesOf(repo, m))
                           => /\ Cardinality(DOMAIN cards) = MaxDetailed
                              /\ \A c \in DOMAIN cards : ItemOf(c).priority = "P0"
    BY DEF NobodyIsPassedOver
  <2>2. /\ Unranked = {}
        /\ \A i, j \in DOMAIN inventory : i < j => ~ MoreUrgent(inventory[j], inventory[i])
        /\ DOMAIN cards = {Detailed[i].module : i \in DOMAIN Detailed}
    BY <1>1, <2>1 DEF RankInv, ReviewInv
  <2>3. PICK p : FirstPlaces(p)
    BY <1>1, DetailedAre
  <2>4. PICK k \in DOMAIN inventory : inventory[k].module = m
    BY <2>1, <2>2 DEF Unranked
  <2>5. ItemOf(m) = inventory[k] /\ Rankable(inventory[k])
    BY <1>1, <2>4, ItemOfDetailed, EntriesAreItems
  <2>6. \A i \in DOMAIN Detailed : p[i] # k
    BY <2>1, <2>2, <2>3, <2>4 DEF FirstPlaces
  <2>7. \/ inventory[k].priority = "P2"
        \/ Len(Detailed) = MaxDetailed /\ \A i \in DOMAIN Detailed : p[i] < k
    BY <2>3, <2>4, <2>6 DEF FirstPlaces
  <2>8. ASSUME NEW c \in DOMAIN cards
        PROVE  /\ PriorityOrder[ItemOf(c).priority] <= PriorityOrder[ItemOf(m).priority]
               /\ ItemOf(c).priority = ItemOf(m).priority => ItemOf(c).score >= ItemOf(m).score
               /\ Rankable(ItemOf(c))
    <3>1. PICK i \in DOMAIN Detailed : c = Detailed[i].module
      BY <2>2
    <3>2. /\ p[i] \in DOMAIN inventory /\ c = inventory[p[i]].module
          /\ inventory[p[i]].priority # "P2"
      BY <2>3, <3>1 DEF FirstPlaces
    <3>3. ItemOf(c) = inventory[p[i]] /\ Rankable(inventory[p[i]])
      BY <1>1, <3>2, ItemOfDetailed, EntriesAreItems
    <3>4. ~ MoreUrgent(inventory[k], inventory[p[i]])
      <4>1. CASE inventory[k].priority = "P2"
        <5>1. inventory[p[i]].priority \in {"P0", "P1"}
          BY <3>2, <3>3 DEF Rankable
        <5>2. QED
          BY <4>1, <5>1 DEF MoreUrgent, PriorityOrder
      <4>2. CASE p[i] < k
        BY <2>2, <2>4, <3>2, <4>2
      <4>3. QED
        BY <2>7, <4>1, <4>2
    <3>5. QED
      BY <2>5, <3>3, <3>4, NotLessUrgent
  <2>9. ASSUME NEW f \in DOMAIN findings, NEW j \in DOMAIN findings[f].files,
               findings[f].severity = "high", findings[f].files[j] \in FilesOf(repo, m)
        PROVE  /\ Cardinality(DOMAIN cards) = MaxDetailed
               /\ \A c \in DOMAIN cards : ItemOf(c).priority = "P0"
    <3>1. HighSeverity(repo, findings, m) # {}
      <4> DEFINE g == <<f, j>>
      <4>1. g[1] = f /\ g \in Related(repo, findings, m)
        BY <2>9 DEF Related
      <4> HIDE DEF g
      <4>2. g \in HighSeverity(repo, findings, m)
        BY <2>9, <4>1 DEF HighSeverity
      <4>3. QED
        BY <4>2
    <3>2. inventory[k].priority = "P0"
      BY <1>1, <2>4, <3>1, EntriesAreItems
    <3>3. Len(Detailed) = MaxDetailed
      BY <2>7, <3>2
    <3>4. Cardinality(DOMAIN cards) = MaxDetailed
      BY <1>1, <2>2, <3>3, CardsAreCounted
    <3>5. ASSUME NEW c \in DOMAIN cards
          PROVE  ItemOf(c).priority = "P0"
      <4>1. /\ Rankable(ItemOf(c))
            /\ PriorityOrder[ItemOf(c).priority] <= PriorityOrder["P0"]
        BY <2>5, <2>8, <3>2
      <4>2. QED
        BY <4>1 DEF Rankable, PriorityOrder
    <3>6. QED
      BY <3>4, <3>5
  <2>10. QED
    BY <2>8, <2>9
<1>2. QED
  BY <1>1, ReviewInvariant, PTL
=============================================================================
