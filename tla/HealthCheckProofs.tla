------------------------- MODULE HealthCheckProofs -------------------------
(***************************************************************************)
(* Proofs about the routing and the health check, for any configuration    *)
(* file, any environment, any number of edits of the registry and any      *)
(* outcome of the probes.                                                  *)
(***************************************************************************)
EXTENDS HealthCheck, SequenceTheorems, TLAPS

\* Every question names at least one variable.
LEMMA NamesOfType ==
    ASSUME config.base_url_env_aliases \in Seq(Names), config.base_url_env \in Names,
           NEW t
    PROVE  Len(NamesOf(t)) \in Nat \ {0}
<1> DEFINE base == <<config.base_url_env>> \o config.base_url_env_aliases
<1>1. Len(base) \in Nat \ {0}
  OBVIOUS
<1>2. \/ NamesOf(t) = base
      \/ \E x : NamesOf(t) = <<x>>
      \/ \E x, y : NamesOf(t) = <<x, y>>
  BY DEF NamesOf
<1>3. \A x, y : Len(<<x>>) = 1 /\ Len(<<x, y>>) = 2
  OBVIOUS
<1> HIDE DEF base
<1>4. CASE NamesOf(t) = base
  BY <1>1, <1>4
<1>5. CASE \E x : NamesOf(t) = <<x>>
  BY <1>3, <1>5
<1>6. CASE \E x, y : NamesOf(t) = <<x, y>>
  BY <1>3, <1>6
<1>7. QED
  BY <1>2, <1>4, <1>5, <1>6
-----------------------------------------------------------------------------
(* The environment.                                                        *)

\* The variable was looked for and is not set.
NotSet(name) == name \in DOMAIN cache /\ cache[name] = Absent

\* The answer to a question is that of its first variable that is set, or of
\* the last one when none is; all of them are in the cache.
AnswerSound(t) ==
    \E i \in 1..Len(NamesOf(t)) :
        /\ \A j \in 1..(i - 1) : NotSet(NamesOf(t)[j])
        /\ NamesOf(t)[i] \in DOMAIN cache
        /\ answers[t] = cache[NamesOf(t)[i]]
        /\ answers[t] # Absent \/ i = Len(NamesOf(t))

\* The configuration names variables.
ConfigSound ==
    config.base_url_env \in Names /\ config.base_url_env_aliases \in Seq(Names)

\* Nothing is asked before the file is loaded, every answer comes from the
\* cache, and so does the absence of the names that the question at hand has
\* gone through.
RoutingInv ==
    /\ configFile \in ConfigFiles
    /\ ConfigSound
    /\ pc = "config" => Answered = {} /\ missed = 0
    /\ \A t \in Answered : AnswerSound(t)
    /\ missed \in Nat /\ missed < Len(NamesOf(Topic))
    /\ \A j \in 1..missed : NotSet(NamesOf(Topic)[j])

\* What is in the cache stays there.
CacheGrows ==
    DOMAIN cache \subseteq DOMAIN cache' /\ \A n \in DOMAIN cache : cache'[n] = cache[n]

\* A name that has just been found, or found to be missing, answers the
\* question or leaves it with one name less.
LEMMA ConcludeKeeps ==
    ASSUME RoutingInv, pc # "config", NEW value, Conclude(value), CacheGrows,
           Name \in DOMAIN cache', cache'[Name] = value,
           UNCHANGED <<configFile, config, pc>>
    PROVE  RoutingInv'
<1> USE DEF RoutingInv
<1>1. \A t : NamesOf(t)' = NamesOf(t) /\ Len(NamesOf(t)) \in Nat \ {0}
  BY NamesOfType DEF NamesOf, ConfigSound
<1>2. \A n : NotSet(n) => NotSet(n)'
  BY DEF NotSet, CacheGrows
<1>3. \A t \in Answered : answers'[t] = answers[t] => AnswerSound(t)'
  BY <1>1, <1>2 DEF AnswerSound, CacheGrows
<1>4. CASE value # Absent \/ missed + 1 = Len(NamesOf(Topic))
  <2>1. /\ answers' = [t \in Answered \cup {Topic} |-> IF t = Topic THEN value ELSE answers[t]]
        /\ asked' = asked + 1
        /\ missed' = 0
    BY <1>4 DEF Conclude, Answered
  <2>2. ASSUME NEW t, t = Topic
        PROVE  AnswerSound(t)'
    <3>1. missed + 1 \in 1..Len(NamesOf(t)) /\ NamesOf(t)[missed + 1] = Name
      BY <1>1, <2>2 DEF Name
    <3>2. \A j \in 1..((missed + 1) - 1) : NotSet(NamesOf(t)[j])
      BY <2>2
    <3>3. \A j \in 1..((missed + 1) - 1) : NotSet(NamesOf(t)[j])'
      BY <1>1, <1>2, <3>2 DEF NotSet
    <3>4. answers'[t] = value
      BY <2>1, <2>2
    <3>5. QED
      BY <1>1, <1>4, <2>2, <3>1, <3>3, <3>4 DEF AnswerSound
  <2>3. \A t \in Answered' : AnswerSound(t)'
    BY <1>3, <2>1, <2>2 DEF Answered
  <2>4. QED
    BY <1>1, <2>1, <2>3 DEF ConfigSound
<1>5. CASE ~ (value # Absent \/ missed + 1 = Len(NamesOf(Topic)))
  <2>1. missed' = missed + 1 /\ UNCHANGED <<asked, answers>>
    BY <1>5 DEF Conclude
  <2>2. Topic' = Topic /\ missed' < Len(NamesOf(Topic)') /\ missed' \in Nat
    BY <1>1, <1>5, <2>1 DEF Topic
  <2>3. \A j \in 1..missed' : NotSet(NamesOf(Topic)[j])'
    BY <1>1, <1>2, <1>5, <2>1, <2>2 DEF NotSet, Name
  <2>4. QED
    BY <1>1, <1>3, <2>1, <2>2, <2>3 DEF ConfigSound, Answered
<1>6. QED
  BY <1>4, <1>5

\* The default configuration and every loaded one name variables.
LEMMA ConfigTypes ==
    /\ DefaultConfig.base_url_env \in Names
    /\ DefaultConfig.base_url_env_aliases \in Seq(Names)
    /\ \A file \in ConfigFiles :
          /\ LoadedConfig(file).base_url_env \in Names
          /\ LoadedConfig(file).base_url_env_aliases \in Seq(Names)
<1>1. /\ DefaultConfig.base_url_env \in Names
      /\ DefaultConfig.base_url_env_aliases \in Seq(Names)
  BY RoutingAssumption DEF DefaultConfig
<1>2. ASSUME NEW file \in ConfigFiles
      PROVE  /\ LoadedConfig(file).base_url_env \in Names
             /\ LoadedConfig(file).base_url_env_aliases \in Seq(Names)
  <2>1. /\ file.base_url_env \in Names \cup {Junk}
        /\ file.base_url_env_aliases \in Seq(Names) \cup {Junk}
    BY RoutingAssumption DEF ConfigFile
  <2>2. CASE file.kind # "object"
    BY <1>1, <2>2 DEF LoadedConfig
  <2>3. CASE file.kind = "object"
    BY <1>1, <2>1, <2>3 DEF LoadedConfig, Pick, PickList
  <2>4. QED
    BY <2>2, <2>3
<1>3. QED
  BY <1>1, <1>2

\* The program starts with nothing asked.
LEMMA RoutingInitial ==
    ASSUME Init
    PROVE  RoutingInv
<1>1. ConfigSound /\ configFile \in ConfigFiles
  BY ConfigTypes DEF Init, RoutingInit, ConfigSound
<1>2. Len(NamesOf(Topic)) \in Nat \ {0}
  BY <1>1, NamesOfType DEF ConfigSound
<1>3. QED
  BY <1>1, <1>2 DEF Init, RoutingInit, RoutingInv, Answered

\* Every question names a variable after a step, too.
LEMMA NamesOfTypeNext ==
    ConfigSound' => (\A t : Len(NamesOf(t)) \in Nat \ {0})'
<1>1. ConfigSound => \A t : Len(NamesOf(t)) \in Nat \ {0}
  BY NamesOfType DEF ConfigSound
<1>2. QED
  BY <1>1, PTL

\* A step that touches neither the questions nor the cache keeps the invariant.
LEMMA RoutingUntouched ==
    ASSUME RoutingInv, UNCHANGED <<configFile, config, cache, question>>,
           pc' = "config" => pc = "config"
    PROVE  RoutingInv'
<1>1. \A t : NamesOf(t)' = NamesOf(t)
  BY DEF NamesOf
<1>2. \A n : NotSet(n) => NotSet(n)'
  BY DEF NotSet
<1>3. /\ UNCHANGED <<configFile, config, cache, asked, answers, missed, Answered>>
      /\ Topic' = Topic
  BY DEF question, Answered, Topic
<1>4. \A t : AnswerSound(t) => AnswerSound(t)'
  BY <1>1, <1>2, <1>3 DEF AnswerSound
<1>5. \A t \in Answered' : AnswerSound(t)'
  BY <1>3, <1>4 DEF RoutingInv
<1>6. NamesOf(Topic)' = NamesOf(Topic)
  BY <1>3 DEF NamesOf
<1>7. \A j \in 1..missed' : NotSet(NamesOf(Topic)[j])'
  BY <1>2, <1>3, <1>6 DEF RoutingInv, NotSet
<1>8. QED
  BY <1>3, <1>5, <1>6, <1>7 DEF RoutingInv, ConfigSound

\* Every step keeps it; the registry is edited behind the back of the cache.
LEMMA RoutingStep ==
    ASSUME RoutingInv, [Next]_vars
    PROVE  RoutingInv'
<1>1. ASSUME LoadConfig
      PROVE  RoutingInv'
  <2>1. ConfigSound' /\ configFile' \in ConfigFiles
    BY <1>1, ConfigTypes DEF LoadConfig, ConfigSound, environment, RoutingInv
  <2>2. Len(NamesOf(Topic))' \in Nat \ {0}
    BY <2>1, NamesOfTypeNext
  <2>3. Answered' = {} /\ missed' = 0
    BY <1>1 DEF LoadConfig, RoutingInv, question, Answered
  <2>4. QED
    BY <2>1, <2>2, <2>3 DEF RoutingInv
<1>2. ASSUME pc = "routing", LookUpCached, UNCHANGED pc
      PROVE  RoutingInv'
  <2>1. CacheGrows
    BY <1>2 DEF LookUpCached, CacheGrows
  <2>2. QED
    BY <1>2, <2>1, ConcludeKeeps DEF LookUpCached, environment
<1>3. ASSUME pc = "routing", UNCHANGED <<configFile, config, pc>>, NEW value, Remember(value),
             Name \notin DOMAIN cache
      PROVE  RoutingInv'
  <2>1. CacheGrows /\ Name \in DOMAIN cache' /\ cache'[Name] = value
    BY <1>3 DEF Remember, CacheGrows
  <2>2. QED
    BY <1>3, <2>1, ConcludeKeeps DEF Remember
<1>4. ASSUME pc = "routing", ReadProcess, UNCHANGED pc
      PROVE  RoutingInv'
  BY <1>3, <1>4, RoutingUntouched DEF ReadProcess, environment
<1>5. ASSUME pc = "routing", ReadRegistry, UNCHANGED pc
      PROVE  RoutingInv'
  BY <1>3, <1>5, RoutingUntouched DEF ReadRegistry, environment
<1>6. ASSUME pc = "routing", EditRegistry, UNCHANGED pc
      PROVE  RoutingInv'
  BY <1>6, RoutingUntouched DEF EditRegistry
<1>7. ASSUME LoadConfigRaises \/ StartRoles \/ SkipRole \/ RefuseBlankModel \/ ProbeModel
                \/ ReuseProbe \/ ProbeRaises \/ Summarise
      PROVE  RoutingInv'
  <2>1. UNCHANGED routingVars /\ (pc' = "config" => pc = "config")
    BY <1>7 DEF LoadConfigRaises, StartRoles, SkipRole, RefuseBlankModel, ProbeModel,
                ReuseProbe, ProbeRaises, Summarise, More
  <2>2. QED
    BY <2>1, RoutingUntouched DEF routingVars, environment
<1>8. CASE UNCHANGED vars
  BY <1>8, RoutingUntouched DEF vars, routingVars, environment
<1>9. QED
  BY <1>1, <1>2, <1>4, <1>5, <1>6, <1>7, <1>8 DEF Next, ResolveRouting, Resolve

\* Sound answers are those of one environment.
LEMMA SoundAnswersAgree ==
    ASSUME RoutingInv
    PROVE  OneEnvironment
<1>1. \A t : Len(NamesOf(t)) \in Nat \ {0}
  BY NamesOfType DEF RoutingInv, ConfigSound
<1>2. ASSUME NEW s \in Answered, NEW t \in Answered, NamesOf(s) = NamesOf(t)
      PROVE  answers[s] = answers[t]
  <2>1. PICK i \in 1..Len(NamesOf(t)) :
            /\ \A j \in 1..(i - 1) : NotSet(NamesOf(t)[j])
            /\ answers[s] = cache[NamesOf(t)[i]]
            /\ answers[s] # Absent \/ i = Len(NamesOf(t))
    BY <1>2 DEF RoutingInv, AnswerSound
  <2>2. PICK k \in 1..Len(NamesOf(t)) :
            /\ \A j \in 1..(k - 1) : NotSet(NamesOf(t)[j])
            /\ answers[t] = cache[NamesOf(t)[k]]
            /\ answers[t] # Absent \/ k = Len(NamesOf(t))
    BY DEF RoutingInv, AnswerSound
  <2>3. CASE i = k
    BY <2>1, <2>2, <2>3
  <2>4. CASE i < k
    BY <1>1, <2>1, <2>2, <2>4 DEF NotSet
  <2>5. CASE k < i
    BY <1>1, <2>1, <2>2, <2>5 DEF NotSet
  <2>6. QED
    BY <1>1, <2>3, <2>4, <2>5
<1>3. ASSUME NEW s \in Answered, NEW t \in Answered, NamesOf(t) = <<NamesOf(s)[1]>>,
             answers[t] # Absent
      PROVE  answers[s] = answers[t]
  <2>1. Len(NamesOf(t)) = 1 /\ NamesOf(t)[1] = NamesOf(s)[1]
    BY <1>3
  <2>2. answers[t] = cache[NamesOf(s)[1]]
    BY <2>1 DEF RoutingInv, AnswerSound
  <2>3. PICK i \in 1..Len(NamesOf(s)) :
            /\ \A j \in 1..(i - 1) : NotSet(NamesOf(s)[j])
            /\ answers[s] = cache[NamesOf(s)[i]]
    BY DEF RoutingInv, AnswerSound
  <2>4. i = 1
    BY <1>1, <1>3, <2>2, <2>3 DEF NotSet
  <2>5. QED
    BY <2>2, <2>3, <2>4
<1>4. QED
  BY <1>2, <1>3 DEF OneEnvironment

\* All answers one process ever gets are those of one environment, whatever is
\* edited while it asks.
THEOREM RoutingSeesOneEnvironment == Spec => []OneEnvironment
<1>1. Init => RoutingInv
  BY RoutingInitial
<1>2. RoutingInv /\ [Next]_vars => RoutingInv'
  BY RoutingStep
<1>3. RoutingInv => OneEnvironment
  BY SoundAnswersAgree
<1>4. QED
  BY <1>1, <1>2, <1>3, PTL DEF Spec
-----------------------------------------------------------------------------
(* The probes.                                                             *)

\* The result of a role: what the way through the loop for its model gives.
RoleSound(i) ==
    /\ roles[i].checked = Live
    /\ roles[i].status = IF ~ Live THEN "skipped"
                         ELSE IF RoutedTo(i) \in BlankValues THEN "failed"
                         ELSE probes[RoutedTo(i)]
    /\ Live /\ RoutedTo(i) \notin BlankValues => RoutedTo(i) \in DOMAIN probes
    /\ roles[i].cached <=> /\ RoutedTo(i) \in DOMAIN probes
                           /\ \E j \in 1..(i - 1) : RoutedTo(j) = RoutedTo(i)

Results == [status : {"skipped", "failed", "passed"}, checked : BOOLEAN, cached : BOOLEAN]

\* Nothing happens before the routing is known; then every probe is in the
\* cache, which only holds models that can be probed.
ProbeInv ==
    /\ roles \in Seq(Results)
    /\ \E S : probed \in Seq(S)
    /\ probes \in [DOMAIN probes -> {"passed", "failed"}]
    /\ pc \in {"config", "routing"} => roles = <<>> /\ probed = <<>> /\ DOMAIN probes = {}
    /\ pc = "roles" => \A i \in DOMAIN probed : probed[i] \in DOMAIN probes
    /\ \A m \in DOMAIN probes : Live /\ m \notin BlankValues
    /\ \A i \in DOMAIN roles : RoleSound(i)
    /\ OneProbePerModel

\* A sequence with one more element.
LEMMA AppendOne ==
    ASSUME NEW S, NEW s \in Seq(S), NEW x
    PROVE  /\ Append(s, x) \in Seq(S \cup {x})
           /\ DOMAIN Append(s, x) = DOMAIN s \cup {Len(s) + 1}
           /\ \A i \in DOMAIN s : Append(s, x)[i] = s[i]
           /\ Append(s, x)[Len(s) + 1] = x
<1>1. s \in Seq(S \cup {x})
  OBVIOUS
<1>2. QED
  BY <1>1

\* The program starts without results.
LEMMA ProbeInitial ==
    ASSUME Init
    PROVE  ProbeInv
<1>1. probed \in Seq({})
  BY DEF Init
<1>2. QED
  BY <1>1 DEF Init, ProbeInv, OneProbePerModel

\* Where the routing is known it does not change any more.
RoutingKept == UNCHANGED <<config, answers>>

\* What holds of the routing survives a step that leaves the routing alone.
LEMMA RoutedAlike ==
    ASSUME RoutingKept
    PROVE  /\ \A i : RoutedTo(i)' = RoutedTo(i)
           /\ Live' = Live
BY DEF RoutingKept, RoutedTo, ModelOf, FirstOf, Live, Flag, FlagOn, Configured, Client

\* One more result that is sound by itself keeps the others: a new probe is of
\* a model that no earlier role has.
LEMMA RoleAppended ==
    ASSUME ProbeInv, RoutingKept, NEW r \in Results, roles' = Append(roles, r),
           \A m \in DOMAIN probes : m \in DOMAIN probes' /\ probes'[m] = probes[m],
           \A m \in DOMAIN probes' : Live /\ m \notin BlankValues,
           NEW k, k = Len(roles) + 1, RoleSound(k)'
    PROVE  roles' \in Seq(Results) /\ \A i \in DOMAIN roles' : RoleSound(i)'
<1>1. /\ roles' \in Seq(Results)
      /\ DOMAIN roles' = DOMAIN roles \cup {k}
      /\ \A i \in DOMAIN roles : roles'[i] = roles[i]
  BY AppendOne DEF ProbeInv
<1>2. (\A i : RoutedTo(i)' = RoutedTo(i)) /\ Live' = Live
  BY RoutedAlike
<1>3. ASSUME NEW i \in DOMAIN roles
      PROVE  RoleSound(i)'
  <2>1. RoleSound(i)
    BY DEF ProbeInv
  <2>2. RoutedTo(i) \in DOMAIN probes' <=> RoutedTo(i) \in DOMAIN probes
    BY <2>1 DEF RoleSound
  <2>3. QED
    BY <1>1, <1>2, <2>1, <2>2 DEF RoleSound
<1>4. QED
  BY <1>1, <1>3

\* A role without a probe of its own is sound, and so is one that is probed.
LEMMA NewRoleSound ==
    ASSUME ProbeInv, RoutingKept, NEW r \in Results, roles' = Append(roles, r),
           \A m \in DOMAIN probes' : Live /\ m \notin BlankValues,
           NEW k, k = Len(roles) + 1,
           r.checked = Live,
           r.status = IF ~ Live THEN "skipped"
                      ELSE IF RoutedTo(k) \in BlankValues THEN "failed"
                      ELSE probes'[RoutedTo(k)],
           Live /\ RoutedTo(k) \notin BlankValues =>
               RoutedTo(k) \in DOMAIN probes' /\ r.cached = (RoutedTo(k) \in CheckedModels),
           ~ Live \/ RoutedTo(k) \in BlankValues => ~ r.cached
    PROVE  RoleSound(k)'
<1>1. roles'[k] = r /\ \A i \in DOMAIN roles : roles'[i] = roles[i]
  BY AppendOne DEF ProbeInv
<1>2. (\A i : RoutedTo(i)' = RoutedTo(i)) /\ Live' = Live
  BY RoutedAlike
<1>3. ASSUME RoutedTo(k) \in DOMAIN probes', NEW j \in 1..(k - 1), RoutedTo(j) = RoutedTo(k)
      PROVE  r.cached
  <2>1. j \in DOMAIN roles /\ Live /\ RoutedTo(k) \notin BlankValues
    BY <1>3 DEF ProbeInv
  <2>2. roles[j].checked
    BY <2>1 DEF ProbeInv, RoleSound
  <2>3. RoutedTo(k) \in CheckedModels
    BY <1>3, <2>1, <2>2 DEF CheckedModels
  <2>4. QED
    BY <2>1, <2>3
<1>4. ASSUME r.cached
      PROVE  /\ RoutedTo(k) \in DOMAIN probes'
             /\ \E j \in 1..(k - 1) : RoutedTo(j) = RoutedTo(k)
  <2>1. RoutedTo(k) \in DOMAIN probes' /\ RoutedTo(k) \in CheckedModels
    BY <1>4
  <2>2. PICK j \in DOMAIN roles : RoutedTo(j) = RoutedTo(k)
    BY <2>1 DEF CheckedModels
  <2>3. j \in 1..(k - 1)
    BY DEF ProbeInv
  <2>4. QED
    BY <2>1, <2>2, <2>3
<1>5. QED
  BY <1>1, <1>2, <1>3, <1>4 DEF RoleSound

\* Every step keeps the invariant.
LEMMA ProbeStep ==
    ASSUME ProbeInv, [Next]_vars
    PROVE  ProbeInv'
<1>1. ASSUME LoadConfig \/ LoadConfigRaises \/ ResolveRouting
      PROVE  ProbeInv'
  <2>1. UNCHANGED health /\ roles = <<>> /\ probed = <<>> /\ DOMAIN probes = {}
    BY <1>1 DEF LoadConfig, LoadConfigRaises, ResolveRouting, ProbeInv
  <2>2. pc' # "roles"
    BY <1>1 DEF LoadConfig, LoadConfigRaises, ResolveRouting
  <2>3. QED
    BY <2>1, <2>2 DEF ProbeInv, health, OneProbePerModel
<1>2. ASSUME StartRoles
      PROVE  ProbeInv'
  <2>1. UNCHANGED health /\ roles = <<>> /\ probed = <<>> /\ DOMAIN probes = {} /\ pc' = "roles"
    BY <1>2 DEF StartRoles, ProbeInv
  <2>2. QED
    BY <2>1 DEF ProbeInv, health, OneProbePerModel
<1>3. ASSUME RoutingKept, UNCHANGED <<roles, probes, probed>>,
             pc' \in {"config", "routing", "roles"} => pc' = pc
      PROVE  ProbeInv'
  <2>1. (\A i : RoutedTo(i)' = RoutedTo(i)) /\ Live' = Live
    BY <1>3, RoutedAlike
  <2>2. \A i \in DOMAIN roles : RoleSound(i)'
    BY <1>3, <2>1 DEF ProbeInv, RoleSound
  <2>3. QED
    BY <1>3, <2>1, <2>2 DEF ProbeInv, OneProbePerModel
<1>4. ASSUME RoutingKept, More, pc' = pc, UNCHANGED <<probes, probed>>, NEW r \in Results,
             roles' = Append(roles, r), r.checked = Live,
             r.status = IF ~ Live THEN "skipped"
                        ELSE IF Model \in BlankValues THEN "failed" ELSE probes[Model],
             Probing => Model \in DOMAIN probes /\ r.cached = (Model \in CheckedModels),
             ~ Probing => ~ r.cached
      PROVE  ProbeInv'
  <2>1. /\ \A m \in DOMAIN probes : m \in DOMAIN probes' /\ probes'[m] = probes[m]
        /\ \A m \in DOMAIN probes' : Live /\ m \notin BlankValues
    BY <1>4 DEF ProbeInv
  <2>2. PICK k : k = Len(roles) + 1
    OBVIOUS
  <2>3. RoleSound(k)'
    BY <1>4, <2>1, <2>2, NewRoleSound DEF Model, Probing
  <2>4. roles' \in Seq(Results) /\ \A i \in DOMAIN roles' : RoleSound(i)'
    BY <1>4, <2>1, <2>2, <2>3, RoleAppended
  <2>5. Live' = Live
    BY <1>4, RoutedAlike
  <2>6. QED
    BY <1>4, <2>4, <2>5 DEF ProbeInv, OneProbePerModel, More
<1>5. ASSUME SkipRole
      PROVE  ProbeInv'
  <2>1. Skipped \in Results /\ Skipped.checked = FALSE /\ Skipped.status = "skipped"
          /\ ~ Skipped.cached
    BY DEF Skipped, Results
  <2>2. /\ RoutingKept /\ More /\ pc' = pc /\ UNCHANGED <<probes, probed>>
        /\ roles' = Append(roles, Skipped) /\ Live = FALSE
    BY <1>5 DEF SkipRole, RoutingKept, routingVars, question, Live
  <2>3. QED
    BY <1>4, <2>1, <2>2 DEF Probing
<1>6. ASSUME RefuseBlankModel
      PROVE  ProbeInv'
  BY <1>4, <1>6 DEF RefuseBlankModel, RoutingKept, routingVars, question, NoModel, Results, Probing
<1>7. ASSUME ReuseProbe
      PROVE  ProbeInv'
  <2>1. Checked(probes[Model]) \in Results
    BY <1>7 DEF ReuseProbe, ProbeInv, Checked, Results
  <2>2. QED
    BY <1>4, <1>7, <2>1 DEF ReuseProbe, RoutingKept, routingVars, question, Checked, Probing
<1>8. ASSUME ProbeModel
      PROVE  ProbeInv'
  <2>1. PICK verdict \in {"passed", "failed"} :
            /\ probes' = [m \in DOMAIN probes \cup {Model} |->
                             IF m = Model THEN verdict ELSE probes[m]]
            /\ roles' = Append(roles, Checked(verdict))
    BY <1>8 DEF ProbeModel
  <2>2. Checked(verdict) \in Results /\ Checked(verdict).checked = TRUE
          /\ Checked(verdict).status = verdict
          /\ Checked(verdict).cached = (Model \in CheckedModels)
    BY DEF Checked, Results
  <2>3. /\ \A m \in DOMAIN probes : m \in DOMAIN probes' /\ probes'[m] = probes[m]
        /\ \A m \in DOMAIN probes' : Live /\ m \notin BlankValues
        /\ Model \in DOMAIN probes' /\ probes'[Model] = verdict
        /\ probes' \in [DOMAIN probes' -> {"passed", "failed"}]
    BY <1>8, <2>1 DEF ProbeInv, ProbeModel, Probing
  <2>4. RoutingKept /\ pc = "roles" /\ pc' = "roles" /\ probed' = Append(probed, Model)
          /\ Model \notin DOMAIN probes /\ Live /\ Model \notin BlankValues
    BY <1>8 DEF ProbeModel, RoutingKept, routingVars, question, More, Probing
  <2>5. PICK k : k = Len(roles) + 1
    OBVIOUS
  <2>6. RoleSound(k)'
    BY <2>1, <2>2, <2>3, <2>4, <2>5, NewRoleSound DEF Model
  <2>7. roles' \in Seq(Results) /\ \A i \in DOMAIN roles' : RoleSound(i)'
    BY <2>1, <2>2, <2>3, <2>4, <2>5, <2>6, RoleAppended
  <2>8. PICK S : probed \in Seq(S)
    BY DEF ProbeInv
  <2>9. /\ probed' \in Seq(S \cup {Model})
        /\ DOMAIN probed' = DOMAIN probed \cup {Len(probed) + 1}
        /\ \A i \in DOMAIN probed : probed'[i] = probed[i]
        /\ probed'[Len(probed) + 1] = Model
    BY <2>4, <2>8, AppendOne
  <2>10. (\A i \in DOMAIN probed' : probed'[i] \in DOMAIN probes') /\ OneProbePerModel'
    BY <2>3, <2>4, <2>9 DEF ProbeInv, OneProbePerModel
  <2>11. Live' = Live
    BY <2>4, RoutedAlike
  <2>12. QED
    BY <2>3, <2>4, <2>7, <2>9, <2>10, <2>11 DEF ProbeInv
<1>9. ASSUME ProbeRaises
      PROVE  ProbeInv'
  <2>1. /\ RoutingKept /\ UNCHANGED <<roles, probes>> /\ pc = "roles" /\ pc' = "crashed"
        /\ probed' = Append(probed, Model) /\ Model \notin DOMAIN probes
    BY <1>9 DEF ProbeRaises, RoutingKept, routingVars, question, More
  <2>2. PICK S : probed \in Seq(S)
    BY DEF ProbeInv
  <2>3. /\ probed' \in Seq(S \cup {Model})
        /\ DOMAIN probed' = DOMAIN probed \cup {Len(probed) + 1}
        /\ \A i \in DOMAIN probed : probed'[i] = probed[i]
        /\ probed'[Len(probed) + 1] = Model
    BY <2>1, <2>2, AppendOne
  <2>4. OneProbePerModel'
    BY <2>1, <2>3 DEF ProbeInv, OneProbePerModel
  <2>5. (\A i : RoutedTo(i)' = RoutedTo(i)) /\ Live' = Live
    BY <2>1, RoutedAlike
  <2>6. \A i \in DOMAIN roles : RoleSound(i)'
    BY <2>1, <2>5 DEF ProbeInv, RoleSound
  <2>7. QED
    BY <2>1, <2>3, <2>4, <2>5, <2>6 DEF ProbeInv
<1>10. ASSUME Summarise \/ UNCHANGED vars
      PROVE  ProbeInv'
  BY <1>3, <1>10 DEF Summarise, vars, health, routingVars, question, RoutingKept
<1>11. QED
  BY <1>1, <1>2, <1>5, <1>6, <1>7, <1>8, <1>9, <1>10 DEF Next

\* The invariant holds throughout.
LEMMA ProbeInvariant == Spec => []ProbeInv
<1>1. Init => ProbeInv
  BY ProbeInitial
<1>2. ProbeInv /\ [Next]_vars => ProbeInv'
  BY ProbeStep
<1>3. QED
  BY <1>1, <1>2, PTL DEF Spec

\* However many roles share a model, it is asked once.
THEOREM ModelsAreProbedOnce == Spec => []OneProbePerModel
<1>1. ProbeInv => OneProbePerModel
  BY DEF ProbeInv
<1>2. QED
  BY <1>1, ProbeInvariant, PTL

\* Roles that share a model share its verdict, and those after the first one say
\* so, and no others.
THEOREM RolesShareVerdicts == Spec => []VerdictsAreShared
<1>1. ASSUME ProbeInv
      PROVE  VerdictsAreShared
  <2>1. ASSUME NEW j \in DOMAIN roles
        PROVE  /\ \A i \in 1..(j - 1) :
                     RoutedTo(i) = RoutedTo(j) => roles[i].status = roles[j].status
               /\ roles[j].cached <=> /\ RoutedTo(j) \in DOMAIN probes
                                      /\ \E i \in 1..(j - 1) : RoutedTo(i) = RoutedTo(j)
    <3>1. RoleSound(j) /\ \A i \in 1..(j - 1) : RoleSound(i)
      BY <1>1 DEF ProbeInv
    <3>2. QED
      BY <3>1 DEF RoleSound
  <2>2. QED
    BY <2>1 DEF VerdictsAreShared
<1>2. QED
  BY <1>1, ProbeInvariant, PTL
-----------------------------------------------------------------------------
(* The questions and what the answers decide.                              *)

Elements(s) == {s[i] : i \in DOMAIN s}
Listing(s) == s \in Seq(Elements(s))

\* What two sequences hold, their concatenation holds.
LEMMA ElementsOfBoth ==
    ASSUME NEW s, Listing(s), NEW t, Listing(t)
    PROVE  /\ Listing(s \o t)
           /\ Len(s \o t) = Len(s) + Len(t)
           /\ Elements(s \o t) = Elements(s) \cup Elements(t)
<1> DEFINE S == Elements(s) \cup Elements(t)
<1>0. s \in Seq(S) /\ t \in Seq(S)
  BY DEF Listing
<1> HIDE DEF S
<1>1. /\ s \o t \in Seq(S)
      /\ Len(s \o t) = Len(s) + Len(t)
      /\ DOMAIN (s \o t) = 1..(Len(s) + Len(t))
      /\ \A i \in 1..Len(s) : (s \o t)[i] = s[i]
      /\ \A i \in 1..Len(t) : (s \o t)[Len(s) + i] = t[i]
  BY <1>0
<1>2. DOMAIN s = 1..Len(s) /\ DOMAIN t = 1..Len(t) /\ Len(s) \in Nat /\ Len(t) \in Nat
  BY <1>0
<1> DEFINE both == s \o t
<1>3. \A i \in DOMAIN both : i \in 1..Len(s) \/ \E j \in 1..Len(t) : i = Len(s) + j
  <2>1. SUFFICES ASSUME NEW i \in 1..(Len(s) + Len(t)), i \notin 1..Len(s)
                 PROVE  \E j \in 1..Len(t) : i = Len(s) + j
    BY <1>1
  <2>2. i - Len(s) \in 1..Len(t) /\ i = Len(s) + (i - Len(s))
    BY <1>2, <2>1
  <2>3. QED
    BY <2>2
<1>4. \A i \in 1..Len(s) : i \in DOMAIN both /\ both[i] = s[i]
  BY <1>1, <1>2
<1>5. \A j \in 1..Len(t) : Len(s) + j \in DOMAIN both /\ both[Len(s) + j] = t[j]
  BY <1>1, <1>2
<1> HIDE DEF both
<1>6. Elements(both) = Elements(s) \cup Elements(t)
  <2>1. ASSUME NEW x \in Elements(both)
        PROVE  x \in Elements(s) \cup Elements(t)
    <3>1. PICK i \in DOMAIN both : x = both[i]
      BY DEF Elements
    <3>2. CASE i \in 1..Len(s)
      BY <1>2, <1>4, <3>1, <3>2 DEF Elements
    <3>3. CASE \E j \in 1..Len(t) : i = Len(s) + j
      <4>1. PICK j \in 1..Len(t) : i = Len(s) + j
        BY <3>3
      <4>2. x = t[j]
        BY <1>5, <3>1, <4>1
      <4>3. QED
        BY <1>2, <4>2 DEF Elements
    <3>4. QED
      BY <1>3, <3>2, <3>3
  <2>2. Elements(s) \subseteq Elements(both)
    BY <1>2, <1>4 DEF Elements
  <2>3. ASSUME NEW x \in Elements(t)
        PROVE  x \in Elements(both)
    <3>1. PICK j \in 1..Len(t) : x = t[j]
      BY <1>2 DEF Elements
    <3>2. QED
      BY <1>5, <3>1 DEF Elements
  <2>4. QED
    BY <2>1, <2>2, <2>3
<1>7. QED
  BY <1>1, <1>6 DEF both, S, Listing

\* A list of two that is written out.
LEMMA TwoListed ==
    ASSUME NEW a, NEW b
    PROVE  Listing(<<a, b>>) /\ Elements(<<a, b>>) = {a, b}
<1>1. <<a, b>> \in Seq({a, b}) /\ DOMAIN <<a, b>> = {1, 2}
  OBVIOUS
<1>2. Elements(<<a, b>>) = {a, b}
  BY <1>1 DEF Elements
<1>3. QED
  BY <1>1, <1>2 DEF Listing

\* A list of four.
LEMMA FourListed ==
    ASSUME NEW a, NEW b, NEW c, NEW d
    PROVE  Listing(<<a, b, c, d>>) /\ Elements(<<a, b, c, d>>) = {a, b, c, d}
<1>1. <<a, b, c, d>> \in Seq({a, b, c, d}) /\ DOMAIN <<a, b, c, d>> = {1, 2, 3, 4}
  OBVIOUS
<1>2. Elements(<<a, b, c, d>>) = {a, b, c, d}
  BY <1>1 DEF Elements
<1>3. QED
  BY <1>1, <1>2 DEF Listing

\* A list of seven.
LEMMA SevenListed ==
    ASSUME NEW a, NEW b, NEW c, NEW d, NEW e, NEW f, NEW g
    PROVE  /\ Listing(<<a, b, c, d, e, f, g>>)
           /\ Elements(<<a, b, c, d, e, f, g>>) = {a, b, c, d, e, f, g}
<1> DEFINE s == <<a, b, c, d, e, f, g>>
<1>1. s \in Seq({a, b, c, d, e, f, g}) /\ DOMAIN s = {1, 2, 3, 4, 5, 6, 7}
  OBVIOUS
<1>2. s[1] = a /\ s[2] = b /\ s[3] = c /\ s[4] = d /\ s[5] = e /\ s[6] = f /\ s[7] = g
  OBVIOUS
<1> HIDE DEF s
<1>3. Elements(s) = {a, b, c, d, e, f, g}
  BY <1>1, <1>2 DEF Elements
<1>4. QED
  BY <1>1, <1>3 DEF s, Listing

\* Questions of two and of three words.
LEMMA WordsDiffer ==
    ASSUME NEW a, NEW b, NEW c, NEW d, NEW e
    PROVE  /\ <<a, b>> # <<c, d, e>>
           /\ <<a, b>> = <<c, d>> => a = c /\ b = d
<1>1. Len(<<a, b>>) = 2 /\ Len(<<c, d, e>>) = 3
  OBVIOUS
<1>2. <<a, b>> = <<c, d>> => a = c /\ b = d
  OBVIOUS
<1>3. <<a, b>> # <<c, d, e>>
  BY <1>1
<1>4. QED
  BY <1>2, <1>3

\* The questions of one role.
LEMMA TopicsOfRole ==
    ASSUME NEW role
    PROVE  /\ Listing(RoleTopics(role))
           /\ Elements(RoleTopics(role)) =
                 {<<role, "logical_model", "general">>, <<role, "logical_model", "own">>,
                  <<role, "api_model", "general">>, <<role, "api_model", "own">>}
<1> DEFINE a == <<role, "logical_model", "general">>
           b == <<role, "logical_model", "own">>
           c == <<role, "api_model", "general">>
           d == <<role, "api_model", "own">>
<1>1. RoleTopics(role) = <<a, b, c, d>>
  BY DEF RoleTopics
<1> HIDE DEF a, b, c, d
<1>2. Listing(<<a, b, c, d>>) /\ Elements(<<a, b, c, d>>) = {a, b, c, d}
  BY FourListed
<1>3. Listing(RoleTopics(role)) /\ Elements(RoleTopics(role)) = {a, b, c, d}
  BY <1>1, <1>2
<1>4. QED
  BY <1>3 DEF a, b, c, d

\* The questions that are asked whatever the answers are.
NeededTopics ==
    {<<"provider", "configured">>, <<"policy", "flag">>, <<"health", "flag">>}
    \cup {<<role, field, "general">> :
             role \in Elements(CheckedRoles), field \in {"logical_model", "api_model"}}
    \cup {<<role, field, "own">> :
             role \in Elements(CheckedRoles) \ {"summary_and_pr_copy"},
             field \in {"logical_model", "api_model"}}

\* The question that depends on an answer is the last one.
LEMMA LastTopic ==
    /\ Len(Topics) \in Nat \ {0}
    /\ \A i \in 1..Len(Topics) : Topics[i] = <<"client", "flag">> => i = Len(Topics)
    /\ NeededTopics \subseteq {Topics[i] : i \in 1..(Len(Topics) - 1)}
<1> DEFINE p == <<<<"provider", "base_url">>, <<"provider", "configured">>,
                  <<"provider", "DASHSCOPE_MODEL">>, <<"provider", "BAILIAN_MODEL">>,
                  <<"provider", "CODER_MODEL">>, <<"provider", "PLANNER_MODEL">>,
                  <<"policy", "flag">>>>
           r(role) == RoleTopics(role)
           m == <<<<"summary_and_pr_copy", "logical_model", "general">>,
                  <<"summary_and_pr_copy", "api_model", "general">>>>
           q == <<<<"health", "flag">>, <<"client", "key">>, <<"client", "base_url">>,
                  <<"client", "flag">>>>
           p1 == p \o r("governor_orchestration")
           p2 == p1 \o r("planner_triage_review")
           p3 == p2 \o r("finding_validation")
           p4 == p3 \o r("critic_review")
           p5 == p4 \o r("refactor_and_test_fix")
           front == p5 \o m
<1>1. Topics = front \o q
  BY DEF Topics
<1>2. /\ Listing(p)
      /\ Elements(p) = {<<"provider", "base_url">>, <<"provider", "configured">>,
                        <<"provider", "DASHSCOPE_MODEL">>, <<"provider", "BAILIAN_MODEL">>,
                        <<"provider", "CODER_MODEL">>, <<"provider", "PLANNER_MODEL">>,
                        <<"policy", "flag">>}
  <2> DEFINE a == <<"provider", "base_url">>
             b == <<"provider", "configured">>
             c == <<"provider", "DASHSCOPE_MODEL">>
             d == <<"provider", "BAILIAN_MODEL">>
             e == <<"provider", "CODER_MODEL">>
             f == <<"provider", "PLANNER_MODEL">>
             g == <<"policy", "flag">>
  <2>1. p = <<a, b, c, d, e, f, g>>
    OBVIOUS
  <2> HIDE DEF a, b, c, d, e, f, g, p
  <2>2. /\ Listing(<<a, b, c, d, e, f, g>>)
        /\ Elements(<<a, b, c, d, e, f, g>>) = {a, b, c, d, e, f, g}
    BY SevenListed
  <2>3. Listing(p) /\ Elements(p) = {a, b, c, d, e, f, g}
    BY <2>1, <2>2
  <2>4. QED
    BY <2>3 DEF a, b, c, d, e, f, g
<1>3. /\ Listing(m)
      /\ Elements(m) = {<<"summary_and_pr_copy", "logical_model", "general">>,
                        <<"summary_and_pr_copy", "api_model", "general">>}
  BY TwoListed
<1>4. /\ Listing(q) /\ Len(q) = 4 /\ q[1] = <<"health", "flag">>
      /\ \A i \in 1..4 : q[i] = <<"client", "flag">> => i = 4
  <2> DEFINE a == <<"health", "flag">>
             b == <<"client", "key">>
             c == <<"client", "base_url">>
             d == <<"client", "flag">>
  <2>1. a # d /\ b # d /\ c # d
    BY WordsDiffer
  <2>2. q = <<a, b, c, d>>
    OBVIOUS
  <2> HIDE DEF a, b, c, d, q
  <2>3. /\ Listing(q) /\ Len(q) = 4
        /\ q[1] = a /\ q[2] = b /\ q[3] = c /\ q[4] = d
    BY <2>2, FourListed
  <2>4. \A i \in 1..4 : i = 1 \/ i = 2 \/ i = 3 \/ i = 4
    OBVIOUS
  <2>5. \A i \in 1..4 : q[i] = d => i = 4
    BY <2>1, <2>3, <2>4
  <2>6. QED
    BY <2>3, <2>5 DEF a, d
<1> HIDE DEF p, r, m, q
<1>5. Listing(p1) /\ Elements(p1) = Elements(p) \cup Elements(r("governor_orchestration"))
  BY <1>2, TopicsOfRole, ElementsOfBoth DEF r
<1> HIDE DEF p1
<1>6. Listing(p2) /\ Elements(p2) = Elements(p1) \cup Elements(r("planner_triage_review"))
  BY <1>5, TopicsOfRole, ElementsOfBoth DEF r
<1> HIDE DEF p2
<1>7. Listing(p3) /\ Elements(p3) = Elements(p2) \cup Elements(r("finding_validation"))
  BY <1>6, TopicsOfRole, ElementsOfBoth DEF r
<1> HIDE DEF p3
<1>8. Listing(p4) /\ Elements(p4) = Elements(p3) \cup Elements(r("critic_review"))
  BY <1>7, TopicsOfRole, ElementsOfBoth DEF r
<1> HIDE DEF p4
<1>9. Listing(p5) /\ Elements(p5) = Elements(p4) \cup Elements(r("refactor_and_test_fix"))
  BY <1>8, TopicsOfRole, ElementsOfBoth DEF r
<1> HIDE DEF p5
<1>10. Listing(front) /\ Elements(front) = Elements(p5) \cup Elements(m)
  BY <1>3, <1>9, ElementsOfBoth
<1>11. ASSUME NEW role
       PROVE  Elements(r(role)) =
                 {<<role, "logical_model", "general">>, <<role, "logical_model", "own">>,
                  <<role, "api_model", "general">>, <<role, "api_model", "own">>}
  BY TopicsOfRole DEF r
<1> HIDE DEF front
<1>12. <<"client", "flag">> \notin Elements(front)
  <2>1. \A role : <<"client", "flag">> \notin Elements(r(role))
    BY <1>11, WordsDiffer
  <2>2. <<"client", "flag">> \notin Elements(m)
    BY <1>3, WordsDiffer
  <2>3. \A x, y : x # "client" => <<"client", "flag">> # <<x, y>>
    BY WordsDiffer
  <2>4. <<"client", "flag">> \notin Elements(p)
    BY <1>2, <2>3
  <2>5. /\ Elements(front) = Elements(p) \cup Elements(r("governor_orchestration"))
              \cup Elements(r("planner_triage_review")) \cup Elements(r("finding_validation"))
              \cup Elements(r("critic_review")) \cup Elements(r("refactor_and_test_fix"))
              \cup Elements(m)
    BY <1>5, <1>6, <1>7, <1>8, <1>9, <1>10
  <2>6. QED
    BY <2>1, <2>2, <2>4, <2>5
<1>13. NeededTopics \ {<<"health", "flag">>} \subseteq Elements(front)
  <2>1. Elements(CheckedRoles) = {"planner_triage_review", "finding_validation", "critic_review",
                                  "refactor_and_test_fix", "summary_and_pr_copy"}
    <3>1. DOMAIN CheckedRoles = {1, 2, 3, 4, 5}
      BY DEF CheckedRoles
    <3>2. QED
      BY <3>1 DEF CheckedRoles, Elements
  <2>2. {<<"provider", "configured">>, <<"policy", "flag">>} \subseteq Elements(front)
    BY <1>2, <1>5, <1>6, <1>7, <1>8, <1>9, <1>10
  <2>3. ASSUME NEW role \in {"planner_triage_review", "finding_validation", "critic_review",
                             "refactor_and_test_fix"}
        PROVE  Elements(r(role)) \subseteq Elements(front)
    <3>1. /\ Elements(r("planner_triage_review")) \subseteq Elements(front)
          /\ Elements(r("finding_validation")) \subseteq Elements(front)
          /\ Elements(r("critic_review")) \subseteq Elements(front)
          /\ Elements(r("refactor_and_test_fix")) \subseteq Elements(front)
      BY <1>6, <1>7, <1>8, <1>9, <1>10
    <3>2. QED
      BY <3>1
  <2>4. Elements(m) \subseteq Elements(front)
    BY <1>10
  <2>5. ASSUME NEW role \in Elements(CheckedRoles) \ {"summary_and_pr_copy"},
               NEW field \in {"logical_model", "api_model"}
        PROVE  {<<role, field, "general">>, <<role, field, "own">>} \subseteq Elements(front)
    <3>1. role \in {"planner_triage_review", "finding_validation", "critic_review",
                    "refactor_and_test_fix"}
      BY <2>1
    <3>2. {<<role, field, "general">>, <<role, field, "own">>} \subseteq Elements(r(role))
      BY <1>11, <3>1
    <3>3. QED
      BY <2>3, <3>1, <3>2
  <2>6. ASSUME NEW field \in {"logical_model", "api_model"}
        PROVE  <<"summary_and_pr_copy", field, "general">> \in Elements(front)
    BY <1>3, <2>4
  <2>7. ASSUME NEW t \in NeededTopics, t # <<"health", "flag">>
        PROVE  t \in Elements(front)
    <3>1. CASE t \in {<<"provider", "configured">>, <<"policy", "flag">>}
      BY <2>2, <3>1
    <3>2. CASE \E role \in Elements(CheckedRoles), field \in {"logical_model", "api_model"} :
                   t = <<role, field, "general">>
      BY <2>5, <2>6, <3>2
    <3>3. CASE \E role \in Elements(CheckedRoles) \ {"summary_and_pr_copy"},
                  field \in {"logical_model", "api_model"} : t = <<role, field, "own">>
      BY <2>5, <3>3
    <3>4. QED
      BY <2>7, <3>1, <3>2, <3>3 DEF NeededTopics
  <2>8. QED
    BY <2>7
<1>14. /\ Len(front) \in Nat
       /\ DOMAIN front = 1..Len(front)
       /\ Len(Topics) = Len(front) + 4
       /\ \A i \in 1..Len(front) : Topics[i] = front[i]
       /\ \A i \in 1..4 : Topics[Len(front) + i] = q[i]
  <2>1. /\ Len(front) \in Nat
        /\ DOMAIN front = 1..Len(front)
        /\ Len(front \o q) = Len(front) + Len(q)
        /\ \A i \in 1..Len(front) : (front \o q)[i] = front[i]
        /\ \A i \in 1..Len(q) : (front \o q)[Len(front) + i] = q[i]
    <3> DEFINE S == Elements(front) \cup Elements(q)
    <3>1. front \in Seq(S) /\ q \in Seq(S)
      BY <1>4, <1>10 DEF Listing
    <3> HIDE DEF S
    <3>2. QED
      BY <3>1
  <2>2. QED
    BY <1>1, <1>4, <2>1
<1>15. \A i \in 1..Len(Topics) : i \in 1..Len(front) \/ \E j \in 1..4 : i = Len(front) + j
  <2>1. SUFFICES ASSUME NEW i \in 1..Len(Topics), i \notin 1..Len(front)
                 PROVE  \E j \in 1..4 : i = Len(front) + j
    OBVIOUS
  <2>2. i - Len(front) \in 1..4 /\ i = Len(front) + (i - Len(front))
    BY <1>14, <2>1
  <2>3. QED
    BY <2>2
<1>16. ASSUME NEW i \in 1..Len(Topics), Topics[i] = <<"client", "flag">>
       PROVE  i = Len(Topics)
  <2>1. i \notin 1..Len(front)
    BY <1>12, <1>14, <1>16 DEF Elements
  <2>2. PICK j \in 1..4 : i = Len(front) + j
    BY <1>15, <2>1
  <2>3. j = 4
    BY <1>4, <1>14, <1>16, <2>2
  <2>4. QED
    BY <1>14, <2>2, <2>3
<1>17. ASSUME NEW t \in NeededTopics
       PROVE  \E i \in 1..(Len(Topics) - 1) : t = Topics[i]
  <2>1. CASE t = <<"health", "flag">>
    <3>1. Topics[Len(front) + 1] = t /\ Len(front) + 1 \in 1..(Len(Topics) - 1)
      BY <1>4, <1>14, <2>1
    <3>2. QED
      BY <3>1
  <2>2. CASE t # <<"health", "flag">>
    <3>1. PICK i \in DOMAIN front : t = front[i]
      BY <1>13, <2>2 DEF Elements
    <3>2. QED
      BY <1>14, <3>1
  <2>3. QED
    BY <2>1, <2>2
<1>18. QED
  BY <1>14, <1>16, <1>17

\* The questions answered so far are the first ones, and all that are needed
\* have an answer when the roles are checked; the status at the end is the one
\* the answers give.
AnswersInv ==
    /\ asked \in Nat /\ asked <= Len(Topics)
    /\ Answered = {Topics[i] : i \in 1..asked}
    /\ pc \in {"config", "routing", "roles", "done", "crashed"}
    /\ pc \in {"roles", "done"} => asked >= Len(Topics) - 1
    /\ pc # "done" => status = "none"
    /\ pc = "done" => status = Status /\ Len(roles) = Len(CheckedRoles)

\* The program starts without answers.
LEMMA AnswersInitial ==
    ASSUME Init
    PROVE  AnswersInv
<1>1. asked = 0 /\ Answered = {} /\ pc = "config" /\ status = "none"
  BY DEF Init, RoutingInit, Answered
<1>2. Len(Topics) \in Nat
  BY LastTopic
<1> HIDE DEF Topics
<1>3. {Topics[i] : i \in 1..0} = {}
  OBVIOUS
<1>4. QED
  BY <1>1, <1>2, <1>3 DEF AnswersInv

\* An answer is that to the next question.
LEMMA AnswerAdded ==
    ASSUME AnswersInv, Asking, NEW value, Conclude(value)
    PROVE  /\ asked' \in Nat /\ asked' <= Len(Topics)
           /\ Answered' = {Topics[i] : i \in 1..asked'}
<1>1. asked \in Nat /\ asked < Len(Topics) /\ Len(Topics) \in Nat
  BY LastTopic DEF AnswersInv, Asking
<1>2. CASE asked' = asked + 1 /\ Answered' = Answered \cup {Topic}
  <2>1. 1..asked' = (1..asked) \cup {asked + 1}
    BY <1>1, <1>2
  <2>2. Answered' = {Topics[i] : i \in 1..asked} \cup {Topics[asked + 1]}
    BY <1>2 DEF AnswersInv, Topic
  <2>3. Answered' = {Topics[i] : i \in 1..asked'}
    BY <2>1, <2>2
  <2>4. QED
    BY <1>1, <1>2, <2>3
<1>3. CASE UNCHANGED <<asked, answers>>
  BY <1>1, <1>3 DEF AnswersInv, Answered
<1>4. QED
  BY <1>2, <1>3 DEF Conclude, Answered

\* Every step keeps it.
LEMMA AnswersStep ==
    ASSUME AnswersInv, [Next]_vars
    PROVE  AnswersInv'
<1>1. Len(Topics) \in Nat \ {0} /\ Topics' = Topics
  BY LastTopic DEF Topics, RoleTopics
<1>2. ASSUME UNCHANGED <<asked, answers>>, pc' \in {"config", "routing", "crashed"},
             status' = status, pc # "done"
      PROVE  AnswersInv'
  BY <1>1, <1>2 DEF AnswersInv, Answered
<1>3. ASSUME LoadConfig \/ LoadConfigRaises \/ ProbeRaises
      PROVE  AnswersInv'
  <2>1. /\ UNCHANGED <<asked, answers>> /\ pc' \in {"routing", "crashed"}
        /\ status' = status /\ pc # "done"
    BY <1>3 DEF LoadConfig, LoadConfigRaises, ProbeRaises, More, routingVars, question, health
  <2>2. QED
    BY <1>2, <2>1
<1>4. ASSUME ResolveRouting
      PROVE  AnswersInv'
  <2>1. pc = "routing" /\ pc' = "routing" /\ status' = status
    BY <1>4 DEF ResolveRouting, health
  <2>2. CASE UNCHANGED <<asked, answers>>
    BY <1>2, <2>1, <2>2
  <2>3. CASE Asking /\ \E value : Conclude(value)
    <3>1. /\ asked' \in Nat /\ asked' <= Len(Topics)
          /\ Answered' = {Topics[i] : i \in 1..asked'}
      BY <2>3, AnswerAdded
    <3>2. QED
      BY <1>1, <2>1, <3>1 DEF AnswersInv
  <2>4. QED
    BY <1>4, <2>2, <2>3 DEF ResolveRouting, Resolve, LookUpCached, ReadProcess, ReadRegistry,
                            EditRegistry, Remember, question
<1>5. ASSUME StartRoles
      PROVE  AnswersInv'
  <2>1. /\ pc = "routing" /\ pc' = "roles" /\ ~ Asking
        /\ UNCHANGED <<asked, answers, status>>
    BY <1>5 DEF StartRoles, routingVars, question, health
  <2>2. asked >= Len(Topics) - 1
    <3>1. CASE asked = Len(Topics)
      BY <1>1, <3>1
    <3>2. CASE asked < Len(Topics)
      <4>1. Topics[asked + 1] = <<"client", "flag">>
        BY <2>1, <3>2 DEF Asking
      <4>2. asked + 1 \in 1..Len(Topics) /\ asked \in Nat
        BY <1>1, <3>2 DEF AnswersInv
      <4>3. asked + 1 = Len(Topics)
        BY <4>1, <4>2, LastTopic
      <4>4. QED
        BY <1>1, <4>2, <4>3
    <3>3. QED
      BY <1>1, <3>1, <3>2 DEF AnswersInv
  <2>3. QED
    BY <1>1, <2>1, <2>2 DEF AnswersInv, Answered
<1>6. ASSUME SkipRole \/ RefuseBlankModel \/ ProbeModel \/ ReuseProbe
      PROVE  AnswersInv'
  <2>1. pc = "roles" /\ pc' = "roles" /\ UNCHANGED <<asked, answers, status>>
    BY <1>6 DEF SkipRole, RefuseBlankModel, ProbeModel, ReuseProbe, More, routingVars, question
  <2>2. QED
    BY <1>1, <2>1 DEF AnswersInv, Answered
<1>7. ASSUME Summarise
      PROVE  AnswersInv'
  <2>1. /\ pc = "roles" /\ pc' = "done" /\ status' = Status
        /\ Len(roles) = Len(CheckedRoles) /\ UNCHANGED <<asked, answers, roles>>
    BY <1>7 DEF Summarise, routingVars, question
  <2>2. Status' = Status /\ CheckedRoles' = CheckedRoles
    BY <2>1 DEF Status, Flag, FlagOn, Configured, Failed, CheckedRoles
  <2>3. QED
    BY <1>1, <2>1, <2>2 DEF AnswersInv, Answered
<1>8. ASSUME UNCHANGED vars
      PROVE  AnswersInv'
  <2>1. UNCHANGED <<asked, answers, roles, status, pc>>
    BY <1>8 DEF vars, routingVars, question, health
  <2>2. Status' = Status /\ CheckedRoles' = CheckedRoles
    BY <2>1 DEF Status, Flag, FlagOn, Configured, Failed, CheckedRoles
  <2>3. QED
    BY <1>1, <2>1, <2>2 DEF AnswersInv, Answered
<1>9. QED
  BY <1>3, <1>4, <1>5, <1>6, <1>7, <1>8 DEF Next

\* When the roles are checked, every question that is needed has an answer.
LEMMA NeededAreAnswered ==
    ASSUME AnswersInv, pc \in {"roles", "done"}
    PROVE  NeededTopics \subseteq Answered
<1>1. Len(Topics) \in Nat \ {0} /\ asked \in Nat /\ asked >= Len(Topics) - 1
  BY LastTopic DEF AnswersInv
<1>2. 1..(Len(Topics) - 1) \subseteq 1..asked
  BY <1>1
<1>3. QED
  BY <1>2, LastTopic DEF AnswersInv

\* Questions about the same variables.
LEMMA AskedAlike ==
    ASSUME NEW role, NEW kind \in {"general", "own"}, role \in Elements(CheckedRoles)
    PROVE  /\ NamesOf(<<"policy", "flag">>) = NamesOf(<<"health", "flag">>)
           /\ NamesOf(<<role, "logical_model", kind>>) = NamesOf(<<role, "api_model", kind>>)
<1>1. role \in {"planner_triage_review", "finding_validation", "critic_review",
                "refactor_and_test_fix", "summary_and_pr_copy"}
  <2>1. DOMAIN CheckedRoles = {1, 2, 3, 4, 5}
    BY DEF CheckedRoles
  <2>2. QED
    BY <2>1 DEF CheckedRoles, Elements
<1>2. NamesOf(<<"policy", "flag">>) = <<"ENABLE_LIVE_AGENTS">>
  <2>1. /\ <<"policy", "flag">> # <<"provider", "base_url">>
        /\ <<"policy", "flag">> # <<"provider", "configured">>
    OBVIOUS
  <2>2. <<"policy", "flag">>[1] = "policy" /\ <<"policy", "flag">>[2] = "flag"
    OBVIOUS
  <2>3. QED
    BY <2>1, <2>2 DEF NamesOf
<1>3. NamesOf(<<"health", "flag">>) = <<"ENABLE_LIVE_AGENTS">>
  <2>1. /\ <<"health", "flag">> # <<"provider", "base_url">>
        /\ <<"health", "flag">> # <<"provider", "configured">>
    OBVIOUS
  <2>2. <<"health", "flag">>[1] = "health" /\ <<"health", "flag">>[2] = "flag"
    OBVIOUS
  <2>3. QED
    BY <2>1, <2>2 DEF NamesOf
<1>4. ASSUME NEW field \in {"logical_model", "api_model"}
      PROVE  NamesOf(<<role, field, kind>>) =
                 IF kind = "general" THEN <<"DASHSCOPE_MODEL", "BAILIAN_MODEL">>
                 ELSE <<RoleEnv(role)>>
  <2> DEFINE t == <<role, field, kind>>
  <2>1. /\ t # <<"provider", "base_url">> /\ t # <<"provider", "configured">>
        /\ t # <<"client", "key">> /\ t # <<"client", "base_url">>
    BY WordsDiffer
  <2>2. t[1] = role /\ t[2] = field /\ t[3] = kind /\ Len(t) = 3
    OBVIOUS
  <2>3. role # "provider" /\ field # "flag"
    BY <1>1
  <2> HIDE DEF t
  <2>4. NamesOf(t) = IF t[3] = "general" THEN <<"DASHSCOPE_MODEL", "BAILIAN_MODEL">>
                     ELSE <<RoleEnv(t[1])>>
    BY <2>1, <2>2, <2>3 DEF NamesOf
  <2>5. QED
    BY <2>2, <2>4 DEF t
<1>5. QED
  BY <1>2, <1>3, <1>4

\* The policy of the routing and the summary of the check agree, and so do the
\* two models of an assignment, whatever is edited while the questions are asked.
THEOREM SummaryAgreesWithPolicy == Spec => []PolicyAgreesWithHealth
<1>1. ASSUME RoutingInv, ProbeInv, AnswersInv
      PROVE  PolicyAgreesWithHealth
  <2>1. SUFFICES ASSUME status # "none"
                 PROVE  /\ LiveEnabled <=> status \notin {"disabled", "misconfigured"}
                        /\ \A i \in DOMAIN roles :
                              ModelOf(CheckedRoles[i], "logical_model") = RoutedTo(i)
    BY DEF PolicyAgreesWithHealth
  <2>2. /\ pc = "done" /\ status = Status /\ Len(roles) = Len(CheckedRoles)
        /\ NeededTopics \subseteq Answered
    BY <1>1, <2>1, NeededAreAnswered DEF AnswersInv
  <2>3. ASSUME NEW s \in NeededTopics, NEW t \in NeededTopics, NamesOf(s) = NamesOf(t)
        PROVE  answers[s] = answers[t]
    <3> DEFINE names == [u \in Answered |-> NamesOf(u)]
               values == {<<names[u], answers[u]>> : u \in Answered}
    <3>1. \A p, q \in values : p[1] = q[1] => p[2] = q[2]
      BY <1>1, SoundAnswersAgree DEF OneEnvironment
    <3>2. <<NamesOf(s), answers[s]>> \in values /\ <<NamesOf(t), answers[t]>> \in values
      BY <2>2
    <3> HIDE DEF values
    <3>3. QED
      BY <2>3, <3>1, <3>2
  <2>4. LiveEnabled <=> status \notin {"disabled", "misconfigured"}
    <3>1. {<<"policy", "flag">>, <<"health", "flag">>} \subseteq NeededTopics
      BY DEF NeededTopics
    <3>2. "critic_review" \in Elements(CheckedRoles)
      BY DEF Elements, CheckedRoles
    <3>3. answers[<<"policy", "flag">>] = answers[<<"health", "flag">>]
      BY <2>3, <3>1, <3>2, AskedAlike
    <3>4. FlagOn(<<"policy", "flag">>) <=> Flag
      BY <3>3 DEF FlagOn, Flag
    <3>5. Status \notin {"disabled", "misconfigured"} <=> Flag /\ Configured
      BY DEF Status
    <3>6. QED
      BY <2>2, <3>4, <3>5 DEF LiveEnabled
  <2>5. ASSUME NEW i \in DOMAIN roles
        PROVE  ModelOf(CheckedRoles[i], "logical_model") = RoutedTo(i)
    <3>1. DOMAIN roles = 1..Len(roles)
      BY <1>1 DEF ProbeInv
    <3>2. i \in DOMAIN CheckedRoles
      BY <2>2, <3>1 DEF CheckedRoles
    <3> DEFINE role == CheckedRoles[i]
    <3>3. role \in Elements(CheckedRoles)
      BY <3>2 DEF Elements
    <3> HIDE DEF role
    <3>4. answers[<<role, "logical_model", "general">>] = answers[<<role, "api_model", "general">>]
      <4>1. {<<role, "logical_model", "general">>, <<role, "api_model", "general">>}
                \subseteq NeededTopics
        BY <3>3 DEF NeededTopics
      <4>2. QED
        BY <2>3, <3>3, <4>1, AskedAlike
    <3>5. CASE role = "summary_and_pr_copy"
      BY <3>4, <3>5 DEF ModelOf, RoutedTo, role
    <3>6. CASE role # "summary_and_pr_copy"
      <4>1. {<<role, "logical_model", "own">>, <<role, "api_model", "own">>}
                \subseteq NeededTopics
        BY <3>3, <3>6 DEF NeededTopics
      <4>2. answers[<<role, "logical_model", "own">>] = answers[<<role, "api_model", "own">>]
        BY <2>3, <3>3, <4>1, AskedAlike
      <4>3. QED
        BY <3>4, <3>6, <4>2 DEF ModelOf, RoutedTo, role
    <3>7. QED
      BY <3>5, <3>6
  <2>6. QED
    BY <2>4, <2>5
<1>2. Init => RoutingInv /\ AnswersInv
  BY RoutingInitial, AnswersInitial
<1>3. RoutingInv /\ AnswersInv /\ [Next]_vars => (RoutingInv /\ AnswersInv)'
  BY RoutingStep, AnswersStep
<1>4. QED
  BY <1>1, <1>2, <1>3, ProbeInvariant, PTL DEF Spec
=============================================================================
