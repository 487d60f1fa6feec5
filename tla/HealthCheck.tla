---------------------------- MODULE HealthCheck ----------------------------
(***************************************************************************)
(* llm/health.py behind main.py --check-llm-config: once the routing is    *)
(* known the roles are looked at one by one; roles that share a model      *)
(* share one probe of it.                                                  *)
(***************************************************************************)
EXTENDS ModelRouting

VARIABLES
    pc,
    roles,      \* the results so far
    probes,     \* probe_cache
    probed,     \* the models asked for, in order
    status,
    exitCode

health == <<roles, probes, probed, status>>
vars == <<pc, routingVars, health, exitCode>>

CheckedRoles ==
    <<"planner_triage_review", "finding_validation", "critic_review",
      "refactor_and_test_fix", "summary_and_pr_copy">>

RoutedTo(i) == ModelOf(CheckedRoles[i], "api_model")

\* The routing is built and the client asked for.
LoadConfig ==
    /\ pc = "config"
    /\ ~ ConfigRaises(configFile)
    /\ config' = LoadedConfig(configFile)
    /\ pc' = "routing"
    /\ UNCHANGED <<environment, cache, question, layer, health, exitCode>>

\* Nothing catches an AttributeError or a UnicodeDecodeError of the loader.
LoadConfigRaises ==
    /\ pc = "config"
    /\ ConfigRaises(configFile)
    /\ pc' = "crashed"
    /\ exitCode' = "1"
    /\ UNCHANGED <<routingVars, health>>

ResolveRouting ==
    /\ pc = "routing"
    /\ Resolve
    /\ UNCHANGED <<pc, health, exitCode>>

StartRoles ==
    /\ pc = "routing"
    /\ ~ Asking
    /\ pc' = "roles"
    /\ UNCHANGED <<routingVars, health, exitCode>>

Flag == FlagOn(<<"health", "flag">>)

\* build_bailian_client looks at its own key, not at the configured one.
Client == answers[<<"client", "key">>] # Absent /\ FlagOn(<<"client", "flag">>)

Model == RoutedTo(Len(roles) + 1)

Skipped == [status |-> "skipped", checked |-> FALSE, cached |-> FALSE]

\* No model is resolved from a variable of white space only.
NoModel == [status |-> "failed", checked |-> TRUE, cached |-> FALSE]

\* The models of the roles that were checked so far.
CheckedModels == {RoutedTo(i) : i \in {j \in DOMAIN roles : roles[j].checked}}

\* Deviation: the cache is asked after the probe has been put there.
CheckedAfterProbe(verdict) == [status |-> verdict, checked |-> TRUE, cached |-> TRUE]

Checked(verdict) ==
    [status |-> verdict, checked |-> TRUE, cached |-> Model \in CheckedModels]

More == pc = "roles" /\ Len(roles) < Len(CheckedRoles)

Live == Flag /\ Configured /\ Client
Probing == Live /\ Model \notin BlankValues

SkipRole ==
    /\ More
    /\ ~ Live
    /\ roles' = Append(roles, Skipped)
    /\ UNCHANGED <<pc, routingVars, probes, probed, status, exitCode>>

RefuseBlankModel ==
    /\ More
    /\ Live
    /\ Model \in BlankValues
    /\ roles' = Append(roles, NoModel)
    /\ UNCHANGED <<pc, routingVars, probes, probed, status, exitCode>>

\* Deviation: a probe that failed is tried again for the next role.
ProbeUnlessPassed ==
    /\ More
    /\ Probing
    /\ Model \in DOMAIN probes => probes[Model] # "passed"
    /\ \E verdict \in {"passed", "failed"} :
          /\ probes' = [m \in DOMAIN probes \cup {Model} |->
                           IF m = Model THEN verdict ELSE probes[m]]
          /\ roles' = Append(roles, Checked(verdict))
    /\ probed' = Append(probed, Model)
    /\ UNCHANGED <<pc, routingVars, status, exitCode>>

\* The first role of a model: the probe is answered, or it fails.
ProbeModel ==
    /\ More
    /\ Probing
    /\ Model \notin DOMAIN probes
    /\ \E verdict \in {"passed", "failed"} :
          /\ probes' = [m \in DOMAIN probes \cup {Model} |->
                           IF m = Model THEN verdict ELSE probes[m]]
          /\ roles' = Append(roles, Checked(verdict))
    /\ probed' = Append(probed, Model)
    /\ UNCHANGED <<pc, routingVars, status, exitCode>>

\* Deviation: a cached probe counts as passed.
ReuseProbeAsPassed ==
    /\ More
    /\ Probing
    /\ Model \in DOMAIN probes
    /\ roles' = Append(roles, Checked("passed"))
    /\ UNCHANGED <<pc, routingVars, probes, probed, status, exitCode>>

ReuseProbe ==
    /\ More
    /\ Probing
    /\ Model \in DOMAIN probes
    /\ roles' = Append(roles, Checked(probes[Model]))
    /\ UNCHANGED <<pc, routingVars, probes, probed, status, exitCode>>

\* The error of the probe cannot be read: provider_request_error raises.
ProbeRaises ==
    /\ More
    /\ Probing
    /\ Model \notin DOMAIN probes
    /\ probed' = Append(probed, Model)
    /\ pc' = "crashed"
    /\ exitCode' = "1"
    /\ UNCHANGED <<routingVars, roles, probes, status>>

Failed == {i \in DOMAIN roles : roles[i].status = "failed"}

\* Deviation: a missing key is no reason to complain.
StatusWithoutKey ==
    CASE ~ Flag -> "disabled"
      [] Flag /\ Failed # {} -> "degraded"
      [] OTHER -> "healthy"

Status ==
    CASE ~ Flag -> "disabled"
      [] Flag /\ ~ Configured -> "misconfigured"
      [] Flag /\ Configured /\ Failed # {} -> "degraded"
      [] OTHER -> "healthy"

\* The summary; main turns it into the exit code.
Summarise ==
    /\ pc = "roles"
    /\ Len(roles) = Len(CheckedRoles)
    /\ status' = Status
    /\ exitCode' = IF status' = "healthy" THEN "0" ELSE "1"
    /\ pc' = "done"
    /\ UNCHANGED <<routingVars, roles, probes, probed>>

Init ==
    /\ RoutingInit
    /\ pc = "config"
    /\ roles = <<>>
    /\ probes = [m \in {} |-> "passed"]
    /\ probed = <<>>
    /\ status = "none"
    /\ exitCode = "none"

Next ==
    \/ LoadConfig \/ LoadConfigRaises
    \/ ResolveRouting \/ StartRoles
    \/ SkipRole \/ RefuseBlankModel
    \/ ProbeModel \/ ReuseProbe \/ ProbeRaises
    \/ Summarise

Spec == Init /\ [][Next]_vars
-----------------------------------------------------------------------------
(* Properties.                                                             *)

\* A model is probed at most once, however many roles share it and whether
\* the probe passed or failed.
OneProbePerModel ==
    \A i, j \in DOMAIN probed : probed[i] = probed[j] => i = j

\* Roles that share a model share its verdict, and a role is marked as served
\* from the cache exactly when its model was probed for an earlier role.
VerdictsAreShared ==
    \A j \in DOMAIN roles :
        /\ \A i \in 1..(j - 1) :
              RoutedTo(i) = RoutedTo(j) => roles[i].status = roles[j].status
        /\ roles[j].cached <=> /\ RoutedTo(j) \in DOMAIN probes
                               /\ \E i \in 1..(j - 1) : RoutedTo(i) = RoutedTo(j)

\* The flag is read for the policy of the routing and again for the summary of
\* the check: whatever is edited in between, one never says live where the other
\* says disabled or misconfigured, and both models of an assignment are the same.
PolicyAgreesWithHealth ==
    status # "none" =>
        /\ LiveEnabled <=> status \notin {"disabled", "misconfigured"}
        /\ \A i \in DOMAIN roles :
              ModelOf(CheckedRoles[i], "logical_model") = RoutedTo(i)

\* main.py: the option runs the configuration self-check and the model health
\* probes; success then rests on a probe.
SuccessRestsOnProbe == exitCode = "0" => probed # <<>>
=============================================================================
