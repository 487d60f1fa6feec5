--------------------------- MODULE GateRefinement ---------------------------
(***************************************************************************)
(* run_iteration_gates implements the abstract iteration gate.  A gate is  *)
(* closed when its last check is in; a report is published when the file   *)
(* carries the stamp of the present call and a whole text.                 *)
(***************************************************************************)
EXTENDS GateRunner

GateClosed(g) == \A c \in ChecksOf[g] : checks[c] # "pending"

AbstractGate ==
    [g \in Gates |-> IF GateClosed(g)
                     THEN GateStatus(g, checks, review.status) ELSE "pending"]

IsPublished(report) == report.at = clock /\ report.decision \in Decisions

AbstractPublished ==
    (IF IsPublished(agentReport) THEN {"agent"} ELSE {})
        \cup (IF IsPublished(humanReport) THEN {"human"} ELSE {})

Abstract == INSTANCE IterationGate
    WITH gate <- AbstractGate, verdict <- decision,
         published <- AbstractPublished

\* The gate runner, with its checks, commands and report files, is an
\* iteration gate: gates close once and for good, the decision follows the
\* documented table and is published only once it is taken, agents first.
ImplementsIterationGate == Abstract!Spec
=============================================================================
