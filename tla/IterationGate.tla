--------------------------- MODULE IterationGate ---------------------------
(***************************************************************************)
(* What the gate runner promises to whoever drives the iteration loop      *)
(* (README "Run With Gates", config/gate_spec.json), without checks,       *)
(* commands or files: every gate is closed once, in any order, with a      *)
(* verdict that is final; the decision is taken when all gates are closed  *)
(* and is a function of their verdicts; only then is it published, first   *)
(* for agents, then for humans, and never revised.                         *)
(***************************************************************************)
CONSTANT Gates

VARIABLES
    gate,      \* "pending" or the verdict of each gate
    verdict,   \* the decision, "none" before it is taken
    published  \* the reports that carry the decision

vars == <<gate, verdict, published>>

Verdicts == {"passed", "failed", "manual_review"}

Init ==
    /\ gate = [g \in Gates |-> "pending"]
    /\ verdict = "none"
    /\ published = {}

CloseGate(g) ==
    /\ gate[g] = "pending"
    /\ \E v \in Verdicts : gate' = [gate EXCEPT ![g] = v]
    /\ UNCHANGED <<verdict, published>>

\* The decision table of README "Gate decisions".
DecisionFor(verdicts) ==
    IF "failed" \in verdicts THEN "blocked"
    ELSE IF "manual_review" \in verdicts THEN "hold_for_review"
    ELSE "allow_next_iteration"

Decide ==
    /\ verdict = "none"
    /\ \A g \in Gates : gate[g] # "pending"
    /\ verdict' = DecisionFor({gate[g] : g \in Gates})
    /\ UNCHANGED <<gate, published>>

Publish(report) ==
    /\ verdict # "none"
    /\ report = "agent" \/ published = {"agent"}
    /\ report \notin published
    /\ published' = published \cup {report}
    /\ UNCHANGED <<gate, verdict>>

Next ==
    \/ \E g \in Gates : CloseGate(g)
    \/ Decide
    \/ \E report \in {"agent", "human"} : Publish(report)

Spec == Init /\ [][Next]_vars
=============================================================================
