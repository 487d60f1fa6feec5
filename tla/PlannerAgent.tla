---------------------------- MODULE PlannerAgent ----------------------------
(***************************************************************************)
(* agents/planner_agent.py: findings are scored and sorted (triage), the   *)
(* worst ones become the steps of a plan and the rest a backlog; a         *)
(* language model may propose another plan, of which only what refers to   *)
(* known rules and files is kept.                                          *)
(***************************************************************************)
EXTENDS Contracts, Ordering, Integers

CONSTANTS
    PlanWindow, \* PLAN_WINDOW
    RepoFiles,  \* the files of the scanned repository
    FileRank    \* [Files -> Nat]: the order of the file names

ASSUME PlannerAssumption ==
    /\ PlanWindow \in Nat \ {0}
    /\ RepoFiles \subseteq Files
    /\ FileRank \in [Files -> Nat]
    /\ \A f, g \in Files : FileRank[f] = FileRank[g] => f = g

RuleRank == [RULE_A |-> 1, RULE_B |-> 2, RULE_C |-> 3, RULE_D |-> 4,
             RULE_E |-> 5, RULE_F |-> 6, RULE_G |-> 7]

SeverityScore == [high |-> 90, medium |-> 60, low |-> 30]

AtMost(n, limit) == IF n <= limit THEN n ELSE limit

PriorityForScore(score) ==
    IF score >= 90 THEN "P0" ELSE IF score >= 60 THEN "P1" ELSE "P2"

TriageItem == [finding_rule : Rules, priority : Priorities, score : Nat,
               files : Seq(Files)]

Triaged(f) ==
    LET score == SeverityScore[f.severity] + AtMost(5 * Len(f.files), 20)
    IN  [finding_rule |-> f.rule_id, priority |-> PriorityForScore(score),
         score |-> score, files |-> f.files]

\* Lists of files compare like lists of strings.
FilesBefore(s, t) ==
    \E k \in 1..Len(t) :
        /\ \A j \in 1..(k - 1) : j <= Len(s) /\ s[j] = t[j]
        /\ k > Len(s) \/ FileRank[s[k]] < FileRank[t[k]]

\* Deviation: the sign of the score in the sort key is lost.
TriagedBeforeAscending(a, b) == a.score < b.score

\* The sort key (-score, finding_rule, files).
TriagedBefore(a, b) ==
    \/ a.score > b.score
    \/ /\ a.score = b.score
       /\ \/ RuleRank[a.finding_rule] < RuleRank[b.finding_rule]
          \/ /\ a.finding_rule = b.finding_rule
             /\ FilesBefore(a.files, b.files)

BuildTriage(findings) ==
    Sorted([i \in DOMAIN findings |-> Triaged(findings[i])], TriagedBefore)

BacklogItem == [finding_rule : Rules \cup {Junk}, priority : Priorities]

ConfigToStep(item, index) ==
    [step_id |-> index, finding_rule |-> item.finding_rule,
     priority |-> item.priority, files |-> item.files, executing |-> FALSE]

BuildActionPlan(triage) ==
    [steps |-> [i \in 1..AtMost(Len(triage), PlanWindow) |->
                   ConfigToStep(triage[i], i)],
     backlog |-> [i \in 1..(Len(triage) - AtMost(Len(triage), PlanWindow)) |->
                     [finding_rule |-> triage[PlanWindow + i].finding_rule,
                      priority |-> triage[PlanWindow + i].priority]]]
-----------------------------------------------------------------------------
(* The plan of a language model.  Junk stands for a value of the wrong     *)
(* type, and for a name that is not known.  An item of the backlog without *)
(* a rule or without the name of a rule has "" for its rule.               *)

RawStep == [finding_rule : Rules \cup {Junk}, priority : Priorities \cup {Junk},
            files : Seq(Files \cup {Junk}) \cup {Junk}]

RawBacklogItem ==
    [finding_rule : Rules \cup {Junk, ""}, priority : Priorities \cup {Junk}]

RawPlan == [steps : Seq(RawStep \cup {Junk}) \cup {Junk},
            backlog : Seq(RawBacklogItem \cup {Junk}) \cup {Junk}]

RulesOf(triage) == {triage[i].finding_rule : i \in DOMAIN triage}

\* triage_map: of several findings of a rule, the last one.
TriageMap(triage, rule) ==
    triage[CHOOSE i \in DOMAIN triage :
               /\ triage[i].finding_rule = rule
               /\ \A j \in DOMAIN triage : j > i => triage[j].finding_rule # rule]

\* fallback_step: of several deterministic steps of a rule, the first one.
FallbackFiles(steps, triage, rule) ==
    LET ofRule == {i \in DOMAIN steps : steps[i].finding_rule = rule}
    IN  IF ofRule = {} THEN TriageMap(triage, rule).files
        ELSE steps[CHOOSE i \in ofRule : \A j \in ofRule : i <= j].files

\* A step with an unknown rule takes the rule of the step in its place, and is
\* dropped when the deterministic plan has no step there.
Usable(raw, index, triage, steps) ==
    /\ raw # Junk
    /\ raw.finding_rule \in RulesOf(triage) \/ index <= Len(steps)

SanitizeStep(raw, index, triage, steps) ==
    LET rule == IF raw.finding_rule \in RulesOf(triage) THEN raw.finding_rule
                ELSE steps[index].finding_rule
        known == IF raw.files = Junk THEN <<>>
                 ELSE Kept(raw.files, LAMBDA f : f \in RepoFiles)
    IN  [step_id |-> index, finding_rule |-> rule,
         priority |-> IF raw.priority = Junk THEN TriageMap(triage, rule).priority
                      ELSE raw.priority,
         files |-> IF known = <<>> THEN FallbackFiles(steps, triage, rule) ELSE known,
         executing |-> FALSE]

\* Deviation: one step more than the window has.
SanitizeStepsBeyondWindow(raw, triage, steps) ==
    LET indexes == [i \in 1..AtMost(Len(raw), PlanWindow + 1) |-> i]
        kept == Kept(indexes, LAMBDA i : Usable(raw[i], i, triage, steps))
    IN  [k \in DOMAIN kept |-> SanitizeStep(raw[kept[k]], kept[k], triage, steps)]

SanitizeSteps(raw, triage, steps) ==
    LET indexes == [i \in 1..AtMost(Len(raw), PlanWindow) |-> i]
        kept == Kept(indexes, LAMBDA i : Usable(raw[i], i, triage, steps))
    IN  [k \in DOMAIN kept |-> SanitizeStep(raw[kept[k]], kept[k], triage, steps)]

\* What names a rule is kept, whether or not the rule is known.
SanitizeBacklog(raw) ==
    LET kept == Kept(raw, LAMBDA b : b # Junk /\ b.finding_rule # "")
    IN  [k \in DOMAIN kept |->
            [kept[k] EXCEPT !.priority = IF @ = Junk THEN "P2" ELSE @]]

\* _sanitize_action_plan.
SanitizeActionPlan(raw, triage) ==
    LET deterministic == BuildActionPlan(triage)
        steps == IF raw.steps = Junk THEN <<>>
                 ELSE SanitizeSteps(raw.steps, triage, deterministic.steps)
    IN  [steps |-> IF steps = <<>> THEN deterministic.steps ELSE steps,
         backlog |-> IF raw.backlog = Junk THEN deterministic.backlog
                     ELSE SanitizeBacklog(raw.backlog)]
=============================================================================
