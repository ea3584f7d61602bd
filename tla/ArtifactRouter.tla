--------------------------- MODULE ArtifactRouter ---------------------------
(***************************************************************************)
(* What an assessment decides to produce. Each Loop 2 run is classified by *)
(* the LLM, a fixed policy turns the classification into a plan, Loop 3    *)
(* skips Sigma generation for some classes, and what it did is recorded on *)
(* the plan. Loop 2 may be repeated while Loop 3 executes.                 *)
(***************************************************************************)
EXTENDS Naturals

CONSTANTS
    GATING_SKIP_CLASSES,    \* setting ROUTER_GATING_SKIP_CLASSES
    Categories,             \* number of indicator categories
    GateMin,                \* categories that Loop 2 has to fill
    ListedTypes,            \* bound: artifact types a classification mentions
    MaxRuns                 \* bound: Loop 2 runs

ASSUME SettingsAssumption ==
    /\ Categories \in Nat /\ GateMin \in Nat /\ MaxRuns \in Nat
    /\ ListedTypes \subseteq {"sigma_rule", "analyst_research_task",
                              "mitigation_plan", "telemetry_contract"}

VARIABLES
    runs,       \* number of Loop 2 runs
    active,     \* the active Loop 2 run, its classification and its plan
    loop3,      \* the Loop 3 run in flight
    observed    \* what Loop 3 left on the active plan

vars == <<runs, active, loop3, observed>>

DetectabilityClass == {"directly_detectable", "indirectly_detectable",
                       "environment_dependent", "control_only",
                       "insufficient_information"}
Sigma == "sigma_rule"
Research == "analyst_research_task"
Mitigation == "mitigation_plan"
Telemetry == "telemetry_contract"
ArtifactType == {Sigma, Research, Mitigation, Telemetry}
SIGMA_SKIP_CLASSES == {"insufficient_information", "control_only"}

None == "none"
NoClass == [class |-> None, low |-> FALSE, rec |-> {}, skp |-> {}]

\* What the model may answer; low: the confidence is below the floor.
Answer == [class : DetectabilityClass, low : BOOLEAN,
           rec : SUBSET ListedTypes, skp : SUBSET ListedTypes]

\* DetectabilityAssessment._sigma_explicitly_justified
Justified(c) == Sigma \in c.rec \cup c.skp /\ Sigma \notin c.rec \cap c.skp

Classification == {c \in Answer : Justified(c)}

-----------------------------------------------------------------------------
(* build_plan: a plan in the making has the recommended and the skipped    *)
(* types, and the prerequisites of the Sigma rule.                         *)

Prerequisite == {"telemetry", "override"}
Plan == [rec : SUBSET ArtifactType, skp : SUBSET ArtifactType, pre : SUBSET Prerequisite]
NoPlan == [rec |-> {}, skp |-> {}, pre |-> {}]

\* Fault: a type in both lists stays in both.
KeepsBoth(c) == [rec |-> c.rec, skp |-> c.skp, pre |-> {}]

PlanBuilder(c) == [rec |-> c.rec \ c.skp, skp |-> c.skp, pre |-> {}]

demote(p, t) == [rec |-> p.rec \ {t}, skp |-> p.skp \cup {t},
                 pre |-> IF t = Sigma THEN {} ELSE p.pre]

ensure_recommended(p, t) == IF t \in p.rec \cup p.skp THEN p
                            ELSE [p EXCEPT !.rec = @ \cup {t}]

add_prerequisite(p, q) == IF Sigma \in p.rec THEN [p EXCEPT !.pre = @ \cup {q}] ELSE p

ByClass(p, class) ==
    CASE class = "insufficient_information" -> ensure_recommended(demote(p, Sigma), Research)
      [] class = "control_only" -> ensure_recommended(demote(p, Sigma), Mitigation)
      [] class = "environment_dependent" ->
            ensure_recommended(add_prerequisite(p, "telemetry"), Telemetry)
      [] OTHER -> p

\* Fault: the floor is forgotten.
NoFloor(p, low) == p

ByConfidence(p, low) == IF low THEN ensure_recommended(demote(p, Sigma), Research) ELSE p

ByGate(p, passed) == IF passed THEN p ELSE add_prerequisite(p, "override")

build_plan(c, passed) == ByGate(ByConfidence(ByClass(PlanBuilder(c), c.class), c.low), passed)

\* RouterPlan._sigma_explicit
ValidPlan(p) == Sigma \in p.rec \cup p.skp /\ p.rec \cap p.skp = {}

sigma_planned(p) == Sigma \in p.rec

-----------------------------------------------------------------------------
(* State.                                                                  *)

Run == [id : 0..MaxRuns, passed : BOOLEAN, class : Classification \cup {NoClass},
        planned : BOOLEAN, plan : Plan]

NoRun == [id |-> 0, passed |-> FALSE, class |-> NoClass, planned |-> FALSE, plan |-> NoPlan]

\* run: the Loop 2 run whose class decided
Loop3Run == [pc : {"idle", "begun", "executing"}, override : BOOLEAN,
             run : 0..MaxRuns, gated : DetectabilityClass \cup {None}]

NoLoop3 == [pc |-> "idle", override |-> FALSE, run |-> 0, gated |-> None]

Observation == [done : BOOLEAN, diverged : BOOLEAN, by : Loop3Run]

NotObserved == [done |-> FALSE, diverged |-> FALSE, by |-> NoLoop3]

Init == runs = 0 /\ active = NoRun /\ loop3 = NoLoop3 /\ observed = NotObserved

-----------------------------------------------------------------------------
(* Loop 2: gate, classification and plan are committed with the run.       *)

evaluate_detectability_gate(filled) == filled >= GateMin

\* A plan that the schema refuses is logged and not written.
plan(c, passed) ==
    LET p == build_plan(c, passed) IN
    IF c # NoClass /\ ValidPlan(p) THEN [planned |-> TRUE, plan |-> p]
                                   ELSE [planned |-> FALSE, plan |-> NoPlan]

Loop2Done(passed, c) ==
    LET p == plan(c, passed) IN
    /\ runs < MaxRuns
    /\ runs' = runs + 1
    /\ active' = [id |-> runs + 1, passed |-> passed, class |-> c,
                  planned |-> p.planned, plan |-> p.plan]
    /\ observed' = NotObserved
    /\ UNCHANGED loop3

\* Nothing keeps the model from answering too late or nonsense: no row.
classify == \E passed \in {evaluate_detectability_gate(f) : f \in 0..Categories},
               c \in Classification \cup {NoClass} : Loop2Done(passed, c)

\* A repeated Loop 1 deactivates the Loop 2 run.
Loop1Done ==
    /\ active # NoRun
    /\ active' = NoRun
    /\ observed' = NotObserved
    /\ UNCHANGED <<runs, loop3>>

-----------------------------------------------------------------------------
(* Loop 3.                                                                 *)

begin_run(override) ==
    /\ loop3.pc = "idle"
    /\ active # NoRun
    /\ active.passed \/ override
    /\ loop3' = [NoLoop3 EXCEPT !.pc = "begun", !.override = override]
    /\ UNCHANGED <<runs, active, observed>>

sigma_generation_gated(class) == class \in SIGMA_SKIP_CLASSES \cap GATING_SKIP_CLASSES

Gated == ~loop3.override /\ active.class # NoClass /\ sigma_generation_gated(active.class.class)

\* Without a classification rules are generated.
GatedClass == IF Gated THEN active.class.class ELSE None

ReadClass ==
    /\ loop3.pc = "begun"
    /\ loop3' = [loop3 EXCEPT !.pc = "executing", !.run = active.id, !.gated = GatedClass]
    /\ UNCHANGED <<runs, active, observed>>

\* Rules are generated for gaps only. A gated run reports no gaps at all.
Reports(gated) == IF gated # None THEN {[rules |-> FALSE, gaps |-> "unknown"]}
                  ELSE {[rules |-> TRUE, gaps |-> "some"], [rules |-> FALSE, gaps |-> "some"],
                        [rules |-> FALSE, gaps |-> "zero"]}

\* Fault: no rule counts as divergence whatever the plan said.
NoRuleDiverges(planned, report) ==
    IF report.rules THEN ~planned ELSE report.gaps # "zero"

Diverged(planned, report) ==
    IF report.rules THEN ~planned ELSE planned /\ report.gaps # "zero"

\* The plan of the run that is active by now is marked, if there is one.
observe_loop3 ==
    /\ loop3.pc = "executing"
    /\ \E report \in Reports(loop3.gated) :
          observed' = IF active.planned
                      THEN [done |-> TRUE, by |-> loop3,
                            diverged |-> Diverged(sigma_planned(active.plan), report)]
                      ELSE observed
    /\ loop3' = NoLoop3
    /\ UNCHANGED <<runs, active>>

Loop3Fails ==
    /\ loop3.pc # "idle"
    /\ loop3' = NoLoop3
    /\ UNCHANGED <<runs, active, observed>>

Next ==
    \/ classify
    \/ Loop1Done
    \/ \E override \in BOOLEAN : begin_run(override)
    \/ ReadClass
    \/ observe_loop3
    \/ Loop3Fails

Spec == Init /\ [][Next]_vars

-----------------------------------------------------------------------------
(* Properties.                                                             *)

\* The state is well formed.
TypeOK ==
    /\ runs \in 0..MaxRuns
    /\ active \in Run
    /\ loop3 \in Loop3Run
    /\ observed \in Observation

\* Whatever valid classification the model returns, types listed twice
\* included, the policy makes a plan that RouterPlan accepts: none is lost in
\* the router's except clause.
ClassifiedIsPlanned == active.class # NoClass => active.planned

\* A plan has a Sigma rule only if the classifier asked for one, in a class
\* that can be detected and with enough confidence, and then it keeps the
\* prerequisites of its class and of a failed gate, in whatever order the
\* guardrails were applied.
SigmaIsJustified ==
    active.planned /\ sigma_planned(active.plan) =>
        /\ Sigma \in active.class.rec
        /\ active.class.class \notin SIGMA_SKIP_CLASSES
        /\ ~active.class.low
        /\ active.class.class = "environment_dependent" => "telemetry" \in active.plan.pre
        /\ ~active.passed => "override" \in active.plan.pre

\* No policy default recommends what the classifier skipped
\* (ensure_recommended).
SkipWins == active.planned => active.plan.rec \cap active.class.skp = {}

\* The gate looks at the class and the plan at class and confidence, and a
\* gated run reports no number of gaps: still, on the plan of the run that
\* gated it, a gated Loop 3 never counts as a divergence.
GatedAgrees ==
    observed.done /\ observed.by.gated # None /\ observed.by.run = active.id
        => ~observed.diverged
=============================================================================
