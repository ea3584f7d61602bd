----------------------- MODULE ArtifactRouter_proofs -----------------------
(***************************************************************************)
(* Proofs about ArtifactRouter, for every setting of the gate and every    *)
(* classification the schema accepts.                                      *)
(*                                                                         *)
(* The policy: each step of build_plan keeps a plan sound for the          *)
(* classification it was made from (Sound). The protocol: the plan of the  *)
(* active run is the one that build_plan makes of its classification, and  *)
(* a Loop 3 that was gated by that run has the run's class (RouterInv).    *)
(***************************************************************************)
EXTENDS ArtifactRouter, TLAPS

\* A plan in the making is consistent, and recommends neither what the
\* classifier skipped nor a Sigma rule it did not ask for.
Sound(p, c) ==
    /\ p \in Plan
    /\ ValidPlan(p)
    /\ c.skp \subseteq p.skp
    /\ Sigma \in p.rec => Sigma \in c.rec

LEMMA TypeNames == /\ Sigma # Research /\ Sigma # Mitigation /\ Sigma # Telemetry
                   /\ ListedTypes \subseteq ArtifactType
  BY SettingsAssumption DEF Sigma, Research, Mitigation, Telemetry, ArtifactType

\* The lists of the classifier, reconciled.
LEMMA BuilderSound ==
  ASSUME NEW c \in Classification
  PROVE  Sound(PlanBuilder(c), c)
  <1>1. c.rec \subseteq ArtifactType /\ c.skp \subseteq ArtifactType /\ Justified(c)
    BY TypeNames DEF Classification, Answer
  <1>2. PlanBuilder(c) = [rec |-> c.rec \ c.skp, skp |-> c.skp, pre |-> {}]
    BY DEF PlanBuilder
  <1>3. QED
    BY <1>1, <1>2 DEF Sound, Plan, ValidPlan, Justified

LEMMA DemoteSound ==
  ASSUME NEW c, NEW p, Sound(p, c)
  PROVE  Sound(demote(p, Sigma), c) /\ Sigma \notin demote(p, Sigma).rec
  BY DEF Sound, demote, Plan, ValidPlan, ArtifactType

LEMMA EnsureSound ==
  ASSUME NEW c, NEW p, Sound(p, c), NEW t \in ArtifactType \ {Sigma}
  PROVE  /\ Sound(ensure_recommended(p, t), c)
         /\ Sigma \in ensure_recommended(p, t).rec <=> Sigma \in p.rec
         /\ t \in ensure_recommended(p, t).rec \cup p.skp
         /\ ensure_recommended(p, t).pre = p.pre
         /\ p.rec \subseteq ensure_recommended(p, t).rec
         /\ p.skp = ensure_recommended(p, t).skp
  <1>1. CASE t \in p.rec \cup p.skp
    BY <1>1 DEF ensure_recommended
  <1>2. CASE t \notin p.rec \cup p.skp
    <2>1. ensure_recommended(p, t) = [rec |-> p.rec \cup {t}, skp |-> p.skp, pre |-> p.pre]
      BY <1>2 DEF ensure_recommended, Sound, Plan
    <2>2. QED
      BY <1>2, <2>1 DEF Sound, Plan, ValidPlan
  <1>3. QED
    BY <1>1, <1>2

LEMMA PrerequisiteSound ==
  ASSUME NEW c, NEW p, Sound(p, c), NEW q \in Prerequisite
  PROVE  /\ Sound(add_prerequisite(p, q), c)
         /\ add_prerequisite(p, q).rec = p.rec /\ add_prerequisite(p, q).skp = p.skp
         /\ p.pre \subseteq add_prerequisite(p, q).pre
         /\ Sigma \in p.rec => q \in add_prerequisite(p, q).pre
  <1>1. CASE Sigma \notin p.rec
    BY <1>1 DEF add_prerequisite
  <1>2. CASE Sigma \in p.rec
    <2>1. add_prerequisite(p, q) = [rec |-> p.rec, skp |-> p.skp, pre |-> p.pre \cup {q}]
      BY <1>2 DEF add_prerequisite, Sound, Plan
    <2>2. QED
      BY <1>2, <2>1 DEF Sound, Plan, ValidPlan
  <1>3. QED
    BY <1>1, <1>2

\* The guardrails of the detectability class.
LEMMA ClassSound ==
  ASSUME NEW c, NEW p, Sound(p, c), NEW class \in DetectabilityClass
  PROVE  /\ Sound(ByClass(p, class), c)
         /\ class \in SIGMA_SKIP_CLASSES => Sigma \notin ByClass(p, class).rec
         /\ class = "environment_dependent" /\ Sigma \in ByClass(p, class).rec
               => "telemetry" \in ByClass(p, class).pre
  <1>1. CASE class = "insufficient_information"
    <2>1. ByClass(p, class) = ensure_recommended(demote(p, Sigma), Research)
      BY <1>1 DEF ByClass
    <2>2. Research \in ArtifactType \ {Sigma}
      BY TypeNames DEF ArtifactType
    <2>3. QED
      BY <1>1, <2>1, <2>2, DemoteSound, EnsureSound
  <1>2. CASE class = "control_only"
    <2>1. ByClass(p, class) = ensure_recommended(demote(p, Sigma), Mitigation)
      BY <1>2 DEF ByClass
    <2>2. Mitigation \in ArtifactType \ {Sigma}
      BY TypeNames DEF ArtifactType
    <2>3. QED
      BY <1>2, <2>1, <2>2, DemoteSound, EnsureSound
  <1>3. CASE class = "environment_dependent"
    <2>1. ByClass(p, class) = ensure_recommended(add_prerequisite(p, "telemetry"), Telemetry)
      BY <1>3 DEF ByClass
    <2>2. Telemetry \in ArtifactType \ {Sigma} /\ "telemetry" \in Prerequisite
      BY TypeNames DEF ArtifactType, Prerequisite
    <2>3. class \notin SIGMA_SKIP_CLASSES
      BY <1>3 DEF SIGMA_SKIP_CLASSES
    <2>4. QED
      BY <2>1, <2>2, <2>3, PrerequisiteSound, EnsureSound
  <1>4. CASE class \in {"directly_detectable", "indirectly_detectable"}
    <2>1. ByClass(p, class) = p
      BY <1>4 DEF ByClass
    <2>2. class \notin SIGMA_SKIP_CLASSES /\ class # "environment_dependent"
      BY <1>4 DEF SIGMA_SKIP_CLASSES
    <2>3. QED
      BY <2>1, <2>2
  <1>5. QED
    BY <1>1, <1>2, <1>3, <1>4 DEF DetectabilityClass

\* The plan that the policy makes of a valid classification.
LEMMA PlanFacts ==
  ASSUME NEW c \in Classification, NEW passed \in BOOLEAN
  PROVE  LET p == build_plan(c, passed) IN
         /\ Sound(p, c)
         /\ Sigma \in p.rec => /\ c.class \notin SIGMA_SKIP_CLASSES
                               /\ ~c.low
                               /\ c.class = "environment_dependent" => "telemetry" \in p.pre
                               /\ ~passed => "override" \in p.pre
  <1> DEFINE p1 == ByClass(PlanBuilder(c), c.class)
             p2 == ByConfidence(p1, c.low)
             p3 == ByGate(p2, passed)
  <1>1. c.class \in DetectabilityClass /\ c.low \in BOOLEAN
    BY DEF Classification, Answer
  <1>2. /\ Sound(p1, c)
        /\ c.class \in SIGMA_SKIP_CLASSES => Sigma \notin p1.rec
        /\ c.class = "environment_dependent" /\ Sigma \in p1.rec => "telemetry" \in p1.pre
    BY <1>1, BuilderSound, ClassSound
  <1>3. /\ Sound(p2, c)
        /\ Sigma \in p2.rec => Sigma \in p1.rec /\ p2.pre = p1.pre /\ ~c.low
    <2>1. CASE c.low
      <3>1. p2 = ensure_recommended(demote(p1, Sigma), Research)
        BY <2>1 DEF ByConfidence
      <3>2. Research \in ArtifactType \ {Sigma}
        BY TypeNames DEF ArtifactType
      <3>3. Sound(demote(p1, Sigma), c) /\ Sigma \notin demote(p1, Sigma).rec
        BY <1>2, DemoteSound
      <3> HIDE DEF p1, p2
      <3>4. QED
        BY <3>1, <3>2, <3>3, EnsureSound
    <2>2. CASE ~c.low
      BY <1>2, <2>2 DEF ByConfidence
    <2>3. QED
      BY <2>1, <2>2
  <1>4. /\ Sound(p3, c)
        /\ p3.rec = p2.rec /\ p2.pre \subseteq p3.pre
        /\ ~passed /\ Sigma \in p2.rec => "override" \in p3.pre
    <2>1. CASE passed
      BY <1>3, <2>1 DEF ByGate
    <2>2. CASE ~passed
      <3>1. p3 = add_prerequisite(p2, "override") /\ "override" \in Prerequisite
        BY <2>2 DEF ByGate, Prerequisite
      <3> HIDE DEF p2, p3
      <3>2. QED
        BY <1>3, <3>1, PrerequisiteSound
    <2>3. QED
      BY <2>1, <2>2
  <1>5. p3 = build_plan(c, passed)
    BY DEF build_plan
  <1> HIDE DEF p1, p2, p3
  <1>6. QED
    BY <1>2, <1>3, <1>4, <1>5

-----------------------------------------------------------------------------
(* The protocol.                                                           *)

\* The plan of the active run is what the policy makes of its classification.
PlanOfRun ==
    /\ active.class # NoClass =>
          active.planned /\ active.plan = build_plan(active.class, active.passed)
    /\ active.class = NoClass => ~active.planned

\* A Loop 3 that the active run has gated has its class; runs are numbered.
GatedBy(l) ==
    l.gated # None /\ l.run = active.id =>
        /\ active.class # NoClass /\ active.class.class = l.gated
        /\ l.gated \in SIGMA_SKIP_CLASSES

Numbered ==
    /\ active.id <= runs /\ loop3.run <= runs
    /\ active.class # NoClass => active.id # 0
    /\ loop3.gated # None => loop3.run # 0

RouterInv == TypeOK /\ PlanOfRun /\ Numbered /\ GatedBy(loop3) /\ GatedAgrees

LEMMA NoClassIsNone == NoClass \notin Classification
  BY DEF NoClass, Classification, Answer, DetectabilityClass, None

LEMMA InitRouter == Init => RouterInv
  <1> SUFFICES ASSUME Init PROVE RouterInv
    OBVIOUS
  <1>1. /\ 0 \in 0..MaxRuns /\ NoPlan \in Plan /\ NoLoop3 \in Loop3Run
    BY SettingsAssumption DEF NoPlan, Plan, NoLoop3, Loop3Run
  <1>2. TypeOK
    BY <1>1 DEF Init, TypeOK, NoRun, Run, NotObserved, Observation
  <1>3. PlanOfRun /\ Numbered /\ GatedBy(loop3) /\ GatedAgrees
    BY DEF Init, PlanOfRun, Numbered, GatedBy, GatedAgrees, NoRun, NoLoop3, NotObserved
  <1>4. QED
    BY <1>2, <1>3 DEF RouterInv

\* A finished Loop 2 has a plan if it has a classification.
LEMMA Loop2Router ==
  ASSUME RouterInv, NEW passed \in BOOLEAN, NEW c \in Classification \cup {NoClass},
         Loop2Done(passed, c)
  PROVE  RouterInv'
  <1>1. /\ runs < MaxRuns /\ runs' = runs + 1 /\ loop3' = loop3 /\ observed' = NotObserved
        /\ active' = [id |-> runs + 1, passed |-> passed, class |-> c,
                      planned |-> plan(c, passed).planned, plan |-> plan(c, passed).plan]
    BY DEF Loop2Done
  <1>2. runs \in Nat /\ runs' \in 0..MaxRuns /\ runs + 1 \in 0..MaxRuns
    BY <1>1, SettingsAssumption DEF RouterInv, TypeOK
  <1>3. CASE c = NoClass
    <2>1. plan(c, passed) = [planned |-> FALSE, plan |-> NoPlan]
      BY <1>3 DEF plan
    <2>2. QED
      <3>1. active' \in Run /\ PlanOfRun'
        BY <1>1, <1>2, <1>3, <2>1 DEF Run, NoPlan, Plan, PlanOfRun
      <3>2. NotObserved \in Observation
        BY SettingsAssumption DEF NotObserved, Observation, NoLoop3, Loop3Run
      <3>3. TypeOK'
        BY <1>1, <1>2, <3>1, <3>2 DEF TypeOK, RouterInv
      <3>4. Numbered' /\ loop3'.run # active'.id
        BY <1>1, <1>2, SettingsAssumption DEF Numbered, RouterInv, TypeOK, Loop3Run
      <3>5. QED
        BY <1>1, <3>1, <3>3, <3>4 DEF RouterInv, GatedBy, GatedAgrees, NotObserved
  <1>4. CASE c \in Classification
    <2>1. Sound(build_plan(c, passed), c)
      BY <1>4, PlanFacts
    <2>2. plan(c, passed) = [planned |-> TRUE, plan |-> build_plan(c, passed)]
      BY <1>4, <2>1, NoClassIsNone DEF plan, Sound
    <2>3. active' \in Run /\ PlanOfRun'
      BY <1>1, <1>2, <1>4, <2>1, <2>2, NoClassIsNone DEF Run, Sound, PlanOfRun
    <2>4. NotObserved \in Observation
      BY SettingsAssumption DEF NotObserved, Observation, NoLoop3, Loop3Run
    <2>5. TypeOK'
      BY <1>1, <1>2, <2>3, <2>4 DEF TypeOK, RouterInv
    <2>6. Numbered' /\ loop3'.run # active'.id
      BY <1>1, <1>2, SettingsAssumption DEF Numbered, RouterInv, TypeOK, Loop3Run
    <2>7. QED
      BY <1>1, <2>3, <2>5, <2>6 DEF RouterInv, GatedBy, GatedAgrees, NotObserved
  <1>5. QED
    BY <1>3, <1>4

\* The steps that leave the active run alone, or deactivate it.
LEMMA OtherRouter ==
  ASSUME RouterInv,
         Loop1Done \/ (\E override \in BOOLEAN : begin_run(override)) \/ ReadClass \/ Loop3Fails
  PROVE  RouterInv'
  <1>1. CASE Loop1Done
    <2>1. active' = NoRun /\ observed' = NotObserved /\ runs' = runs /\ loop3' = loop3
      BY <1>1 DEF Loop1Done
    <2>2. NoRun \in Run /\ NotObserved \in Observation
      BY SettingsAssumption DEF NoRun, Run, NoPlan, Plan, NotObserved, Observation, NoLoop3, Loop3Run
    <2>3. TypeOK' /\ PlanOfRun' /\ Numbered'
      BY <2>1, <2>2 DEF RouterInv, TypeOK, PlanOfRun, Numbered, NoRun
    <2>4. GatedBy(loop3)'
      <3>1. loop3.gated # None => loop3.run # 0
        BY DEF RouterInv, Numbered
      <3>2. QED
        BY <2>1, <3>1 DEF GatedBy, NoRun
    <2>5. QED
      BY <2>1, <2>3, <2>4 DEF RouterInv, GatedAgrees, NotObserved
  <1>2. CASE (\E override \in BOOLEAN : begin_run(override)) \/ Loop3Fails
    <2>1. UNCHANGED <<runs, active, observed>>
      BY <1>2 DEF begin_run, Loop3Fails
    <2>2. loop3' \in Loop3Run /\ loop3'.gated = None /\ loop3'.run = 0
      <3>1. CASE Loop3Fails
        BY <3>1, SettingsAssumption DEF Loop3Fails, NoLoop3, Loop3Run
      <3>2. CASE \E override \in BOOLEAN : begin_run(override)
        <4>1. PICK override \in BOOLEAN : begin_run(override)
          BY <3>2
        <4>2. loop3' = [pc |-> "begun", override |-> override, run |-> 0, gated |-> None]
          BY <4>1 DEF begin_run, NoLoop3
        <4>3. QED
          BY <4>2, SettingsAssumption DEF Loop3Run
      <3>3. QED
        BY <1>2, <3>1, <3>2
    <2>3. 0 <= runs
      BY DEF RouterInv, TypeOK
    <2>4. QED
      BY <2>1, <2>2, <2>3 DEF RouterInv, TypeOK, PlanOfRun, Numbered, GatedBy, GatedAgrees
  <1>3. CASE ReadClass
    <2>1. /\ UNCHANGED <<runs, active, observed>>
          /\ loop3' = [loop3 EXCEPT !.pc = "executing", !.run = active.id, !.gated = GatedClass]
      BY <1>3 DEF ReadClass
    <2>2. /\ GatedClass \in DetectabilityClass \cup {None}
          /\ GatedClass # None => /\ active.class # NoClass /\ active.class.class = GatedClass
                                  /\ GatedClass \in SIGMA_SKIP_CLASSES
      BY DEF GatedClass, Gated, sigma_generation_gated, RouterInv, TypeOK, Run,
             Classification, Answer
    <2>3. loop3' \in Loop3Run /\ loop3'.run = active.id /\ loop3'.gated = GatedClass
      BY <2>1, <2>2 DEF RouterInv, TypeOK, Loop3Run, Run
    <2>4. QED
      BY <2>1, <2>2, <2>3 DEF RouterInv, TypeOK, PlanOfRun, Numbered, GatedBy, GatedAgrees
  <1>4. QED
    BY <1>1, <1>2, <1>3

\* The observation: the report of a gated run is compared with a plan
\* without a Sigma rule.
LEMMA ObserveRouter ==
  ASSUME RouterInv, observe_loop3
  PROVE  RouterInv'
  <1>1. PICK report \in Reports(loop3.gated) :
          observed' = IF active.planned
                      THEN [done |-> TRUE, by |-> loop3,
                            diverged |-> Diverged(sigma_planned(active.plan), report)]
                      ELSE observed
    BY DEF observe_loop3
  <1>2. loop3' = NoLoop3 /\ runs' = runs /\ active' = active
    BY DEF observe_loop3
  <1>3. loop3.gated # None => report = [rules |-> FALSE, gaps |-> "unknown"]
    BY DEF Reports
  <1>4. Diverged(sigma_planned(active.plan), report) \in BOOLEAN
    <2>1. CASE report.rules
      BY <2>1, Zenon DEF Diverged, sigma_planned
    <2>2. CASE ~report.rules
      BY <2>2, Zenon DEF Diverged, sigma_planned
    <2>3. QED
      BY <2>1, <2>2
  <1>5. TypeOK'
    <2>1. NoLoop3 \in Loop3Run
      BY SettingsAssumption DEF NoLoop3, Loop3Run
    <2>2. observed' \in Observation
      BY <1>1, <1>4 DEF RouterInv, TypeOK, Observation
    <2>3. QED
      BY <1>2, <2>1, <2>2 DEF RouterInv, TypeOK
  <1>6. PlanOfRun' /\ Numbered' /\ GatedBy(loop3)'
    BY <1>2 DEF RouterInv, TypeOK, PlanOfRun, Numbered, GatedBy, NoLoop3
  <1>7. GatedAgrees'
    <2>1. CASE ~active.planned
      BY <1>1, <1>2, <2>1 DEF RouterInv, GatedAgrees
    <2>2. CASE active.planned
      <3>1. SUFFICES ASSUME loop3.gated # None, loop3.run = active.id
                     PROVE  ~Diverged(sigma_planned(active.plan), report)
        BY <1>1, <1>2, <2>2 DEF GatedAgrees
      <3>2. /\ active.class \in Classification /\ active.class.class \in SIGMA_SKIP_CLASSES
            /\ active.plan = build_plan(active.class, active.passed) /\ active.passed \in BOOLEAN
        BY <3>1 DEF RouterInv, GatedBy, PlanOfRun, TypeOK, Run
      <3>3. ~sigma_planned(active.plan)
        BY <3>2, PlanFacts DEF sigma_planned
      <3>4. QED
        BY <1>3, <3>1, <3>3 DEF Diverged
    <2>3. QED
      BY <2>1, <2>2
  <1>8. QED
    BY <1>5, <1>6, <1>7 DEF RouterInv

LEMMA RouterInvariant == Spec => []RouterInv
  <1>1. RouterInv /\ [Next]_vars => RouterInv'
    <2>1. SUFFICES ASSUME RouterInv, [Next]_vars PROVE RouterInv'
      OBVIOUS
    <2>2. CASE classify
      <3>1. PICK passed \in {evaluate_detectability_gate(f) : f \in 0..Categories},
                 c \in Classification \cup {NoClass} : Loop2Done(passed, c)
        BY <2>2 DEF classify
      <3>2. passed \in BOOLEAN
        <4>1. PICK f \in 0..Categories : passed = evaluate_detectability_gate(f)
          OBVIOUS
        <4>2. evaluate_detectability_gate(f) \in BOOLEAN
          BY <4>1, SettingsAssumption, SMT DEF evaluate_detectability_gate
        <4>3. QED
          BY <4>1, <4>2
      <3>3. QED
        BY <2>1, <3>1, <3>2, Loop2Router
    <2>3. CASE UNCHANGED vars
      BY <2>1, <2>3 DEF vars, RouterInv, TypeOK, PlanOfRun, Numbered, GatedBy, GatedAgrees
    <2>4. QED
      BY <2>1, <2>2, <2>3, OtherRouter, ObserveRouter DEF Next
  <1>2. QED
    BY <1>1, InitRouter, PTL DEF Spec

\* Runs, classifications, plans and observations stay well formed.
THEOREM TypeCorrect == Spec => []TypeOK
  <1>1. RouterInv => TypeOK
    BY DEF RouterInv
  <1>2. QED
    BY <1>1, RouterInvariant, PTL

\* Every classification that the schema accepts leads to a plan that the
\* stricter schema of the router accepts.
THEOREM EveryClassPlanned == Spec => []ClassifiedIsPlanned
  <1>1. RouterInv => ClassifiedIsPlanned
    BY DEF RouterInv, PlanOfRun, ClassifiedIsPlanned
  <1>2. QED
    BY <1>1, RouterInvariant, PTL

\* The guardrails on the Sigma rule hold for all lists of artifacts, all
\* classes and all settings.
THEOREM SigmaNeedsReason == Spec => []SigmaIsJustified
  <1>1. RouterInv => SigmaIsJustified
    <2>1. SUFFICES ASSUME RouterInv, active.planned, sigma_planned(active.plan)
                   PROVE  /\ Sigma \in active.class.rec
                          /\ active.class.class \notin SIGMA_SKIP_CLASSES
                          /\ ~active.class.low
                          /\ active.class.class = "environment_dependent"
                                => "telemetry" \in active.plan.pre
                          /\ ~active.passed => "override" \in active.plan.pre
      BY DEF SigmaIsJustified
    <2>2. /\ active.class \in Classification /\ active.passed \in BOOLEAN
          /\ active.plan = build_plan(active.class, active.passed)
      BY <2>1 DEF RouterInv, PlanOfRun, TypeOK, Run
    <2>3. QED
      BY <2>1, <2>2, PlanFacts DEF sigma_planned, Sound
  <1>2. QED
    BY <1>1, RouterInvariant, PTL

\* No default of the policy recommends what the classifier skipped.
THEOREM ClassifierSkipWins == Spec => []SkipWins
  <1>1. RouterInv => SkipWins
    <2>1. SUFFICES ASSUME RouterInv, active.planned
                   PROVE  active.plan.rec \cap active.class.skp = {}
      BY DEF SkipWins
    <2>2. /\ active.class \in Classification /\ active.passed \in BOOLEAN
          /\ active.plan = build_plan(active.class, active.passed)
      BY <2>1 DEF RouterInv, PlanOfRun, TypeOK, Run
    <2>3. Sound(active.plan, active.class)
      BY <2>2, PlanFacts
    <2>4. QED
      BY <2>3 DEF Sound, ValidPlan
  <1>2. QED
    BY <1>1, RouterInvariant, PTL

\* The gate of Loop 3 and the plan never contradict each other about the
\* same Loop 2 run, whatever classes the setting lists.
THEOREM GateMatchesPlan == Spec => []GatedAgrees
  <1>1. RouterInv => GatedAgrees
    BY DEF RouterInv
  <1>2. QED
    BY <1>1, RouterInvariant, PTL

=============================================================================
