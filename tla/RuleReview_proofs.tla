-------------------------- MODULE RuleReview_proofs --------------------------
(***************************************************************************)
(* Proofs about RuleReview for any number of reviewers, generators, texts, *)
(* rules and failures.                                                     *)
(***************************************************************************)
EXTENDS RuleReview, TLAPS

USE DEF RuleIds, NoRule, coverage, history

-----------------------------------------------------------------------------
(* Type correctness.                                                       *)

LEMMA RecordTypes ==
    /\ NoRow \in Row
    /\ Idle \in Session
    /\ NoGeneration \in Generation
    /\ \A r \in RuleIds, op \in AllOps : rules[r] \in Row => Loaded(op, r) \in Session
    /\ \A t \in Texts \cup {NoText} : GeneratedRow(t) \in Row
  <1>1. NoRow \in Row
    BY DEF NoRow, Row, RuleStatus, ItemStatus
  <1>2. Idle \in Session
    BY <1>1 DEF Idle, Session
  <1>3. NoGeneration \in Generation
    BY DEF NoGeneration, Generation
  <1>4. \A r \in RuleIds, op \in AllOps : rules[r] \in Row => Loaded(op, r) \in Session
    BY <1>1 DEF Loaded, Idle, Session
  <1>5. \A t \in Texts \cup {NoText} : GeneratedRow(t) \in Row
    BY <1>1 DEF GeneratedRow, NoRow, Row, RuleStatus, ItemStatus
  <1>6. QED
    BY <1>1, <1>2, <1>3, <1>4, <1>5

LEMMA DecisionTypes ==
    ASSUME NEW row \in Row, NEW t \in Session, NEW st \in {"approved", "rejected"}
    PROVE  /\ Decided(row, t, st) \in Row
           /\ Edited(row, t) \in Row
           /\ Decided(row, t, st).text = row.text
           /\ Decided(row, t, st).pr = row.pr
           /\ Decided(row, t, st).status \in {st, row.status}
           /\ Edited(row, t).status = row.status
           /\ Edited(row, t).pr = row.pr
           /\ Edited(row, t).text = IF t.op = "edit" /\ t.text # t.row.text
                                    THEN t.text ELSE row.text
           /\ Superseded(row, t) \in Row
           /\ Superseded(row, t).text = row.text
           /\ Superseded(row, t).status = row.status
           /\ Superseded(row, t).pr = row.pr
           /\ Recorded(row, t) \in Row
           /\ Recorded(row, t).text = row.text
           /\ Recorded(row, t).status \in {"submitted", row.status}
  <1>1. /\ t.row \in Row /\ t.text \in Texts \cup {NoText}
        /\ t.chosen \in RuleIds \cup {NoRule}
    BY DEF Session
  <1>2. st \in RuleStatus /\ st \in ItemStatus
    BY DEF RuleStatus, ItemStatus
  <1>3. /\ Decided(row, t, st) \in Row
        /\ Decided(row, t, st).text = row.text
        /\ Decided(row, t, st).pr = row.pr
        /\ Decided(row, t, st).status \in {st, row.status}
    BY <1>1, <1>2 DEF Decided, Written, Row
  <1>4. /\ Edited(row, t) \in Row
        /\ Edited(row, t).status = row.status
        /\ Edited(row, t).pr = row.pr
        /\ Edited(row, t).text = IF t.op = "edit" /\ t.text # t.row.text
                                 THEN t.text ELSE row.text
    BY <1>1 DEF Edited, Written, Row
  <1>5. /\ Superseded(row, t) \in Row
        /\ Superseded(row, t).text = row.text
        /\ Superseded(row, t).status = row.status
        /\ Superseded(row, t).pr = row.pr
    BY <1>1 DEF Superseded, Written, Row, ItemStatus
  <1>6. /\ Recorded(row, t) \in Row
        /\ Recorded(row, t).text = row.text
        /\ Recorded(row, t).status \in {"submitted", row.status}
    BY <1>1 DEF Recorded, Written, ShippedStatus, Row, RuleStatus
  <1>7. QED
    BY <1>3, <1>4, <1>5, <1>6

\* A step of a generator.
GeneratorStep(g) == \/ \E t \in Texts : generate_rule(g, t)
                    \/ GenStep(g)
                    \/ GenerationFails(g)

\* A step in which a request starts.
StartStep(s) == \E r \in RuleIds :
                   \/ \E op \in Ops : LoadPair(s, op, r)
                   \/ \E t \in Texts : LoadEdit(s, r, t)
                   \/ \E c \in RuleIds : LoadSupersede(s, r, c)
                   \/ submit_by_ids(s, r)

LEMMA GeneratorTypes ==
    ASSUME TypeOK, NEW g \in Generators, GeneratorStep(g)
    PROVE  TypeOK'
  <1>1. CASE \E t \in Texts : generate_rule(g, t)
    <2>1. PICK t \in Texts : generate_rule(g, t)
      BY <1>1
    <2>2. passes' \in 0..MaxGenerations
      <3>1. passes < MaxGenerations /\ passes' = passes + 1
        BY <2>1 DEF generate_rule
      <3>2. QED
        BY <3>1, ConstantsAssumption DEF TypeOK
    <2>3. gen' \in [Generators -> Generation]
      <3>1. PICK r \in Hit(t) :
              gen' = [gen EXCEPT ![g] =
                        IF Cardinality(Hit(t)) > 1 THEN NoGeneration
                        ELSE [pc |-> "generated", text |-> t, rule |-> r,
                              pending |-> {}, approved |-> {}]]
        BY <2>1 DEF generate_rule
      <3>2. r \in RuleIds \cup {NoRule}
        BY DEF Hit, SameContent
      <3>3. [pc |-> "generated", text |-> t, rule |-> r,
             pending |-> {}, approved |-> {}] \in Generation
        BY <3>2 DEF Generation
      <3>4. QED
        BY <3>1, <3>3, RecordTypes DEF TypeOK
    <2>4. QED
      BY <2>1, <2>2, <2>3 DEF generate_rule, TypeOK
  <1>2. CASE CommitRules(g)
    <2>1. gen[g] \in Generation
      BY DEF TypeOK
    <2>2. \A r \in RuleIds : [gen[g] EXCEPT !.pc = "committed", !.rule = r] \in Generation
      BY <2>1 DEF Generation
    <2>3. CASE gen[g].rule # NoRule
      <3>1. gen[g].rule \in RuleIds
        BY <2>1, <2>3 DEF Generation
      <3>2. UNCHANGED rules
        BY <1>2, <2>3 DEF CommitRules
      <3>3. gen' \in [Generators -> Generation]
        <4>1. gen' = [gen EXCEPT ![g] = IF g \in Feed THEN NoGeneration
                         ELSE [gen[g] EXCEPT !.pc = "committed", !.rule = gen[g].rule]]
          BY <1>2, <2>3 DEF CommitRules
        <4>2. QED
          BY <4>1, <2>2, <3>1, RecordTypes DEF TypeOK
      <3>4. QED
        BY <1>2, <3>2, <3>3 DEF CommitRules, TypeOK
    <2>4. CASE gen[g].rule = NoRule
      <3>1. PICK r \in RuleIds :
               /\ rules' = [rules EXCEPT ![r] = GeneratedRow(gen[g].text)]
               /\ gen' = [gen EXCEPT ![g] = IF g \in Feed THEN NoGeneration
                             ELSE [gen[g] EXCEPT !.pc = "committed", !.rule = r]]
        BY <1>2, <2>4 DEF CommitRules
      <3>2. GeneratedRow(gen[g].text) \in Row
        BY <2>1, RecordTypes DEF Generation
      <3>3. rules' \in [RuleIds -> Row]
        BY <3>1, <3>2 DEF TypeOK
      <3>4. gen' \in [Generators -> Generation]
        BY <3>1, <2>2, RecordTypes DEF TypeOK
      <3>5. QED
        BY <1>2, <3>3, <3>4 DEF CommitRules, TypeOK
    <2>5. QED
      BY <2>3, <2>4
  <1>3. CASE SelectPrior(g)
    <2>1. gen[g] \in Generation
      BY DEF TypeOK
    <2>2. gen' \in [Generators -> Generation]
      <3>1. [gen[g] EXCEPT !.pc = "superseding",
               !.pending = {r \in RuleIds \ {gen[g].rule} : rules[r].item = "pending"},
               !.approved = {r \in RuleIds \ {gen[g].rule} :
                                rules[r].status = "approved" /\ rules[r].dep = NoRule}] \in Generation
        BY <2>1 DEF Generation
      <3>2. QED
        BY <1>3, <3>1 DEF SelectPrior, TypeOK
    <2>3. raced' \subseteq RuleIds
      <3>1. gen'[g].pending \subseteq RuleIds
        BY <2>2 DEF Generation
      <3>2. QED
        BY <1>3, <3>1 DEF SelectPrior, Reads, TypeOK
    <2>4. QED
      BY <1>3, <2>2, <2>3 DEF SelectPrior, TypeOK
  <1>4. CASE supersede_prior_for_triple(g)
    <2>1. gen[g] \in Generation
      BY DEF TypeOK
    <2>2. ASSUME NEW r \in RuleIds
          PROVE  [rules[r] EXCEPT !.item = IF r \in gen[g].pending THEN "superseded" ELSE @,
                                  !.dep = IF r \in gen[g].approved THEN gen[g].rule ELSE @] \in Row
      <3>1. rules[r] \in Row
        BY DEF TypeOK
      <3>2. gen[g].rule \in RuleIds \cup {NoRule} /\ "superseded" \in ItemStatus
        BY <2>1 DEF Generation, ItemStatus
      <3>3. QED
        BY <3>1, <3>2 DEF Row
    <2>3. rules' \in [RuleIds -> Row]
      BY <1>4, <2>2 DEF supersede_prior_for_triple
    <2>4. gen' \in [Generators -> Generation]
      BY <1>4, RecordTypes DEF supersede_prior_for_triple, TypeOK
    <2>5. QED
      BY <1>4, <2>3, <2>4 DEF supersede_prior_for_triple, TypeOK
  <1>5. CASE GenerationFails(g)
    <2>1. failures' \in 0..MaxFailures
      BY <1>5, ConstantsAssumption DEF GenerationFails, TypeOK
    <2>2. gen' \in [Generators -> Generation]
      BY <1>5, RecordTypes DEF GenerationFails, TypeOK
    <2>3. QED
      BY <1>5, <2>1, <2>2 DEF GenerationFails, TypeOK
  <1>6. QED
    BY <1>1, <1>2, <1>3, <1>4, <1>5 DEF GeneratorStep, GenStep

\* A request that starts is counted, and the row it reads noted.
LEMMA StartCounts ==
    ASSUME TypeOK, NEW s \in Reviewers, StartStep(s)
    PROVE  requests' \in 0..MaxRequests /\ raced' \subseteq RuleIds
  <1>1. requests < MaxRequests /\ requests' = requests + 1
    BY DEF StartStep, LoadPair, LoadEdit, LoadSupersede, submit_by_ids, Load, MayRequest
  <1>2. PICK r \in RuleIds : Reads({r})
    BY DEF StartStep, LoadPair, LoadEdit, LoadSupersede, submit_by_ids, Load
  <1>3. raced' \subseteq RuleIds
    BY <1>2 DEF Reads, TypeOK
  <1>4. requests' \in 0..MaxRequests
    BY <1>1, ConstantsAssumption DEF TypeOK
  <1>5. QED
    BY <1>3, <1>4

LEMMA StartTypes ==
    ASSUME TypeOK, NEW s \in Reviewers, StartStep(s)
    PROVE  TypeOK'
  <1>1. PICK r \in RuleIds :
           \/ \E op \in Ops : LoadPair(s, op, r)
           \/ \E t \in Texts : LoadEdit(s, r, t)
           \/ \E c \in RuleIds : LoadSupersede(s, r, c)
           \/ submit_by_ids(s, r)
    BY DEF StartStep
  <1>2. rules[r] \in Row /\ mapped \in BOOLEAN /\ covering \in SUBSET (RuleIds \cup {NoRule})
    BY DEF TypeOK
  <1>3. \A op \in AllOps : Loaded(op, r) \in Session
    BY <1>2, RecordTypes
  <1>4. CASE \E op \in Ops : LoadPair(s, op, r)
    <2>1. PICK op \in Ops : LoadPair(s, op, r)
      BY <1>4
    <2>2. op \in AllOps
      BY ConstantsAssumption
    <2>3. sess' \in [Reviewers -> Session]
      BY <2>1, <2>2, <1>3 DEF LoadPair, Goto, TypeOK
    <2>4. QED
      BY <2>1, <2>3, StartCounts DEF LoadPair, TypeOK
  <1>5. CASE \E t \in Texts : LoadEdit(s, r, t)
    <2>1. PICK t \in Texts : LoadEdit(s, r, t)
      BY <1>5
    <2>2. [Loaded("edit", r) EXCEPT !.text = t] \in Session
      BY <1>3 DEF Session, AllOps
    <2>3. sess' \in [Reviewers -> Session]
      BY <2>1, <2>2 DEF LoadEdit, Goto, TypeOK
    <2>4. QED
      BY <2>1, <2>3, StartCounts DEF LoadEdit, TypeOK
  <1>6. CASE \E c \in RuleIds : LoadSupersede(s, r, c)
    <2>1. PICK c \in RuleIds : LoadSupersede(s, r, c)
      BY <1>6
    <2>2. [Loaded("supersede", r) EXCEPT !.chosen = c, !.mapped = mapped,
                                              !.covering = covering] \in Session
      BY <1>2, <1>3 DEF Session, AllOps
    <2>3. sess' \in [Reviewers -> Session]
      BY <2>1, <2>2 DEF LoadSupersede, Goto, TypeOK
    <2>4. QED
      BY <2>1, <2>3, StartCounts DEF LoadSupersede, TypeOK
  <1>7. CASE submit_by_ids(s, r)
    <2>1. [Loaded("submit", r) EXCEPT !.pc = "sending"] \in Session
      BY <1>3 DEF Session, AllOps
    <2>2. sess' \in [Reviewers -> Session]
      BY <1>7, <2>1 DEF submit_by_ids, Goto, TypeOK
    <2>3. direct' \in [RuleIds -> SUBSET (Texts \cup {NoText})]
      <3>1. rules[r].text \in Texts \cup {NoText}
        BY <1>2 DEF Row
      <3>2. QED
        BY <1>7, <3>1 DEF submit_by_ids, TypeOK
    <2>4. QED
      BY <1>7, <2>2, <2>3, StartCounts DEF submit_by_ids, TypeOK
  <1>8. QED
    BY <1>1, <1>4, <1>5, <1>6, <1>7

\* A request in progress is about a rule.
BusyRule == \A s \in Reviewers : sess[s].pc # "idle" => sess[s].rule \in RuleIds

LEMMA DecideTypes ==
    ASSUME TypeOK, BusyRule, NEW s \in Reviewers,
           AssignCommit(s) \/ reject(s) \/ approve(s) \/ supersede(s) \/ NoTarget(s)
    PROVE  TypeOK'
  <1>1. sess[s] \in Session /\ rules \in [RuleIds -> Row]
    BY DEF TypeOK
  <1>2. Idle \in Session
    BY RecordTypes
  <1>3. CASE AssignCommit(s)
    <2>1. ASSUME NEW r \in RuleIds
          PROVE  [rules[r] EXCEPT !.item = IF sess[s].row.item = "pending"
                                           THEN "in_review" ELSE @] \in Row
      BY <1>1 DEF Row, ItemStatus
    <2>2. rules' \in [RuleIds -> Row]
      BY <1>1, <1>3, <2>1 DEF AssignCommit
    <2>3. sess' \in [Reviewers -> Session]
      BY <1>2, <1>3 DEF AssignCommit, Goto, TypeOK
    <2>4. QED
      BY <1>3, <2>2, <2>3 DEF AssignCommit, TypeOK
  <1>4. CASE reject(s)
    <2>1. \A r \in RuleIds : Decided(rules[r], sess[s], "rejected") \in Row
      BY <1>1, DecisionTypes
    <2>2. rules' \in [RuleIds -> Row]
      BY <1>1, <1>4, <2>1 DEF reject
    <2>3. sess' \in [Reviewers -> Session]
      BY <1>2, <1>4 DEF reject, Goto, TypeOK
    <2>4. QED
      BY <1>4, <2>2, <2>3 DEF reject, TypeOK
  <1>5. CASE approve(s)
    <2>1. \A r \in RuleIds : Edited(Decided(rules[r], sess[s], "approved"), sess[s]) \in Row
      BY <1>1, DecisionTypes
    <2>2. rules' \in [RuleIds -> Row]
      BY <1>1, <1>5, <2>1 DEF approve, AfterApproval
    <2>3. SignedText(sess[s]) \in Texts \cup {NoText}
      BY <1>1 DEF SignedText, Session, Row
    <2>4. signed' \in [RuleIds -> SUBSET (Texts \cup {NoText})]
      BY <1>5, <2>3 DEF approve, AfterApproval, TypeOK
    <2>5. [sess[s] EXCEPT !.pc = "approved"] \in Session
      BY <1>1 DEF Session
    <2>6. sess' \in [Reviewers -> Session]
      BY <1>2, <1>5, <2>5 DEF approve, AfterApproval, Goto, TypeOK
    <2>7. QED
      BY <1>5, <2>2, <2>4, <2>6 DEF approve, AfterApproval, TypeOK
  <1>6. CASE supersede(s)
    <2>1. sess[s].chosen \in RuleIds \cup {NoRule} /\ sess[s].covering \in SUBSET (RuleIds \cup {NoRule})
      BY <1>1 DEF Session
    <2>4. rules' \in [RuleIds -> Row]
      <3>1. \A r \in RuleIds : Superseded(rules[r], sess[s]) \in Row
        BY <1>1, DecisionTypes
      <3>2. QED
        BY <1>1, <1>6, <3>1 DEF supersede
    <2>6. sess' \in [Reviewers -> Session]
      BY <1>2, <1>6 DEF supersede, Goto, TypeOK
    <2>7. covering' \subseteq RuleIds \cup {NoRule}
      BY <1>6, <2>1 DEF supersede, Written, Covering, TypeOK
    <2>8. QED
      BY <1>6, <2>4, <2>6, <2>7 DEF supersede, TypeOK
  <1>7. CASE NoTarget(s)
    <2>1. sess' \in [Reviewers -> Session]
      BY <1>2, <1>7 DEF NoTarget, Goto, TypeOK
    <2>2. QED
      BY <1>7, <2>1 DEF NoTarget, TypeOK
  <1>8. QED
    BY <1>3, <1>4, <1>5, <1>6, <1>7

LEMMA ShippingTypes ==
    ASSUME TypeOK, BusyRule, NEW s \in Reviewers,
           \/ Refresh(s) \/ PullRequestCreated(s) \/ PullRequestExists(s)
           \/ TransportFails(s) \/ RecordPR(s) \/ RequestDies(s)
    PROVE  TypeOK'
  <1>1. /\ sess[s] \in Session /\ rules \in [RuleIds -> Row]
        /\ repo \in [RuleIds -> Branch] /\ failures \in 0..MaxFailures
    BY DEF TypeOK
  <1>2. Idle \in Session /\ sess[s].row \in Row /\ sess[s].row.text \in Texts \cup {NoText}
    BY <1>1, RecordTypes DEF Session, Row
  <1>3. ASSUME NEW r \in RuleIds
        PROVE  /\ [text |-> sess[s].row.text, open |-> TRUE] \in Branch
               /\ [repo[r] EXCEPT !.text = sess[s].row.text] \in Branch
    BY <1>1, <1>2 DEF Branch
  <1>4. CASE Refresh(s)
    <2>1. [sess[s] EXCEPT !.pc = "sending", !.row = rules[sess[s].rule]] \in Session
      BY <1>1, <1>4 DEF Session, Refresh, BusyRule
    <2>2. sess' \in [Reviewers -> Session]
      BY <1>4, <2>1 DEF Refresh, Goto, TypeOK
    <2>3. QED
      BY <1>4, <2>2 DEF Refresh, TypeOK
  <1>5. CASE PullRequestCreated(s)
    <2>1. [sess[s] EXCEPT !.pc = "created"] \in Session
      BY <1>1 DEF Session
    <2>2. sess' \in [Reviewers -> Session]
      BY <1>5, <2>1 DEF PullRequestCreated, Goto, TypeOK
    <2>3. repo' \in [RuleIds -> Branch]
      BY <1>1, <1>3, <1>5 DEF PullRequestCreated
    <2>4. QED
      BY <1>5, <2>2, <2>3 DEF PullRequestCreated, TypeOK
  <1>6. CASE PullRequestExists(s)
    <2>1. sess' \in [Reviewers -> Session]
      BY <1>2, <1>6 DEF PullRequestExists, Goto, TypeOK
    <2>2. repo' \in [RuleIds -> Branch]
      BY <1>1, <1>3, <1>6 DEF PullRequestExists
    <2>3. QED
      BY <1>6, <2>1, <2>2 DEF PullRequestExists, TypeOK
  <1>7. CASE TransportFails(s)
    <2>1. sess' \in [Reviewers -> Session]
      BY <1>2, <1>7 DEF TransportFails, Goto, TypeOK
    <2>2. repo' \in [RuleIds -> Branch]
      BY <1>1, <1>3, <1>7 DEF TransportFails
    <2>3. failures' \in 0..MaxFailures
      BY <1>1, <1>7, ConstantsAssumption DEF TransportFails
    <2>4. QED
      BY <1>7, <2>1, <2>2, <2>3 DEF TransportFails, TypeOK
  <1>8. CASE RecordPR(s)
    <2>1. \A r \in RuleIds : Recorded(rules[r], sess[s]) \in Row
      BY <1>1, DecisionTypes
    <2>2. rules' \in [RuleIds -> Row]
      BY <1>1, <1>8, <2>1 DEF RecordPR
    <2>3. sess' \in [Reviewers -> Session]
      BY <1>2, <1>8 DEF RecordPR, Goto, TypeOK
    <2>4. QED
      BY <1>8, <2>2, <2>3 DEF RecordPR, TypeOK
  <1>9. CASE RequestDies(s)
    <2>1. sess' \in [Reviewers -> Session]
      BY <1>2, <1>9 DEF RequestDies, Goto, TypeOK
    <2>2. failures' \in 0..MaxFailures
      BY <1>1, <1>9, ConstantsAssumption DEF RequestDies
    <2>3. QED
      BY <1>9, <2>1, <2>2 DEF RequestDies, TypeOK
  <1>10. QED
    BY <1>4, <1>5, <1>6, <1>7, <1>8, <1>9

\* A request keeps its rule until it ends.
LEMMA BusyRuleStep ==
    ASSUME TypeOK, BusyRule, [Next]_vars
    PROVE  BusyRule'
  <1>1. CASE UNCHANGED sess
    BY <1>1 DEF BusyRule
  <1>2. ASSUME NEW s \in Reviewers, NEW t, Goto(s, t),
               t.pc = "idle" \/ t.rule \in RuleIds
        PROVE  BusyRule'
    BY <1>2 DEF BusyRule, Goto, TypeOK
  <1>3. Idle.pc = "idle"
    BY DEF Idle
  <1>4. \A r \in RuleIds, op \in AllOps : Loaded(op, r).rule = r
    BY DEF Loaded, Idle
  <1>5. ASSUME NEW s \in Reviewers, StartStep(s)
        PROVE  BusyRule'
    <2>1. PICK r \in RuleIds :
             \/ \E op \in Ops : LoadPair(s, op, r)
             \/ \E t \in Texts : LoadEdit(s, r, t)
             \/ \E c \in RuleIds : LoadSupersede(s, r, c)
             \/ submit_by_ids(s, r)
      BY <1>5 DEF StartStep
    <2>2. CASE \E op \in Ops : LoadPair(s, op, r)
      <3>1. PICK op \in Ops : Goto(s, Loaded(op, r))
        BY <2>2 DEF LoadPair
      <3>2. QED
        BY <1>2, <1>4, <3>1, ConstantsAssumption
    <2>3. CASE \E t \in Texts : LoadEdit(s, r, t)
      <3>1. PICK t \in Texts : Goto(s, [Loaded("edit", r) EXCEPT !.text = t])
        BY <2>3 DEF LoadEdit
      <3>2. [Loaded("edit", r) EXCEPT !.text = t].rule = r
        BY DEF Loaded, Idle
      <3>3. QED
        BY <1>2, <3>1, <3>2
    <2>4. CASE \E c \in RuleIds : LoadSupersede(s, r, c)
      <3>1. PICK c \in RuleIds :
               Goto(s, [Loaded("supersede", r) EXCEPT !.chosen = c, !.mapped = mapped,
                                              !.covering = covering])
        BY <2>4 DEF LoadSupersede
      <3>2. [Loaded("supersede", r) EXCEPT !.chosen = c, !.mapped = mapped,
                                              !.covering = covering].rule = r
        BY DEF Loaded, Idle
      <3>3. QED
        BY <1>2, <3>1, <3>2
    <2>5. CASE submit_by_ids(s, r)
      <3>1. Goto(s, [Loaded("submit", r) EXCEPT !.pc = "sending"])
        BY <2>5 DEF submit_by_ids
      <3>2. [Loaded("submit", r) EXCEPT !.pc = "sending"].rule = r
        BY DEF Loaded, Idle
      <3>3. QED
        BY <1>2, <3>1, <3>2
    <2>6. QED
      BY <2>1, <2>2, <2>3, <2>4, <2>5
  <1>6. ASSUME NEW s \in Reviewers,
               SessStep(s) \/ NoTarget(s) \/ TransportFails(s) \/ RequestDies(s)
        PROVE  BusyRule'
    <2>1. sess[s] \in Session
      BY DEF TypeOK
    <2>2. CASE AssignCommit(s) \/ reject(s) \/ supersede(s) \/ PullRequestExists(s)
               \/ RecordPR(s) \/ NoTarget(s) \/ TransportFails(s) \/ RequestDies(s)
      <3>1. Goto(s, Idle)
        BY <2>2 DEF AssignCommit, reject, supersede, PullRequestExists, RecordPR,
                    NoTarget, TransportFails, RequestDies
      <3>2. QED
        BY <1>2, <1>3, <3>1
    <2>3. CASE approve(s)
      <3>1. Goto(s, Idle) \/ Goto(s, [sess[s] EXCEPT !.pc = "approved"])
        BY <2>3 DEF approve, AfterApproval
      <3>2. [sess[s] EXCEPT !.pc = "approved"].rule \in RuleIds
        BY <2>1, <2>3 DEF approve, AfterApproval, BusyRule, Session
      <3>3. QED
        BY <1>2, <1>3, <3>1, <3>2
    <2>4. CASE Refresh(s)
      <3>1. Goto(s, [sess[s] EXCEPT !.pc = "sending", !.row = rules[sess[s].rule]])
        BY <2>4 DEF Refresh
      <3>2. [sess[s] EXCEPT !.pc = "sending", !.row = rules[sess[s].rule]].rule \in RuleIds
        BY <2>1, <2>4 DEF Refresh, BusyRule, Session
      <3>3. QED
        BY <1>2, <3>1, <3>2
    <2>5. CASE PullRequestCreated(s)
      <3>1. Goto(s, [sess[s] EXCEPT !.pc = "created"])
        BY <2>5 DEF PullRequestCreated
      <3>2. [sess[s] EXCEPT !.pc = "created"].rule \in RuleIds
        BY <2>1, <2>5 DEF PullRequestCreated, BusyRule, Session
      <3>3. QED
        BY <1>2, <3>1, <3>2
    <2>6. QED
      BY <1>6, <2>2, <2>3, <2>4, <2>5 DEF SessStep
  <1>7. ASSUME NEW g \in Generators, GeneratorStep(g)
        PROVE  UNCHANGED sess
    BY <1>7 DEF GeneratorStep, GenStep, generate_rule, CommitRules, SelectPrior,
                supersede_prior_for_triple, GenerationFails
  <1>8. CASE map_coverage
    BY <1>1, <1>8 DEF map_coverage
  <1>9. QED
    BY <1>1, <1>5, <1>6, <1>7, <1>8 DEF Next, vars, StartStep, GeneratorStep

LEMMA TypeStep ==
    ASSUME TypeOK, BusyRule, [Next]_vars
    PROVE  TypeOK'
  <1>1. CASE UNCHANGED vars
    BY <1>1 DEF vars, TypeOK
  <1>2. ASSUME NEW g \in Generators, GeneratorStep(g)
        PROVE  TypeOK'
    BY <1>2, GeneratorTypes
  <1>3. ASSUME NEW s \in Reviewers, StartStep(s)
        PROVE  TypeOK'
    BY <1>3, StartTypes
  <1>4. ASSUME NEW s \in Reviewers,
               SessStep(s) \/ NoTarget(s) \/ TransportFails(s) \/ RequestDies(s)
        PROVE  TypeOK'
    BY <1>4, DecideTypes, ShippingTypes DEF SessStep
  <1>5. CASE map_coverage
    BY <1>5 DEF map_coverage, TypeOK
  <1>6. QED
    BY <1>1, <1>2, <1>3, <1>4, <1>5 DEF Next, StartStep, GeneratorStep

LEMMA InitTypes ==
    ASSUME Init
    PROVE  TypeOK
  <1>1. /\ passes \in 0..MaxGenerations /\ requests \in 0..MaxRequests
        /\ failures \in 0..MaxFailures
    BY ConstantsAssumption DEF Init
  <1>2. /\ rules \in [RuleIds -> Row] /\ sess \in [Reviewers -> Session]
        /\ gen \in [Generators -> Generation]
    BY RecordTypes DEF Init
  <1>3. /\ repo \in [RuleIds -> Branch] /\ mapped \in BOOLEAN
        /\ covering \subseteq RuleIds \cup {NoRule} /\ raced \subseteq RuleIds
        /\ signed \in [RuleIds -> SUBSET (Texts \cup {NoText})]
        /\ direct \in [RuleIds -> SUBSET (Texts \cup {NoText})]
    BY DEF Init, Branch
  <1>4. QED
    BY <1>1, <1>2, <1>3 DEF TypeOK

\* All of the state stays well formed.
THEOREM TypeCorrect == Spec => []TypeOK
  <1>1. Init => TypeOK /\ BusyRule
    <2>1. ASSUME Init
          PROVE  TypeOK
      BY <2>1, InitTypes
    <2>2. ASSUME Init
          PROVE  BusyRule
      BY <2>2 DEF Init, BusyRule, Idle
    <2>3. QED
      BY <2>1, <2>2
  <1>2. TypeOK /\ BusyRule /\ [Next]_vars => TypeOK' /\ BusyRule'
    BY TypeStep, BusyRuleStep
  <1>3. QED
    BY <1>1, <1>2, PTL DEF Spec

-----------------------------------------------------------------------------
(* What reaches the Git host was approved, or submitted by the rule's id.  *)
(* The text of a rule changes only when an approved edit is committed, so  *)
(* a request that has loaded a text either still has the current one or    *)
(* the current one is signed: an approval always leaves a signed text in   *)
(* the row, which is what its refresh reads and what is sent.              *)

Allowed(r) == signed[r] \cup direct[r]

SessInv(s) ==
    /\ sess[s].pc # "idle" => Exists(sess[s].rule)
    /\ sess[s].pc = "loaded" =>
          \/ sess[s].row.text = rules[sess[s].rule].text
          \/ rules[sess[s].rule].text \in signed[sess[s].rule]
    /\ sess[s].pc = "approved" => rules[sess[s].rule].text \in signed[sess[s].rule]
    /\ sess[s].pc \in {"sending", "created"} => sess[s].row.text \in Allowed(sess[s].rule)
    /\ sess[s].pc = "created" => repo[sess[s].rule].open

RuleInv(r) ==
    /\ repo[r].text # NoText => repo[r].text \in Allowed(r)
    /\ rules[r].pr \/ rules[r].status = "submitted" => repo[r].open

ReviewInv ==
    /\ TypeOK
    /\ BusyRule
    /\ \A s \in Reviewers : SessInv(s)
    /\ \A r \in RuleIds : RuleInv(r)

\* What no step takes back.
Kept(r) ==
    /\ Exists(r) => /\ Exists(r)'
                    /\ rules'[r].text = rules[r].text \/ rules'[r].text \in signed'[r]
    /\ signed[r] \subseteq signed'[r] /\ direct[r] \subseteq direct'[r]
    /\ repo[r].open => repo'[r].open

\* A request that does not move keeps its part of the invariant.
LEMMA Bystander ==
    ASSUME BusyRule, NEW s \in Reviewers, SessInv(s), sess'[s] = sess[s],
           \A r \in RuleIds : Kept(r)
    PROVE  SessInv(s)'
  <1>1. CASE sess[s].pc = "idle"
    BY <1>1 DEF SessInv
  <1>2. CASE sess[s].pc # "idle"
    <2>1. sess[s].rule \in RuleIds /\ Exists(sess[s].rule) /\ Kept(sess[s].rule)
      BY <1>2 DEF BusyRule, SessInv
    <2>2. QED
      BY <1>2, <2>1 DEF SessInv, Kept, Exists, Allowed
  <1>3. QED
    BY <1>1, <1>2

LEMMA EndOfRequest ==
    ASSUME TypeOK, NEW s \in Reviewers, Goto(s, Idle)
    PROVE  SessInv(s)'
  BY DEF TypeOK, Goto, SessInv, Idle

\* A step that leaves texts, branches and sign-offs alone.
LEMMA TextsKept ==
    ASSUME \A r \in RuleIds : RuleInv(r), UNCHANGED <<repo, signed>>,
           \A r \in RuleIds : direct[r] \subseteq direct'[r],
           \A r \in RuleIds :
              /\ rules'[r].text = rules[r].text
              /\ \/ rules'[r].status = rules[r].status
                 \/ rules'[r].status = "rejected"
                 \/ rules'[r].status = "submitted" /\ repo[r].open
              /\ rules'[r].pr => rules[r].pr \/ repo[r].open
    PROVE  \A r \in RuleIds : Kept(r) /\ RuleInv(r)'
  BY DEF RuleInv, Kept, Exists, Allowed

\* A step of one request, from what it does to its session and to the rest.
LEMMA OneMoves ==
    ASSUME ReviewInv, NEW s \in Reviewers, NEW t, Goto(s, t),
           TypeOK', BusyRule', SessInv(s)',
           \A r \in RuleIds : Kept(r) /\ RuleInv(r)'
    PROVE  ReviewInv'
  <1>1. ASSUME NEW q \in Reviewers
        PROVE  SessInv(q)'
    <2>1. CASE q = s
      BY <2>1
    <2>2. CASE q # s
      <3>1. sess'[q] = sess[q]
        BY <2>2 DEF Goto, ReviewInv, TypeOK
      <3>2. QED
        BY <3>1, Bystander DEF ReviewInv
    <2>3. QED
      BY <2>1, <2>2
  <1>2. QED
    BY <1>1 DEF ReviewInv

LEMMA GeneratorKeeps ==
    ASSUME ReviewInv, NEW g \in Generators, GeneratorStep(g), TypeOK', BusyRule'
    PROVE  ReviewInv'
  <1>1. UNCHANGED <<sess, repo, signed, direct>>
    BY DEF GeneratorStep, GenStep, generate_rule, CommitRules, SelectPrior,
           supersede_prior_for_triple, GenerationFails
  <1>2. rules \in [RuleIds -> Row]
    BY DEF ReviewInv, TypeOK
  <1>3. \A r \in RuleIds : Kept(r) /\ RuleInv(r)'
    <2>1. CASE UNCHANGED rules
      BY <1>1, <2>1, TextsKept DEF ReviewInv
    <2>2. CASE supersede_prior_for_triple(g)
      <3>1. \A r \in RuleIds : /\ rules'[r].text = rules[r].text
                               /\ rules'[r].status = rules[r].status
                               /\ rules'[r].pr = rules[r].pr
        BY <1>2, <2>2 DEF supersede_prior_for_triple, Row
      <3>2. QED
        BY <1>1, <3>1, TextsKept DEF ReviewInv
    <2>3. CASE CommitRules(g) /\ ~UNCHANGED rules
      <3>1. PICK n \in RuleIds :
               ~Exists(n) /\ rules' = [rules EXCEPT ![n] = GeneratedRow(gen[g].text)]
        BY <2>3 DEF CommitRules, IsFresh
      <3>2. /\ GeneratedRow(gen[g].text).status \notin {"approved", "submitted"}
            /\ ~GeneratedRow(gen[g].text).pr
        BY DEF GeneratedRow, NoRow
      <3>3. ASSUME NEW r \in RuleIds
            PROVE  Kept(r) /\ RuleInv(r)'
        <4>1. CASE r = n
          <5>1. rules'[r] = GeneratedRow(gen[g].text)
            BY <1>2, <3>1, <4>1
          <5>2. QED
            BY <1>1, <3>1, <3>2, <4>1, <5>1 DEF Kept, RuleInv, ReviewInv, Allowed
        <4>2. CASE r # n
          <5>1. rules'[r] = rules[r]
            BY <1>2, <3>1, <4>2
          <5>2. QED
            BY <1>1, <5>1 DEF Kept, RuleInv, ReviewInv, Exists, Allowed
        <4>3. QED
          BY <4>1, <4>2
      <3>4. QED
        BY <3>3
    <2>4. QED
      BY <2>1, <2>2, <2>3 DEF GeneratorStep, GenStep, generate_rule, SelectPrior, GenerationFails
  <1>4. ASSUME NEW s \in Reviewers
        PROVE  SessInv(s)'
    BY <1>1, <1>3, Bystander DEF ReviewInv
  <1>5. QED
    BY <1>3, <1>4 DEF ReviewInv

LEMMA StartKeeps ==
    ASSUME ReviewInv, NEW s \in Reviewers, StartStep(s), TypeOK', BusyRule'
    PROVE  ReviewInv'
  <1>1. PICK r \in RuleIds :
           \/ \E op \in Ops : LoadPair(s, op, r)
           \/ \E t \in Texts : LoadEdit(s, r, t)
           \/ \E c \in RuleIds : LoadSupersede(s, r, c)
           \/ submit_by_ids(s, r)
    BY DEF StartStep
  <1>2. UNCHANGED <<rules, repo, signed>> /\ Exists(r)
    BY <1>1 DEF LoadPair, LoadEdit, LoadSupersede, submit_by_ids, Load, Exists
  <1>a. \A q \in RuleIds : direct[q] \subseteq direct'[q]
    BY <1>1 DEF LoadPair, LoadEdit, LoadSupersede, submit_by_ids, ReviewInv, TypeOK
  <1>3. \A q \in RuleIds : Kept(q) /\ RuleInv(q)'
    BY <1>2, <1>a, TextsKept DEF ReviewInv
  <1>4. ASSUME NEW t, Goto(s, t), t.rule = r, t.row = rules[r],
               \/ t.pc = "loaded"
               \/ t.pc = "sending" /\ rules[r].text \in direct'[r]
        PROVE  ReviewInv'
    <2>1. sess'[s] = t
      BY <1>4 DEF Goto, ReviewInv, TypeOK
    <2>2. SessInv(s)'
      BY <1>2, <1>4, <2>1 DEF SessInv, RuleInv, ReviewInv, Exists, Allowed
    <2>3. QED
      BY <1>3, <1>4, <2>2, OneMoves
  <1>5. CASE \E op \in Ops : LoadPair(s, op, r)
    <2>1. PICK op \in Ops : Goto(s, Loaded(op, r))
      BY <1>5 DEF LoadPair
    <2>2. Loaded(op, r).rule = r /\ Loaded(op, r).row = rules[r] /\ Loaded(op, r).pc = "loaded"
      BY DEF Loaded, Idle
    <2>3. QED
      BY <1>4, <2>1, <2>2
  <1>6. CASE \E t \in Texts : LoadEdit(s, r, t)
    <2>1. PICK t \in Texts : Goto(s, [Loaded("edit", r) EXCEPT !.text = t])
      BY <1>6 DEF LoadEdit
    <2> DEFINE u == [Loaded("edit", r) EXCEPT !.text = t]
    <2>2. u.rule = r /\ u.row = rules[r] /\ u.pc = "loaded"
      BY DEF Loaded, Idle
    <2> HIDE DEF u
    <2>3. QED
      BY <1>4, <2>1, <2>2 DEF u
  <1>7. CASE \E c \in RuleIds : LoadSupersede(s, r, c)
    <2>1. PICK c \in RuleIds :
             Goto(s, [Loaded("supersede", r) EXCEPT !.chosen = c, !.mapped = mapped,
                                              !.covering = covering])
      BY <1>7 DEF LoadSupersede
    <2> DEFINE u == [Loaded("supersede", r) EXCEPT !.chosen = c, !.mapped = mapped,
                                              !.covering = covering]
    <2>2. u.rule = r /\ u.row = rules[r] /\ u.pc = "loaded"
      BY DEF Loaded, Idle
    <2> HIDE DEF u
    <2>3. QED
      BY <1>4, <2>1, <2>2 DEF u
  <1>8. CASE submit_by_ids(s, r)
    <2> DEFINE u == [Loaded("submit", r) EXCEPT !.pc = "sending"]
    <2>1. Goto(s, u) /\ rules[r].text \in direct'[r]
      BY <1>8 DEF submit_by_ids, ReviewInv, TypeOK
    <2>2. u.rule = r /\ u.row = rules[r] /\ u.pc = "sending"
      BY DEF Loaded, Idle
    <2> HIDE DEF u
    <2>3. QED
      BY <1>4, <2>1, <2>2
  <1>9. QED
    BY <1>1, <1>5, <1>6, <1>7, <1>8

\* The requests that end without touching a text or a branch.
LEMMA DecideKeeps ==
    ASSUME ReviewInv, NEW s \in Reviewers, TypeOK', BusyRule',
           AssignCommit(s) \/ reject(s) \/ supersede(s) \/ RecordPR(s)
              \/ NoTarget(s) \/ RequestDies(s)
    PROVE  ReviewInv'
  <1>1. /\ rules \in [RuleIds -> Row] /\ sess[s] \in Session
    BY DEF ReviewInv, TypeOK
  <1>2. Goto(s, Idle) /\ UNCHANGED <<repo, signed, direct>>
    BY DEF AssignCommit, reject, supersede, RecordPR, NoTarget, RequestDies
  <1>3. \A r \in RuleIds :
           /\ rules'[r].text = rules[r].text
           /\ \/ rules'[r].status = rules[r].status
              \/ rules'[r].status = "rejected"
              \/ rules'[r].status = "submitted" /\ repo[r].open
           /\ rules'[r].pr => rules[r].pr \/ repo[r].open
    <2>1. CASE AssignCommit(s)
      BY <1>1, <2>1 DEF AssignCommit, Row
    <2>2. CASE reject(s)
      <3>1. \A r \in RuleIds :
               /\ Decided(rules[r], sess[s], "rejected").text = rules[r].text
               /\ Decided(rules[r], sess[s], "rejected").pr = rules[r].pr
               /\ Decided(rules[r], sess[s], "rejected").status \in {"rejected", rules[r].status}
        BY <1>1, DecisionTypes
      <3>2. QED
        BY <1>1, <2>2, <3>1 DEF reject
    <2>3. CASE supersede(s)
      <3>1. \A r \in RuleIds : /\ Superseded(rules[r], sess[s]).text = rules[r].text
                               /\ Superseded(rules[r], sess[s]).pr = rules[r].pr
                               /\ Superseded(rules[r], sess[s]).status = rules[r].status
        BY <1>1, DecisionTypes
      <3>2. QED
        BY <1>1, <2>3, <3>1 DEF supersede
    <2>4. CASE RecordPR(s)
      <3>1. \A r \in RuleIds :
               /\ Recorded(rules[r], sess[s]).text = rules[r].text
               /\ Recorded(rules[r], sess[s]).status \in {"submitted", rules[r].status}
        BY <1>1, DecisionTypes
      <3>2. repo[sess[s].rule].open
        BY <2>4 DEF RecordPR, ReviewInv, SessInv
      <3>3. rules' = [rules EXCEPT ![sess[s].rule] = Recorded(@, sess[s])]
        BY <2>4 DEF RecordPR
      <3>4. QED
        BY <1>1, <3>1, <3>2, <3>3
    <2>5. CASE NoTarget(s) \/ RequestDies(s)
      BY <2>5 DEF NoTarget, RequestDies
    <2>6. QED
      BY <2>1, <2>2, <2>3, <2>4, <2>5
  <1>4. \A r \in RuleIds : Kept(r) /\ RuleInv(r)'
    BY <1>2, <1>3, TextsKept DEF ReviewInv
  <1>5. SessInv(s)'
    BY <1>2, EndOfRequest DEF ReviewInv
  <1>6. QED
    BY <1>2, <1>4, <1>5, OneMoves

\* An approval leaves a signed text in the row, whoever wrote it.
LEMMA ApproveKeeps ==
    ASSUME ReviewInv, NEW s \in Reviewers, TypeOK', BusyRule', approve(s)
    PROVE  ReviewInv'
  <1> DEFINE n == sess[s].rule
             new == Edited(Decided(rules[n], sess[s], "approved"), sess[s])
  <1>1. /\ rules \in [RuleIds -> Row] /\ sess[s] \in Session
        /\ signed \in [RuleIds -> SUBSET (Texts \cup {NoText})]
    BY DEF ReviewInv, TypeOK
  <1>2. n \in RuleIds /\ Exists(n)
    BY DEF approve, AfterApproval, ReviewInv, BusyRule, SessInv
  <1>3. /\ rules' = [rules EXCEPT ![n] = new]
        /\ signed' = [signed EXCEPT ![n] = @ \cup {SignedText(sess[s])}]
        /\ UNCHANGED <<repo, direct>>
    BY DEF approve, AfterApproval
  <1>4. /\ new.status \in {"approved", rules[n].status}
        /\ new.pr = rules[n].pr
        /\ new.text = IF sess[s].op = "edit" /\ sess[s].text # sess[s].row.text
                      THEN sess[s].text ELSE rules[n].text
    <2> DEFINE mid == Decided(rules[n], sess[s], "approved")
    <2>1. /\ mid \in Row
          /\ mid.status \in {"approved", rules[n].status}
          /\ mid.pr = rules[n].pr
          /\ mid.text = rules[n].text
      BY <1>1, <1>2, DecisionTypes
    <2> HIDE DEF mid
    <2>2. /\ Edited(mid, sess[s]).status = mid.status
          /\ Edited(mid, sess[s]).pr = mid.pr
          /\ Edited(mid, sess[s]).text = IF sess[s].op = "edit" /\ sess[s].text # sess[s].row.text
                                         THEN sess[s].text ELSE mid.text
      BY <1>1, <2>1, DecisionTypes
    <2>3. new = Edited(mid, sess[s])
      BY DEF mid
    <2>4. QED
      BY <2>1, <2>2, <2>3
  <1>5. sess[s].row.text = rules[n].text \/ rules[n].text \in signed[n]
    BY DEF approve, AfterApproval, ReviewInv, SessInv
  <1>6. new.text \in signed'[n]
    BY <1>1, <1>2, <1>3, <1>4, <1>5 DEF SignedText
  <1>7. rules'[n] = new /\ signed[n] \subseteq signed'[n]
    BY <1>1, <1>2, <1>3
  <1> HIDE DEF new
  <1>8. ASSUME NEW r \in RuleIds
        PROVE  Kept(r) /\ RuleInv(r)'
    <2>1. CASE r = n
      BY <1>2, <1>3, <1>4, <1>6, <1>7, <2>1 DEF Kept, RuleInv, ReviewInv, Exists, Allowed
    <2>2. CASE r # n
      <3>1. rules'[r] = rules[r] /\ signed'[r] = signed[r]
        BY <1>1, <1>3, <2>2
      <3>2. QED
        BY <1>3, <3>1 DEF Kept, RuleInv, ReviewInv, Exists, Allowed
    <2>3. QED
      BY <2>1, <2>2
  <1>9. CASE Goto(s, Idle)
    BY <1>8, <1>9, EndOfRequest, OneMoves DEF ReviewInv
  <1>10. CASE Goto(s, [sess[s] EXCEPT !.pc = "approved"])
    <2>1. sess'[s].pc = "approved" /\ sess'[s].rule = n
      BY <1>1, <1>10 DEF Goto, ReviewInv, TypeOK, Session
    <2>2. rules'[n].status # "absent"
      BY <1>2, <1>4, <1>7 DEF Exists
    <2>3. SessInv(s)'
      BY <1>6, <1>7, <2>1, <2>2 DEF SessInv, Exists
    <2>4. QED
      BY <1>8, <1>10, <2>3, OneMoves
  <1>11. QED
    BY <1>9, <1>10 DEF approve, AfterApproval

LEMMA ShippingKeeps ==
    ASSUME ReviewInv, NEW s \in Reviewers, TypeOK', BusyRule',
           Refresh(s) \/ PullRequestCreated(s) \/ PullRequestExists(s) \/ TransportFails(s)
    PROVE  ReviewInv'
  <1> DEFINE n == sess[s].rule
  <1>1. /\ sess[s] \in Session /\ repo \in [RuleIds -> Branch]
    BY DEF ReviewInv, TypeOK
  <1>2. n \in RuleIds /\ Exists(n) /\ UNCHANGED <<rules, signed, direct>>
    BY DEF ReviewInv, BusyRule, SessInv, Refresh, PullRequestCreated, PullRequestExists,
           TransportFails
  <1>3. \A r \in RuleIds : Kept(r) /\ RuleInv(r)'
    <2>1. CASE Refresh(s)
      BY <1>2, <2>1, TextsKept DEF Refresh, ReviewInv
    <2>2. CASE PullRequestCreated(s) \/ PullRequestExists(s) \/ TransportFails(s)
      <3>1. sess[s].row.text \in Allowed(n)
        BY <2>2 DEF PullRequestCreated, PullRequestExists, TransportFails, ReviewInv, SessInv
      <3>2. \A r \in RuleIds :
               /\ repo[r].open => repo'[r].open
               /\ repo'[r].text \in {repo[r].text} \cup (IF r = n THEN {sess[s].row.text} ELSE {})
        <4>1. CASE PullRequestCreated(s)
          BY <1>1, <4>1 DEF PullRequestCreated, Branch
        <4>2. CASE PullRequestExists(s)
          BY <1>1, <4>2 DEF PullRequestExists, Branch
        <4>3. CASE TransportFails(s)
          <5>1. CASE UNCHANGED repo
            BY <5>1
          <5>2. CASE repo' = [repo EXCEPT ![n].text = sess[s].row.text]
            BY <1>1, <5>2 DEF Branch
          <5>3. CASE repo' = [repo EXCEPT ![n] = [text |-> sess[s].row.text, open |-> TRUE]]
            BY <1>1, <5>3 DEF Branch
          <5>4. QED
            BY <4>3, <5>1, <5>2, <5>3 DEF TransportFails
        <4>4. QED
          BY <2>2, <4>1, <4>2, <4>3
      <3>3. QED
        BY <1>2, <3>1, <3>2 DEF Kept, RuleInv, ReviewInv, Exists, Allowed
    <2>3. QED
      BY <2>1, <2>2
  <1>4. CASE Goto(s, Idle)
    BY <1>3, <1>4, EndOfRequest, OneMoves DEF ReviewInv
  <1>5. CASE Refresh(s)
    <2>1. /\ Goto(s, [sess[s] EXCEPT !.pc = "sending", !.row = rules[n]])
          /\ rules[n].text \in Allowed(n)
      BY <1>5 DEF Refresh, ReviewInv, SessInv, Allowed
    <2>2. sess'[s].pc = "sending" /\ sess'[s].rule = n /\ sess'[s].row = rules[n]
      BY <1>1, <2>1 DEF Goto, ReviewInv, TypeOK, Session
    <2>3. SessInv(s)'
      BY <1>2, <2>1, <2>2 DEF SessInv, Exists, Allowed
    <2>4. QED
      BY <1>3, <2>1, <2>3, OneMoves
  <1>6. CASE PullRequestCreated(s)
    <2>1. /\ Goto(s, [sess[s] EXCEPT !.pc = "created"])
          /\ sess[s].row.text \in Allowed(n)
      BY <1>6 DEF PullRequestCreated, ReviewInv, SessInv
    <2>2. sess'[s].pc = "created" /\ sess'[s].rule = n /\ sess'[s].row = sess[s].row
      BY <1>1, <2>1 DEF Goto, ReviewInv, TypeOK, Session
    <2>3. repo'[n].open
      BY <1>1, <1>2, <1>6 DEF PullRequestCreated
    <2>4. SessInv(s)'
      BY <1>2, <2>1, <2>2, <2>3 DEF SessInv, Exists, Allowed
    <2>5. QED
      BY <1>3, <2>1, <2>4, OneMoves
  <1>7. QED
    BY <1>4, <1>5, <1>6 DEF PullRequestExists, TransportFails

LEMMA ReviewInvariant == Spec => []ReviewInv
  <1>1. Init => ReviewInv
    <2> SUFFICES ASSUME Init PROVE ReviewInv
      OBVIOUS
    <2>2. TypeOK
      BY InitTypes
    <2>3. BusyRule /\ \A s \in Reviewers : SessInv(s)
      BY DEF Init, BusyRule, SessInv, Idle
    <2>4. \A r \in RuleIds : RuleInv(r)
      BY DEF Init, RuleInv, NoRow
    <2>5. QED
      BY <2>2, <2>3, <2>4 DEF ReviewInv
  <1>2. ReviewInv /\ [Next]_vars => ReviewInv'
    <2> SUFFICES ASSUME ReviewInv, [Next]_vars PROVE ReviewInv'
      OBVIOUS
    <2>2. TypeOK' /\ BusyRule'
      BY TypeStep, BusyRuleStep DEF ReviewInv
    <2>3. CASE UNCHANGED vars
      BY <2>3 DEF vars, ReviewInv, TypeOK, BusyRule, SessInv, RuleInv, Exists, Allowed
    <2>4. ASSUME NEW g \in Generators, GeneratorStep(g)
          PROVE  ReviewInv'
      BY <2>2, <2>4, GeneratorKeeps
    <2>5. ASSUME NEW s \in Reviewers, StartStep(s)
          PROVE  ReviewInv'
      BY <2>2, <2>5, StartKeeps
    <2>6. ASSUME NEW s \in Reviewers,
                 SessStep(s) \/ NoTarget(s) \/ TransportFails(s) \/ RequestDies(s)
          PROVE  ReviewInv'
      BY <2>2, <2>6, DecideKeeps, ApproveKeeps, ShippingKeeps DEF SessStep
    <2>7. CASE map_coverage
      BY <2>2, <2>7 DEF map_coverage, ReviewInv, SessInv, RuleInv, Exists, Allowed
    <2>8. QED
      BY <2>3, <2>4, <2>5, <2>6, <2>7 DEF Next, StartStep, GeneratorStep
  <1>3. QED
    BY <1>1, <1>2, PTL DEF Spec

\* Whatever text reaches the Git host, a reviewer approved it for that rule or
\* an operator submitted the rule by its id.
THEOREM HumanReview == Spec => []ShippedTextWasApproved
  <1>1. ReviewInv => ShippedTextWasApproved
    BY DEF ReviewInv, RuleInv, ShippedTextWasApproved, Allowed
  <1>2. QED
    BY <1>1, ReviewInvariant, PTL

\* A rule recorded as submitted has a pull request on the host.
THEOREM RecordedExists == Spec => []RecordedPRExists
  <1>1. ReviewInv => RecordedPRExists
    BY DEF ReviewInv, RuleInv, RecordedPRExists
  <1>2. QED
    BY <1>1, ReviewInvariant, PTL

-----------------------------------------------------------------------------
(* Requests that overlap on other rules only. Until two operations have    *)
(* worked on one rule at a time, whoever is about to write its rows still  *)
(* has them as they are, so that the guard it passed holds when it writes. *)

\* Nobody has written a decision since.
Agree(row, cur) == row.status = cur.status /\ row.item = cur.item

\* A request on r is past the guard, and has what it read.
Fresh(s, r) ==
    /\ sess[s].pc = "loaded" =>
          /\ Agree(sess[s].row, rules[r])
          /\ rules[r].item \notin TERMINAL_QUEUE_STATUSES
    /\ sess[s].pc = "approved" =>
          /\ rules[r].item = "approved"
          /\ rules[r].status = "approved"
    /\ sess[s].pc \in {"sending", "created"} =>
          /\ Agree(sess[s].row, rules[r])
          /\ rules[r].item = "approved" \/ sess[s].row.text \in direct[r]

Alone(r) ==
    /\ \A s, q \in Reviewed(r) : s = q
    /\ \A g, h \in Superseding(r) : g = h
    /\ Reviewed(r) = {} \/ Superseding(r) = {}

\* The two rows of a rule agree, and the host has what was approved or submitted.
Settled(r) ==
    /\ Exists(r) \/ rules[r].item = "absent"
    /\ rules[r].status = "approved" => rules[r].item = "approved"
    /\ rules[r].item = "approved" => rules[r].status \in {"approved", "submitted"}
    /\ rules[r].status = "submitted" => rules[r].item = "approved" \/ direct[r] # {}
    /\ rules[r].item = "rejected" <=> rules[r].status = "rejected"
    /\ repo[r].text # NoText =>
          /\ Exists(r)
          /\ rules[r].item = "approved" \/ repo[r].text \in direct[r]

RuleTurn(r) ==
    /\ Alone(r)
    /\ \A s \in Reviewed(r) : Fresh(s, r)
    /\ Superseding(r) # {} => rules[r].item = "pending"
    /\ Settled(r)

TurnInv == \A r \in RuleIds \ raced : RuleTurn(r)

\* What a decision is never changed by.
Stands(r) == rules[r].item \in TERMINAL_QUEUE_STATUSES => rules'[r].item = rules[r].item

\* A rule that the step is not about.
LEMMA Elsewhere ==
    ASSUME NEW r \in RuleIds, RuleTurn(r), Agree(rules'[r], rules[r]),
           repo'[r].text = repo[r].text, direct'[r] = direct[r],
           Superseding(r)' \subseteq Superseding(r),
           Reviewed(r)' \subseteq Reviewed(r),
           \A s \in Reviewed(r)' : sess'[s] = sess[s]
    PROVE  RuleTurn(r)' /\ Stands(r)
  <1>1. Alone(r)'
    BY DEF RuleTurn, Alone
  <1>2. ASSUME NEW s \in Reviewed(r)'
        PROVE  Fresh(s, r)'
    BY <1>2 DEF RuleTurn, Fresh, Agree
  <1>3. Superseding(r)' # {} => rules'[r].item = "pending"
    BY DEF RuleTurn, Agree
  <1>4. Settled(r)'
    BY DEF RuleTurn, Settled, Exists, Agree
  <1>5. QED
    BY <1>1, <1>2, <1>3, <1>4 DEF RuleTurn, Stands, Agree

\* What one request leaves alone of the other rules.
LEMMA OthersKept ==
    ASSUME TypeOK, NEW s \in Reviewers, NEW t, Goto(s, t), UNCHANGED gen,
           NEW r \in RuleIds, sess[s].pc = "idle" \/ sess[s].rule # r,
           t.pc = "idle" \/ t.rule # r
    PROVE  /\ Superseding(r)' = Superseding(r)
           /\ Reviewed(r)' = Reviewed(r)
           /\ \A q \in Reviewed(r)' : sess'[q] = sess[q]
  <1>1. sess'[s] = t /\ \A q \in Reviewers : q # s => sess'[q] = sess[q]
    BY DEF Goto, TypeOK
  <1>2. QED
    BY <1>1 DEF Superseding, Reviewed

\* The rule a request is on.
LEMMA OwnRule ==
    ASSUME TypeOK, NEW s \in Reviewers, NEW t, Goto(s, t), UNCHANGED gen,
           NEW r \in RuleIds, Alone(r),
           s \in Reviewed(r) \/ ~Busy(r),
           t.pc = "idle" \/ t.rule = r
    PROVE  /\ Alone(r)' /\ Superseding(r)' = {}
           /\ Reviewed(r)' = IF t.pc = "idle" THEN {} ELSE {s}
  <1>1. sess'[s] = t /\ \A q \in Reviewers : q # s => sess'[q] = sess[q]
    BY DEF Goto, TypeOK
  <1>2. Superseding(r) = {} /\ \A q \in Reviewed(r) : q = s
    BY DEF Alone, Busy
  <1>3. Superseding(r)' = {}
    BY <1>2 DEF Superseding
  <1>4. Reviewed(r)' = IF t.pc = "idle" THEN {} ELSE {s}
    BY <1>1, <1>2 DEF Reviewed
  <1>5. QED
    BY <1>3, <1>4 DEF Alone

\* What a generator's step leaves alone.
LEMMA GeneratorMoves ==
    ASSUME TypeOK, NEW g \in Generators, NEW x, gen' = [gen EXCEPT ![g] = x], UNCHANGED sess,
           NEW r \in RuleIds
    PROVE  /\ Reviewed(r)' = Reviewed(r)
           /\ \A q \in Reviewed(r)' : sess'[q] = sess[q]
           /\ Superseding(r)' \ {g} = Superseding(r) \ {g}
           /\ x.pc # "superseding" \/ r \notin x.pending => g \notin Superseding(r)'
  <1>1. gen'[g] = x /\ \A h \in Generators : h # g => gen'[h] = gen[h]
    BY DEF TypeOK
  <1>2. QED
    BY <1>1 DEF Reviewed, Superseding

LEMMA CommitTurn ==
    ASSUME ReviewInv, TurnInv, NEW g \in Generators, CommitRules(g),
           NEW r \in RuleIds \ raced'
    PROVE  RuleTurn(r)' /\ Stands(r)
  <1>1. /\ TypeOK /\ rules \in [RuleIds -> Row] /\ gen[g] \in Generation
        /\ UNCHANGED <<sess, repo, direct>> /\ r \in RuleIds \ raced /\ RuleTurn(r)
    BY DEF ReviewInv, TypeOK, CommitRules, TurnInv
  <1>2. PICK x : gen' = [gen EXCEPT ![g] = x] /\ x.pc \in {"idle", "committed"}
    <2> DEFINE done(n) == IF g \in Feed THEN NoGeneration
                          ELSE [gen[g] EXCEPT !.pc = "committed", !.rule = n]
    <2>1. \A n : done(n).pc \in {"idle", "committed"}
      BY <1>1 DEF Generation, NoGeneration
    <2>2. \E n : gen' = [gen EXCEPT ![g] = done(n)]
      BY DEF CommitRules
    <2> HIDE DEF done
    <2>3. QED
      BY <2>1, <2>2
  <1>3. /\ Superseding(r)' \subseteq Superseding(r) /\ Reviewed(r)' = Reviewed(r)
        /\ \A q \in Reviewed(r)' : sess'[q] = sess[q]
    BY <1>1, <1>2, GeneratorMoves
  <1>4. CASE rules'[r] = rules[r]
    BY <1>1, <1>3, <1>4, Elsewhere DEF Agree
  <1>5. CASE rules'[r] # rules[r]
    <2>1. ~Exists(r) /\ rules' = [rules EXCEPT ![r] = GeneratedRow(gen[g].text)]
      BY <1>1, <1>5 DEF CommitRules, IsFresh
    <2>2. /\ rules'[r].status \in {"generated", "invalid"} /\ rules'[r].item = "pending"
      <3>1. /\ GeneratedRow(gen[g].text).status \in {"generated", "invalid"}
            /\ GeneratedRow(gen[g].text).item = "pending"
        BY DEF GeneratedRow, NoRow
      <3>2. QED
        BY <1>1, <2>1, <3>1
    <2>3. Reviewed(r) = {}
      BY <2>1 DEF Reviewed, ReviewInv, SessInv
    <2>4. rules[r].item = "absent" /\ repo[r].text = NoText
      BY <1>1, <2>1 DEF RuleTurn, Settled
    <2>5. Superseding(r) = {}
      BY <1>1, <2>4 DEF RuleTurn
    <2>6. Settled(r)'
      BY <1>1, <2>2, <2>4 DEF Settled, Exists
    <2>7. QED
      BY <1>3, <2>2, <2>3, <2>4, <2>5, <2>6 DEF RuleTurn, Alone, Stands, TERMINAL_QUEUE_STATUSES
  <1>6. QED
    BY <1>4, <1>5

LEMMA SelectTurn ==
    ASSUME ReviewInv, TurnInv, NEW g \in Generators, SelectPrior(g),
           NEW r \in RuleIds \ raced'
    PROVE  RuleTurn(r)' /\ Stands(r)
  <1> DEFINE p == {n \in RuleIds \ {gen[g].rule} : rules[n].item = "pending"}
             a == {n \in RuleIds \ {gen[g].rule} :
                      rules[n].status = "approved" /\ rules[n].dep = NoRule}
             x == [gen[g] EXCEPT !.pc = "superseding", !.pending = p, !.approved = a]
  <1>1. /\ TypeOK /\ gen[g] \in Generation /\ gen \in [Generators -> Generation]
        /\ UNCHANGED <<rules, sess, repo, direct>>
        /\ gen' = [gen EXCEPT ![g] = x]
    BY DEF ReviewInv, TypeOK, SelectPrior
  <1>2. x.pending = p
    <2> HIDE DEF a, p
    <2>1. QED
      BY <1>1 DEF Generation
  <1>3. gen'[g].pending = p
    <2> HIDE DEF x, p
    <2>1. QED
      BY <1>1, <1>2
  <1>4. r \in RuleIds \ raced /\ (r \in p => ~Busy(r))
    BY <1>3 DEF SelectPrior, Reads
  <1>5. RuleTurn(r)
    BY <1>4 DEF TurnInv
  <1>6. g \notin Superseding(r)
    BY DEF SelectPrior, Superseding
  <1> HIDE DEF x
  <1>7. /\ Reviewed(r)' = Reviewed(r)
        /\ \A q \in Reviewed(r)' : sess'[q] = sess[q]
        /\ Superseding(r)' \ {g} = Superseding(r)
        /\ r \notin p => g \notin Superseding(r)'
    <2> HIDE DEF p
    <2>1. r \in RuleIds
      BY <1>4
    <2>2. /\ Reviewed(r)' = Reviewed(r)
          /\ \A q \in Reviewed(r)' : sess'[q] = sess[q]
          /\ Superseding(r)' \ {g} = Superseding(r) \ {g}
          /\ x.pc # "superseding" \/ r \notin x.pending => g \notin Superseding(r)'
      BY <1>1, <2>1, GeneratorMoves
    <2>3. QED
      BY <1>2, <1>6, <2>2
  <1>8. CASE r \notin p
    BY <1>1, <1>4, <1>5, <1>7, <1>8, Elsewhere DEF Agree
  <1>9. CASE r \in p
    <2>1. Reviewed(r)' = {} /\ Superseding(r)' \subseteq {g}
      BY <1>4, <1>7, <1>9 DEF Busy
    <2>2. rules'[r].item = "pending"
      BY <1>1, <1>9
    <2>3. Settled(r)'
      BY <1>1, <1>5 DEF RuleTurn, Settled, Exists
    <2>4. QED
      BY <1>1, <2>1, <2>2, <2>3 DEF RuleTurn, Alone, Stands
  <1>10. QED
    BY <1>8, <1>9

LEMMA SupersedeTurn ==
    ASSUME ReviewInv, TurnInv, NEW g \in Generators, supersede_prior_for_triple(g),
           NEW r \in RuleIds \ raced'
    PROVE  RuleTurn(r)' /\ Stands(r)
  <1>1. /\ TypeOK /\ rules \in [RuleIds -> Row] /\ gen[g].pc = "superseding"
        /\ UNCHANGED <<sess, repo, direct>> /\ r \in RuleIds \ raced /\ RuleTurn(r)
        /\ gen' = [gen EXCEPT ![g] = NoGeneration]
    BY DEF ReviewInv, TypeOK, supersede_prior_for_triple, TurnInv
  <1>2. /\ rules'[r].status = rules[r].status
        /\ rules'[r].item = IF r \in gen[g].pending THEN "superseded" ELSE rules[r].item
    BY <1>1 DEF supersede_prior_for_triple, Row
  <1>3. /\ Reviewed(r)' = Reviewed(r)
        /\ \A q \in Reviewed(r)' : sess'[q] = sess[q]
        /\ Superseding(r)' = Superseding(r) \ {g}
    <2>1. NoGeneration.pc # "superseding"
      BY DEF NoGeneration
    <2>2. QED
      BY <1>1, <2>1, GeneratorMoves
  <1>4. CASE r \notin gen[g].pending
    BY <1>1, <1>2, <1>3, <1>4, Elsewhere DEF Agree
  <1>5. CASE r \in gen[g].pending
    <2>1. g \in Superseding(r)
      BY <1>1, <1>5 DEF Superseding
    <2>2. rules[r].item = "pending" /\ Reviewed(r) = {} /\ Superseding(r)' = {}
      BY <1>1, <1>3, <2>1 DEF RuleTurn, Alone
    <2>3. Settled(r)'
      BY <1>1, <1>2, <1>5, <2>2 DEF RuleTurn, Settled, Exists
    <2>4. QED
      BY <1>3, <2>2, <2>3 DEF RuleTurn, Alone, Stands, TERMINAL_QUEUE_STATUSES
  <1>6. QED
    BY <1>4, <1>5

LEMMA GeneratorSettles ==
    ASSUME ReviewInv, TurnInv, NEW g \in Generators, GeneratorStep(g),
           NEW r \in RuleIds \ raced'
    PROVE  RuleTurn(r)' /\ Stands(r)
  <1>1. CASE (\E t \in Texts : generate_rule(g, t)) \/ GenerationFails(g)
    <2>1. /\ TypeOK /\ UNCHANGED <<rules, sess, repo, direct, raced>>
      BY <1>1 DEF ReviewInv, generate_rule, GenerationFails
    <2>2. PICK x : gen' = [gen EXCEPT ![g] = x] /\ x.pc # "superseding"
      <3>1. CASE GenerationFails(g)
        <4>1. NoGeneration.pc # "superseding"
          BY DEF NoGeneration
        <4>2. gen' = [gen EXCEPT ![g] = NoGeneration]
          BY <3>1 DEF GenerationFails
        <4>3. QED
          BY <4>1, <4>2
      <3>2. CASE \E t \in Texts : generate_rule(g, t)
        <4> DEFINE y(t, n) == IF Cardinality(Hit(t)) > 1 THEN NoGeneration
                              ELSE [pc |-> "generated", text |-> t, rule |-> n,
                                    pending |-> {}, approved |-> {}]
        <4>1. \A t, n : y(t, n).pc # "superseding"
          BY DEF NoGeneration
        <4>2. PICK t, n : gen' = [gen EXCEPT ![g] = y(t, n)]
          BY <3>2 DEF generate_rule
        <4> HIDE DEF y
        <4>3. QED
          BY <4>1, <4>2
      <3>3. QED
        BY <1>1, <3>1, <3>2
    <2>3. /\ Superseding(r)' \subseteq Superseding(r) /\ Reviewed(r)' = Reviewed(r)
          /\ \A q \in Reviewed(r)' : sess'[q] = sess[q]
      BY <2>1, <2>2, GeneratorMoves
    <2>4. QED
      BY <2>1, <2>3, Elsewhere DEF TurnInv, Agree
  <1>2. QED
    BY <1>1, CommitTurn, SelectTurn, SupersedeTurn DEF GeneratorStep, GenStep

\* A request that starts finds the rule free or leaves it raced.
LEMMA StartSettles ==
    ASSUME ReviewInv, TurnInv, NEW s \in Reviewers, StartStep(s),
           NEW r \in RuleIds \ raced'
    PROVE  RuleTurn(r)' /\ Stands(r)
  <1>1. PICK n \in RuleIds :
           \/ \E op \in Ops : LoadPair(s, op, n)
           \/ \E t \in Texts : LoadEdit(s, n, t)
           \/ \E c \in RuleIds : LoadSupersede(s, n, c)
           \/ submit_by_ids(s, n)
    BY DEF StartStep
  <1>2. /\ UNCHANGED <<rules, repo, gen>> /\ TypeOK /\ Reads({n}) /\ sess[s].pc = "idle"
        /\ direct \in [RuleIds -> SUBSET (Texts \cup {NoText})]
        /\ \/ direct' = direct
           \/ direct' = [direct EXCEPT ![n] = @ \cup {rules[n].text}]
    BY <1>1 DEF LoadPair, LoadEdit, LoadSupersede, submit_by_ids, Load, MayRequest,
                ReviewInv, TypeOK
  <1>3. PICK t :
           /\ Goto(s, t) /\ t.rule = n /\ t.row = rules[n]
           /\ \/ t.pc = "loaded" /\ rules[n].item \notin TERMINAL_QUEUE_STATUSES
              \/ t.pc = "sending" /\ rules[n].text \in direct'[n]
    <2>1. CASE \E op \in Ops : LoadPair(s, op, n)
      <3>1. PICK op \in Ops : /\ Goto(s, Loaded(op, n))
                              /\ rules[n].item \notin TERMINAL_QUEUE_STATUSES
        BY <2>1 DEF LoadPair, Load, guard_action
      <3> DEFINE u == Loaded(op, n)
      <3>2. u.rule = n /\ u.row = rules[n] /\ u.pc = "loaded"
        BY DEF Loaded, Idle
      <3> HIDE DEF u
      <3>3. QED
        BY <3>1, <3>2 DEF u
    <2>2. CASE \E t \in Texts : LoadEdit(s, n, t)
      <3>1. PICK t \in Texts : /\ Goto(s, [Loaded("edit", n) EXCEPT !.text = t])
                               /\ rules[n].item \notin TERMINAL_QUEUE_STATUSES
        BY <2>2 DEF LoadEdit, Load, guard_action
      <3> DEFINE u == [Loaded("edit", n) EXCEPT !.text = t]
      <3>2. u.rule = n /\ u.row = rules[n] /\ u.pc = "loaded"
        BY DEF Loaded, Idle
      <3> HIDE DEF u
      <3>3. QED
        BY <3>1, <3>2 DEF u
    <2>3. CASE \E c \in RuleIds : LoadSupersede(s, n, c)
      <3>1. PICK c \in RuleIds :
               /\ Goto(s, [Loaded("supersede", n) EXCEPT !.chosen = c, !.mapped = mapped,
                                                        !.covering = covering])
               /\ rules[n].item \in {"pending", "in_review"}
        BY <2>3 DEF LoadSupersede
      <3> DEFINE u == [Loaded("supersede", n) EXCEPT !.chosen = c, !.mapped = mapped,
                                                    !.covering = covering]
      <3>2. u.rule = n /\ u.row = rules[n] /\ u.pc = "loaded"
        BY DEF Loaded, Idle
      <3> HIDE DEF u
      <3>3. QED
        BY <3>1, <3>2 DEF u, TERMINAL_QUEUE_STATUSES
    <2>4. CASE submit_by_ids(s, n)
      <3> DEFINE u == [Loaded("submit", n) EXCEPT !.pc = "sending"]
      <3>1. Goto(s, u) /\ rules[n].text \in direct'[n]
        BY <1>2, <2>4 DEF submit_by_ids
      <3>2. u.rule = n /\ u.row = rules[n] /\ u.pc = "sending"
        BY DEF Loaded, Idle
      <3> HIDE DEF u
      <3>3. QED
        BY <3>1, <3>2
    <2>5. QED
      BY <1>1, <2>1, <2>2, <2>3, <2>4
  <1>4. r \in RuleIds \ raced /\ RuleTurn(r)
    BY <1>2 DEF Reads, TurnInv
  <1>5. CASE r # n
    <2>1. direct'[r] = direct[r]
      BY <1>2, <1>5
    <2>2. QED
      BY <1>2, <1>3, <1>4, <1>5, <2>1, OthersKept, Elsewhere DEF Agree
  <1>6. CASE r = n
    <2>1. ~Busy(r)
      BY <1>2, <1>6 DEF Reads
    <2>2. Alone(r)' /\ Superseding(r)' = {} /\ Reviewed(r)' = {s}
      BY <1>2, <1>3, <1>4, <1>6, <2>1, OwnRule DEF RuleTurn
    <2>3. sess'[s] = t
      BY <1>2, <1>3 DEF Goto, TypeOK
    <2>4. Fresh(s, r)'
      BY <1>2, <1>3, <1>6, <2>3 DEF Fresh, Agree
    <2>5. Settled(r)'
      BY <1>2, <1>4, <1>6 DEF RuleTurn, Settled, Exists
    <2>6. QED
      BY <1>2, <2>2, <2>4, <2>5 DEF RuleTurn, Stands
  <1>7. QED
    BY <1>5, <1>6

\* A request on its own rule.
LEMMA RequestSettles ==
    ASSUME ReviewInv, TurnInv, NEW s \in Reviewers, NEW t, Goto(s, t),
           UNCHANGED <<gen, direct, raced>>, sess[s].pc # "idle",
           NEW n \in RuleIds, n = sess[s].rule, t.pc = "idle" \/ t.rule = n,
           \A r \in RuleIds \ {n} :
              Agree(rules'[r], rules[r]) /\ repo'[r].text = repo[r].text,
           n \notin raced => Settled(n)' /\ Stands(n) /\ (t.pc = "idle" \/ Fresh(s, n)')
    PROVE  \A r \in RuleIds \ raced' : RuleTurn(r)' /\ Stands(r)
  <1> TAKE r \in RuleIds \ raced'
  <1>1. TypeOK /\ r \in RuleIds \ raced /\ RuleTurn(r)
    BY DEF ReviewInv, TurnInv
  <1>2. CASE r # n
    <2>1. /\ Superseding(r)' = Superseding(r)
          /\ Reviewed(r)' = Reviewed(r)
          /\ \A q \in Reviewed(r)' : sess'[q] = sess[q]
      BY <1>1, <1>2, OthersKept
    <2>2. QED
      BY <1>1, <1>2, <2>1, Elsewhere
  <1>3. CASE r = n
    <2>1. s \in Reviewed(r)
      BY <1>3 DEF Reviewed
    <2>2. /\ Alone(r)' /\ Superseding(r)' = {}
          /\ Reviewed(r)' = IF t.pc = "idle" THEN {} ELSE {s}
      BY <1>1, <1>3, <2>1, OwnRule DEF RuleTurn
    <2>3. QED
      BY <1>1, <1>3, <2>2 DEF RuleTurn
  <1>4. QED
    BY <1>2, <1>3

\* What the writes make of a row whose decision is as it was loaded.
LEMMA FreshWrites ==
    ASSUME NEW row \in Row, NEW t \in Session, NEW st \in {"approved", "rejected"},
           Agree(t.row, row)
    PROVE  /\ Decided(row, t, st).status = st /\ Decided(row, t, st).item = st
           /\ Edited(Decided(row, t, st), t).status = st
           /\ Edited(Decided(row, t, st), t).item = st
           /\ Superseded(row, t).status = row.status
           /\ Superseded(row, t).item = "superseded"
  <1>1. Decided(row, t, st) \in Row
    BY DecisionTypes
  <1>2. Decided(row, t, st).status = st /\ Decided(row, t, st).item = st
    BY DEF Decided, Written, Row, Agree
  <1>3. \A mid \in Row : Edited(mid, t).status = mid.status /\ Edited(mid, t).item = mid.item
    BY DEF Edited, Row
  <1>4. Superseded(row, t).status = row.status /\ Superseded(row, t).item = "superseded"
    BY DEF Superseded, Row
  <1>5. QED
    BY <1>1, <1>2, <1>3, <1>4

LEMMA RecordWrites ==
    ASSUME NEW row \in Row, NEW t \in Session, Agree(t.row, row)
    PROVE  /\ Recorded(row, t).status = ShippedStatus(row.status)
           /\ Recorded(row, t).item = row.item
  BY DEF Recorded, Written, ShippedStatus, Row, Agree

LEMMA DecisionSettles ==
    ASSUME ReviewInv, TurnInv, NEW s \in Reviewers,
           AssignCommit(s) \/ reject(s) \/ approve(s) \/ supersede(s)
    PROVE  \A r \in RuleIds \ raced' : RuleTurn(r)' /\ Stands(r)
  <1>1. PICK n : n = sess[s].rule
    OBVIOUS
  <1>2. PICK t : t = sess[s]
    OBVIOUS
  <1>3. /\ rules \in [RuleIds -> Row] /\ t \in Session /\ n \in RuleIds /\ Exists(n)
        /\ t.pc = "loaded" /\ rules[n] \in Row /\ UNCHANGED <<repo, gen, direct, raced>>
        /\ TypeOK
    BY <1>1, <1>2 DEF ReviewInv, TypeOK, BusyRule, SessInv, AssignCommit, reject, approve, supersede
  <1>4. n \notin raced =>
           /\ RuleTurn(n) /\ Agree(t.row, rules[n])
           /\ rules[n].item \notin TERMINAL_QUEUE_STATUSES
    BY <1>1, <1>2, <1>3 DEF TurnInv, RuleTurn, Reviewed, Fresh
  <1>5. PICK u : Goto(s, u) /\ \/ u.pc = "idle"
                               \/ u.pc = "approved" /\ u.rule = n /\ approve(s)
    <2>1. [t EXCEPT !.pc = "approved"].pc = "approved" /\ [t EXCEPT !.pc = "approved"].rule = n
      BY <1>1, <1>2, <1>3 DEF Session
    <2>2. Goto(s, Idle) \/ (approve(s) /\ Goto(s, [t EXCEPT !.pc = "approved"]))
      BY <1>2 DEF AssignCommit, reject, approve, supersede, AfterApproval
    <2>3. Idle.pc = "idle"
      BY DEF Idle
    <2>4. QED
      BY <2>1, <2>2, <2>3
  <1>6. PICK new \in Row : rules' = [rules EXCEPT ![n] = new]
    <2>1. rules'[n] \in Row
      BY <1>3, DecideTypes DEF ReviewInv, TypeOK
    <2>2. rules' = [rules EXCEPT ![n] = rules'[n]]
      BY <1>1, <1>3 DEF AssignCommit, reject, approve, supersede
    <2>3. QED
      BY <2>1, <2>2
  <1>7. rules'[n] = new /\ \A r \in RuleIds \ {n} : rules'[r] = rules[r]
    BY <1>3, <1>6
  <1>8. ASSUME n \notin raced
        PROVE  /\ Settled(n)'
               /\ approve(s) => new.item = "approved" /\ new.status = "approved"
    <2>1. CASE AssignCommit(s)
      <3>1. new.status = rules[n].status /\ new.item \in {"in_review", rules[n].item}
        BY <1>1, <1>3, <1>7, <2>1 DEF AssignCommit, Row
      <3>2. ~approve(s)
        BY <2>1 DEF AssignCommit, approve
      <3>3. QED
        BY <1>3, <1>4, <1>7, <1>8, <3>1, <3>2
           DEF RuleTurn, Settled, Exists, TERMINAL_QUEUE_STATUSES
    <2>2. CASE reject(s)
      <3>1. new.status = "rejected" /\ new.item = "rejected"
        BY <1>1, <1>2, <1>3, <1>4, <1>7, <1>8, <2>2, FreshWrites DEF reject
      <3>2. ~approve(s)
        BY <2>2 DEF reject, approve
      <3>3. QED
        BY <1>3, <1>4, <1>7, <1>8, <3>1, <3>2
           DEF RuleTurn, Settled, Exists, TERMINAL_QUEUE_STATUSES
    <2>3. CASE approve(s)
      <3>1. new.status = "approved" /\ new.item = "approved"
        BY <1>1, <1>2, <1>3, <1>4, <1>7, <1>8, <2>3, FreshWrites DEF approve
      <3>2. QED
        BY <1>3, <1>4, <1>7, <1>8, <3>1 DEF RuleTurn, Settled, Exists
    <2>4. CASE supersede(s)
      <3>1. new.status = rules[n].status /\ new.item = "superseded"
        BY <1>1, <1>2, <1>3, <1>4, <1>7, <1>8, <2>4, FreshWrites DEF supersede
      <3>2. ~approve(s)
        BY <2>4 DEF supersede, approve
      <3>3. QED
        BY <1>3, <1>4, <1>7, <1>8, <3>1, <3>2
           DEF RuleTurn, Settled, Exists, TERMINAL_QUEUE_STATUSES
    <2>5. QED
      BY <2>1, <2>2, <2>3, <2>4
  <1>9. n \notin raced => Stands(n)
    BY <1>4 DEF Stands
  <1>10. n \notin raced => u.pc = "idle" \/ Fresh(s, n)'
    <2>1. sess'[s] = u
      BY <1>3, <1>5 DEF Goto, TypeOK
    <2>2. QED
      BY <1>5, <1>7, <1>8, <2>1 DEF Fresh
  <1>11. QED
    <2>1. sess[s].pc # "idle" /\ (u.pc = "idle" \/ u.rule = n)
      BY <1>2, <1>3, <1>5
    <2>2. \A r \in RuleIds \ {n} :
             Agree(rules'[r], rules[r]) /\ repo'[r].text = repo[r].text
      BY <1>3, <1>7 DEF Agree
    <2>3. QED
      BY <1>1, <1>3, <1>5, <1>8, <1>9, <1>10, <2>1, <2>2, RequestSettles

LEMMA ShippingSettles ==
    ASSUME ReviewInv, TurnInv, NEW s \in Reviewers,
           \/ Refresh(s) \/ PullRequestCreated(s) \/ PullRequestExists(s) \/ RecordPR(s)
           \/ TransportFails(s) \/ NoTarget(s) \/ RequestDies(s)
    PROVE  \A r \in RuleIds \ raced' : RuleTurn(r)' /\ Stands(r)
  <1>1. PICK n : n = sess[s].rule
    OBVIOUS
  <1>2. PICK t : t = sess[s]
    OBVIOUS
  <1>3. /\ TypeOK /\ t \in Session /\ repo \in [RuleIds -> Branch] /\ rules \in [RuleIds -> Row]
        /\ n \in RuleIds /\ Exists(n) /\ sess[s].pc # "idle"
        /\ UNCHANGED <<gen, direct, raced>>
    BY <1>1, <1>2 DEF ReviewInv, TypeOK, BusyRule, SessInv, Refresh, PullRequestCreated,
       PullRequestExists, RecordPR, TransportFails, NoTarget, RequestDies
  <1>4. n \notin raced => RuleTurn(n) /\ Fresh(s, n)
    BY <1>1, <1>3 DEF TurnInv, RuleTurn, Reviewed
  <1>5. /\ \A r \in RuleIds \ {n} : rules'[r] = rules[r] /\ repo'[r].text = repo[r].text
        /\ repo'[n].text \in {repo[n].text, t.row.text}
        /\ t.pc # "sending" => repo' = repo
        /\ ~RecordPR(s) => rules' = rules
    <2>1. CASE UNCHANGED <<rules, repo>>
      BY <2>1
    <2>2. CASE /\ t.pc = "sending" /\ rules' = rules
               /\ \/ repo' = [repo EXCEPT ![n].text = t.row.text]
                  \/ repo' = [repo EXCEPT ![n] = [text |-> t.row.text, open |-> TRUE]]
      <3>1. CASE repo' = [repo EXCEPT ![n].text = t.row.text]
        BY <1>3, <2>2, <3>1 DEF Branch
      <3>2. CASE repo' = [repo EXCEPT ![n] = [text |-> t.row.text, open |-> TRUE]]
        BY <1>3, <2>2, <3>2 DEF Branch
      <3>3. QED
        BY <2>2, <3>1, <3>2
    <2>3. CASE RecordPR(s)
      BY <1>1, <1>2, <1>3, <2>3 DEF RecordPR
    <2>4. QED
      BY <1>1, <1>2, <2>1, <2>2, <2>3 DEF Refresh, PullRequestCreated, PullRequestExists,
         TransportFails, NoTarget, RequestDies
  <1>6. PICK u : Goto(s, u) /\ \/ u.pc = "idle"
                               \/ u.pc = "sending" /\ u.rule = n /\ u.row = rules[n] /\ Refresh(s)
                               \/ /\ u.pc = "created" /\ u.rule = n /\ u.row = t.row
                                  /\ PullRequestCreated(s)
    <2> DEFINE u1 == [t EXCEPT !.pc = "sending", !.row = rules[n]]
               u2 == [t EXCEPT !.pc = "created"]
    <2>1. /\ u1.pc = "sending" /\ u1.rule = n /\ u1.row = rules[n]
          /\ u2.pc = "created" /\ u2.rule = n /\ u2.row = t.row
      BY <1>1, <1>2, <1>3 DEF Session
    <2>2. Idle.pc = "idle"
      BY DEF Idle
    <2>3. \/ Goto(s, Idle)
          \/ Refresh(s) /\ Goto(s, u1)
          \/ PullRequestCreated(s) /\ Goto(s, u2)
      BY <1>1, <1>2 DEF Refresh, PullRequestCreated, PullRequestExists, RecordPR,
                        TransportFails, NoTarget, RequestDies
    <2> HIDE DEF u1, u2
    <2>4. QED
      BY <2>1, <2>2, <2>3
  <1>7. ASSUME n \notin raced
        PROVE  Settled(n)' /\ Stands(n)
    <2>1. CASE RecordPR(s)
      <3>1. /\ Agree(t.row, rules[n]) /\ rules[n] \in Row
            /\ rules[n].item = "approved" \/ direct[n] # {}
        BY <1>2, <1>3, <1>4, <1>7, <2>1 DEF RecordPR, Fresh
      <3>2. rules'[n] = Recorded(rules[n], t) /\ repo' = repo
        BY <1>1, <1>2, <1>3, <2>1 DEF RecordPR
      <3>3. /\ rules'[n].status = ShippedStatus(rules[n].status)
            /\ rules'[n].item = rules[n].item
        BY <1>3, <3>1, <3>2, RecordWrites
      <3>4. QED
        BY <1>3, <1>4, <1>7, <3>1, <3>2, <3>3
           DEF RuleTurn, Settled, Exists, Stands, ShippedStatus
    <2>2. CASE ~RecordPR(s)
      <3>1. /\ rules' = rules
            /\ \/ repo'[n].text = repo[n].text
               \/ rules[n].item = "approved" \/ repo'[n].text \in direct[n]
        BY <1>2, <1>4, <1>5, <1>7, <2>2 DEF Fresh
      <3>2. QED
        BY <1>3, <1>4, <1>7, <3>1 DEF RuleTurn, Settled, Exists, Stands
    <2>3. QED
      BY <2>1, <2>2
  <1>8. n \notin raced => u.pc = "idle" \/ Fresh(s, n)'
    <2>1. sess'[s] = u
      BY <1>3, <1>6 DEF Goto, TypeOK
    <2>2. CASE Refresh(s)
      <3>1. rules' = rules /\ (n \notin raced => rules[n].item = "approved")
        BY <1>4, <2>2 DEF Refresh, Fresh
      <3>2. QED
        BY <1>6, <2>1, <2>2, <3>1 DEF Fresh, Agree, Refresh, PullRequestCreated
    <2>3. CASE PullRequestCreated(s)
      <3>1. UNCHANGED <<rules, direct>> /\ t.pc = "sending"
        BY <1>2, <2>3 DEF PullRequestCreated
      <3>2. QED
        BY <1>2, <1>4, <1>6, <2>1, <2>3, <3>1 DEF Fresh, Refresh
    <2>4. QED
      BY <1>6, <2>2, <2>3
  <1>9. QED
    <2>1. \A r \in RuleIds \ {n} :
             Agree(rules'[r], rules[r]) /\ repo'[r].text = repo[r].text
      BY <1>5 DEF Agree
    <2>2. u.pc = "idle" \/ u.rule = n
      BY <1>6
    <2>3. QED
      BY <1>1, <1>3, <1>6, <1>7, <1>8, <2>1, <2>2, RequestSettles

LEMMA TurnStep ==
    ASSUME ReviewInv, TurnInv, [Next]_vars
    PROVE  \A r \in RuleIds \ raced' : RuleTurn(r)' /\ Stands(r)
  <1>1. CASE UNCHANGED vars \/ map_coverage
    BY <1>1, Elsewhere DEF vars, map_coverage, TurnInv, Agree, Superseding, Reviewed
  <1>2. ASSUME NEW g \in Generators, GeneratorStep(g)
        PROVE  \A r \in RuleIds \ raced' : RuleTurn(r)' /\ Stands(r)
    BY <1>2, GeneratorSettles
  <1>3. ASSUME NEW s \in Reviewers, StartStep(s)
        PROVE  \A r \in RuleIds \ raced' : RuleTurn(r)' /\ Stands(r)
    BY <1>3, StartSettles
  <1>4. ASSUME NEW s \in Reviewers,
               SessStep(s) \/ NoTarget(s) \/ TransportFails(s) \/ RequestDies(s)
        PROVE  \A r \in RuleIds \ raced' : RuleTurn(r)' /\ Stands(r)
    BY <1>4, DecisionSettles, ShippingSettles DEF SessStep
  <1>5. QED
    BY <1>1, <1>2, <1>3, <1>4 DEF Next, StartStep, GeneratorStep

\* However many requests and generation passes overlap, the rows of a rule are
\* in step until two of them have worked on that very rule at once.
THEOREM TurnInvariant == Spec => []TurnInv
  <1>1. Init => TurnInv
    BY DEF Init, TurnInv, RuleTurn, Alone, Superseding, Reviewed, Settled, Exists,
           Idle, NoGeneration, NoRow
  <1>2. ReviewInv /\ TurnInv /\ [Next]_vars => TurnInv'
    BY TurnStep DEF TurnInv
  <1>3. QED
    BY <1>1, <1>2, ReviewInvariant, PTL DEF Spec

\* The queue row and its rule tell the same decision, for any number of
\* reviewers, generators and rules, whatever fails in between and whatever
\* overlaps on other rules.
THEOREM ItemMatchesRuleAlways == Spec => []ItemMatchesRule
  <1>1. TurnInv => ItemMatchesRule
    BY DEF TurnInv, RuleTurn, Settled, ItemMatchesRule
  <1>2. QED
    BY <1>1, TurnInvariant, PTL

\* Of a rejected rule the Git host has nothing but what an operator submitted,
\* even when answers are lost.
THEOREM RejectedNotShippedAlways == Spec => []RejectedNotShipped
  <1>1. TurnInv => RejectedNotShipped
    BY DEF TurnInv, RuleTurn, Settled, RejectedNotShipped
  <1>2. QED
    BY <1>1, TurnInvariant, PTL

\* A decided queue row keeps its decision (_guard_action), unless two
\* operations have worked on it at the same time.
THEOREM UnracedDecisionStandsAlways == Spec => UnracedDecisionStands
  <1>1. ReviewInv /\ TurnInv /\ [Next]_vars
          => [\A r \in RuleIds \ raced' : rules[r].item \in TERMINAL_QUEUE_STATUSES
                                            => rules'[r].item = rules[r].item]_vars
    BY TurnStep DEF Stands
  <1>2. QED
    BY <1>1, ReviewInvariant, TurnInvariant, PTL DEF Spec, UnracedDecisionStands

=============================================================================
