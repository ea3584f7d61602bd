----------------------------- MODULE RuleReview -----------------------------
(***************************************************************************)
(* The review queue of the Sigma rules generated for one triple (CVE,      *)
(* technique, profile):                                                    *)
(*                                                                         *)
(*  - generators (Loop 3 of an assessment, or the live-feed task) insert a *)
(*    rule with its queue row unless its content is already known; Loop 3  *)
(*    then supersedes the earlier rules of the triple;                     *)
(*  - reviewers assign, approve, edit, reject or supersede a queue row;    *)
(*  - an approval is committed before its pull request is opened on the    *)
(*    target's Git host, and the answer is recorded in a third step;       *)
(*  - an operator may submit a rule by its id, whatever its status is.     *)
(*                                                                         *)
(* A request reads its rows once and takes no lock; at its commit the ORM  *)
(* writes the attributes that differ from what it loaded.                  *)
(***************************************************************************)
EXTENDS Naturals, FiniteSets

CONSTANTS
    Reviewers,          \* concurrent API requests and operator tasks
    Loop3,              \* assessments whose Loop 3 generates rules
    Feed,               \* live-feed generate_rules tasks
    Texts,              \* rule contents, up to the volatile id and date
    NoText,
    InvalidTexts,       \* those that pySigma refuses
    Ops,                \* what reviewers do
    MaxRules,           \* bound: rows of sigma_rules
    MaxGenerations,     \* bound: generation passes
    MaxRequests,        \* bound: requests and operator tasks
    MaxFailures         \* bound: failures of the Git host, requests and workers

AllOps == {"assign", "approve", "approve_local", "edit", "reject", "supersede", "submit"}

ASSUME ConstantsAssumption ==
    /\ MaxRules \in Nat \ {0}
    /\ MaxGenerations \in Nat
    /\ MaxRequests \in Nat
    /\ MaxFailures \in Nat
    /\ NoText \notin Texts
    /\ InvalidTexts \subseteq Texts
    /\ Ops \subseteq AllOps
    /\ Loop3 \cap Feed = {}

VARIABLES
    rules,      \* tables sigma_rules and review_queue, one row of each per rule
    mapped,     \* does the technique have a row in coverage_map?
    covering,   \* coverage_map.covering_rule_ids of the technique
    repo,       \* the rule's branch and pull request on the Git host
    sess,       \* what each request is in the middle of
    gen,        \* what each generator is in the middle of
    signed,     \* history: the texts that reviewers approved, per rule
    direct,     \* history: the texts that operators submitted by rule id
    raced,      \* history: the rules that two operations worked on at once
    passes, requests, failures

coverage == <<mapped, covering>>
history == <<signed, direct, raced>>
vars == <<rules, coverage, repo, sess, gen, history, passes, requests, failures>>

-----------------------------------------------------------------------------
(* Rows.                                                                   *)

RuleIds == 1..MaxRules
NoRule == 0

RuleStatus == {"absent", "generated", "invalid", "approved", "submitted", "rejected"}
ItemStatus == {"absent", "pending", "in_review", "approved", "rejected", "superseded"}
TERMINAL_QUEUE_STATUSES == {"approved", "rejected"}

\* hash is NoText when content_hash is not the hash of any generated text.
Row == [status : RuleStatus, item : ItemStatus, text : Texts \cup {NoText},
        hash : Texts \cup {NoText}, pr : BOOLEAN, dep : RuleIds \cup {NoRule},
        chosen : RuleIds \cup {NoRule}]

NoRow == [status |-> "absent", item |-> "absent", text |-> NoText, hash |-> NoText,
          pr |-> FALSE, dep |-> NoRule, chosen |-> NoRule]

Branch == [text : Texts \cup {NoText}, open : BOOLEAN]

Exists(r) == rules[r].status # "absent"
IsFresh(r) == ~Exists(r) /\ \A s \in RuleIds : s < r => Exists(s)

\* What the ORM leaves in a column that was loaded as `loaded' and set to `new'.
Written(new, loaded, current) == IF new # loaded THEN new ELSE current

-----------------------------------------------------------------------------
(* Processes.                                                              *)

Session == [pc : {"idle", "loaded", "approved", "sending", "created"},
            op : AllOps \cup {"none"}, rule : RuleIds \cup {NoRule},
            row : Row, text : Texts \cup {NoText}, chosen : RuleIds \cup {NoRule},
            mapped : BOOLEAN, covering : SUBSET (RuleIds \cup {NoRule})]

Idle == [pc |-> "idle", op |-> "none", rule |-> NoRule, row |-> NoRow,
         text |-> NoText, chosen |-> NoRule, mapped |-> FALSE, covering |-> {}]

Generators == Loop3 \cup Feed

Generation == [pc : {"idle", "generated", "committed", "superseding"},
               text : Texts \cup {NoText}, rule : RuleIds \cup {NoRule},
               pending : SUBSET RuleIds, approved : SUBSET RuleIds]

NoGeneration == [pc |-> "idle", text |-> NoText, rule |-> NoRule,
                 pending |-> {}, approved |-> {}]

\* Who has read the rows of r and may still write them.
Reviewed(r) == {s \in Reviewers : sess[s].pc # "idle" /\ sess[s].rule = r}
Superseding(r) == {g \in Generators : gen[g].pc = "superseding" /\ r \in gen[g].pending}
Busy(r) == Reviewed(r) \cup Superseding(r) # {}

\* The rows in `read' are read for writing.
Reads(read) == raced' = raced \cup {r \in read : Busy(r)}

Init ==
    /\ rules = [r \in RuleIds |-> NoRow]
    /\ mapped = FALSE
    /\ covering = {}
    /\ repo = [r \in RuleIds |-> [text |-> NoText, open |-> FALSE]]
    /\ sess = [s \in Reviewers |-> Idle]
    /\ gen = [g \in Generators |-> NoGeneration]
    /\ signed = [r \in RuleIds |-> {}]
    /\ direct = [r \in RuleIds |-> {}]
    /\ raced = {}
    /\ passes = 0
    /\ requests = 0
    /\ failures = 0

-----------------------------------------------------------------------------
(* RuleGenerator.generate_all_gaps and the supersession hook of Loop 3.    *)

\* Rows whose content_hash is the hash of t.
SameContent(t) == {r \in RuleIds : Exists(r) /\ rules[r].hash = t}

Hit(t) == IF SameContent(t) = {} THEN {NoRule} ELSE SameContent(t)

\* The model's answer is rendered as t and looked up by hash. One hit is
\* returned in place of a new rule; several make scalar_one_or_none raise,
\* which generate_all_gaps logs and skips.
generate_rule(g, t) ==
    /\ gen[g].pc = "idle"
    /\ passes < MaxGenerations
    /\ passes' = passes + 1
    /\ \E r \in Hit(t) :
          gen' = [gen EXCEPT ![g] =
                    IF Cardinality(Hit(t)) > 1 THEN NoGeneration
                    ELSE [pc |-> "generated", text |-> t, rule |-> r,
                          pending |-> {}, approved |-> {}]]
    /\ UNCHANGED <<rules, coverage, repo, sess, history, requests, failures>>

GeneratedRow(t) ==
    [NoRow EXCEPT !.status = IF t \in InvalidTexts THEN "invalid" ELSE "generated",
                  !.item = "pending", !.text = t, !.hash = t]

\* The commit of generate_all_gaps. The live feed is done; Loop 3 goes on
\* to finalize its run.
CommitRules(g) ==
    LET done(r) == IF g \in Feed THEN NoGeneration
                   ELSE [gen[g] EXCEPT !.pc = "committed", !.rule = r] IN
    /\ gen[g].pc = "generated"
    /\ \/ /\ gen[g].rule # NoRule
          /\ gen' = [gen EXCEPT ![g] = done(gen[g].rule)]
          /\ UNCHANGED rules
       \/ /\ gen[g].rule = NoRule
          /\ \E r \in RuleIds :
                /\ IsFresh(r)
                /\ rules' = [rules EXCEPT ![r] = GeneratedRow(gen[g].text)]
                /\ gen' = [gen EXCEPT ![g] = done(r)]
    /\ UNCHANGED <<coverage, repo, sess, history, passes, requests, failures>>

\* Loop 3 reads the rows of the triple it is going to supersede.
SelectPrior(g) ==
    /\ gen[g].pc = "committed"
    /\ gen' = [gen EXCEPT ![g] = [@ EXCEPT
         !.pc = "superseding",
         !.pending = {r \in RuleIds \ {gen[g].rule} : rules[r].item = "pending"},
         !.approved = {r \in RuleIds \ {gen[g].rule} :
                          rules[r].status = "approved" /\ rules[r].dep = NoRule}]]
    /\ Reads(gen'[g].pending)
    /\ UNCHANGED <<rules, coverage, repo, sess, signed, direct, passes, requests, failures>>

\* The commit of the run writes them.
supersede_prior_for_triple(g) ==
    /\ gen[g].pc = "superseding"
    /\ rules' = [r \in RuleIds |->
          [rules[r] EXCEPT !.item = IF r \in gen[g].pending THEN "superseded" ELSE @,
                           !.dep = IF r \in gen[g].approved THEN gen[g].rule ELSE @]]
    /\ gen' = [gen EXCEPT ![g] = NoGeneration]
    /\ UNCHANGED <<coverage, repo, sess, history, passes, requests, failures>>

\* The pass fails, or its worker dies: what is not committed is gone.
GenerationFails(g) ==
    /\ gen[g].pc # "idle"
    /\ failures < MaxFailures
    /\ failures' = failures + 1
    /\ gen' = [gen EXCEPT ![g] = NoGeneration]
    /\ UNCHANGED <<rules, coverage, repo, sess, history, passes, requests>>

-----------------------------------------------------------------------------
(* QueueManager: a request loads its pair of rows, passes the guard, and   *)
(* commits.                                                                *)

Goto(s, t) == sess' = [sess EXCEPT ![s] = t]

\* Fault: a closed row is acted upon again.
GuardsNothing(item) == TRUE

guard_action(item) == item \notin TERMINAL_QUEUE_STATUSES

MayRequest(s, op) ==
    /\ sess[s].pc = "idle"
    /\ op \in Ops
    /\ requests < MaxRequests
    /\ requests' = requests + 1

Load(s, op, r) ==
    /\ MayRequest(s, op)
    /\ Exists(r)
    /\ guard_action(rules[r].item)
    /\ Reads({r})

Loaded(op, r) == [Idle EXCEPT !.pc = "loaded", !.op = op, !.rule = r, !.row = rules[r]]

\* assign, approve, reject, approve with skip_pr
LoadPair(s, op, r) ==
    /\ op \in {"assign", "approve", "approve_local", "reject"}
    /\ Load(s, op, r)
    /\ Goto(s, Loaded(op, r))
    /\ UNCHANGED <<rules, coverage, repo, gen, signed, direct, passes, failures>>

\* edit_and_approve: the new text has passed the validator.
LoadEdit(s, r, t) ==
    /\ t \notin InvalidTexts
    /\ Load(s, "edit", r)
    /\ Goto(s, [Loaded("edit", r) EXCEPT !.text = t])
    /\ UNCHANGED <<rules, coverage, repo, gen, signed, direct, passes, failures>>

\* SupersedeService: the analyst names the rule that already covers it.
LoadSupersede(s, r, c) ==
    /\ MayRequest(s, "supersede")
    /\ rules[r].item \in {"pending", "in_review"}
    /\ Exists(r) /\ Exists(c)
    /\ Reads({r})
    /\ Goto(s, [Loaded("supersede", r) EXCEPT !.chosen = c, !.mapped = mapped,
                                             !.covering = covering])
    /\ UNCHANGED <<rules, coverage, repo, gen, signed, direct, passes, failures>>

AssignCommit(s) ==
    LET t == sess[s] IN
    /\ t.pc = "loaded" /\ t.op = "assign"
    /\ rules' = [rules EXCEPT ![t.rule].item =
                    IF t.row.item = "pending" THEN "in_review" ELSE @]
    /\ Goto(s, Idle)
    /\ UNCHANGED <<coverage, repo, gen, history, passes, requests, failures>>

\* Fault: the queue row is closed and the rule is left as it was.
OnlyTheItem(row, t, st) == [row EXCEPT !.item = Written(st, t.row.item, @)]

\* Rule and queue row after a decision.
Decided(row, t, st) == [row EXCEPT !.status = Written(st, t.row.status, @),
                                   !.item = Written(st, t.row.item, @)]

\* Fault: a rejection goes on to the submission.
RejectedSent(s) ==
    LET t == sess[s] IN
    /\ t.pc = "loaded" /\ t.op = "reject"
    /\ rules' = [rules EXCEPT ![t.rule] = Decided(@, t, "rejected")]
    /\ Goto(s, [t EXCEPT !.pc = "approved"])
    /\ UNCHANGED <<coverage, repo, gen, history, passes, requests, failures>>

reject(s) ==
    LET t == sess[s] IN
    /\ t.pc = "loaded" /\ t.op = "reject"
    /\ rules' = [rules EXCEPT ![t.rule] = Decided(@, t, "rejected")]
    /\ Goto(s, Idle)
    /\ UNCHANGED <<coverage, repo, gen, history, passes, requests, failures>>

\* The edit also replaces the text, and content_hash by a hash over the raw
\* YAML, which the generator's hash never equals.
Edited(row, t) ==
    IF t.op = "edit" THEN [row EXCEPT !.text = Written(t.text, t.row.text, @),
                                      !.hash = NoText]
    ELSE row

\* What the reviewer has put their name to.
SignedText(t) == IF t.op = "edit" THEN t.text ELSE t.row.text

\* An approval without a PR ends here, any other goes on to its submission.
AfterApproval(t) == IF t.op = "approve_local" THEN Idle ELSE [t EXCEPT !.pc = "approved"]

approve(s) ==
    LET t == sess[s] IN
    /\ t.pc = "loaded" /\ t.op \in {"approve", "approve_local", "edit"}
    /\ rules' = [rules EXCEPT ![t.rule] = Edited(Decided(@, t, "approved"), t)]
    /\ signed' = [signed EXCEPT ![t.rule] = @ \cup {SignedText(t)}]
    /\ Goto(s, AfterApproval(t))
    /\ UNCHANGED <<coverage, repo, gen, direct, raced, passes, requests, failures>>

\* Fault: the flushed edit is kept although the approval is refused.
EditSurvives(s) ==
    LET t == sess[s] IN
    /\ t.pc = "loaded" /\ t.op \in {"approve", "edit"}
    /\ rules' = [rules EXCEPT ![t.rule] = Edited(@, t)]
    /\ Goto(s, Idle)
    /\ UNCHANGED <<coverage, repo, gen, history, passes, requests, failures>>

\* No enabled target: 409, and the flushed edit is rolled back.
NoTarget(s) ==
    /\ sess[s].pc = "loaded" /\ sess[s].op \in {"approve", "edit"}
    /\ Goto(s, Idle)
    /\ UNCHANGED <<rules, coverage, repo, gen, history, passes, requests, failures>>

\* A technique without a coverage row has none to extend.
Covering(t) == t.covering \cup (IF t.mapped THEN {t.chosen} ELSE {})

Superseded(row, t) == [row EXCEPT !.item = "superseded",
                                  !.chosen = Written(t.chosen, t.row.chosen, @)]

supersede(s) ==
    LET t == sess[s] IN
    /\ t.pc = "loaded" /\ t.op = "supersede"
    /\ rules' = [rules EXCEPT ![t.rule] = Superseded(@, t)]
    /\ covering' = Written(Covering(t), t.covering, covering)
    /\ Goto(s, Idle)
    /\ UNCHANGED <<mapped, repo, gen, history, passes, requests, failures>>

\* The first map_coverage of the technique inserts its row.
map_coverage ==
    /\ ~mapped
    /\ mapped' = TRUE
    /\ UNCHANGED <<rules, covering, repo, sess, gen, history, passes, requests, failures>>

-----------------------------------------------------------------------------
(* The pull request.                                                       *)

\* session.refresh(rule) after the approval's commit
Refresh(s) ==
    /\ sess[s].pc = "approved"
    /\ Goto(s, [sess[s] EXCEPT !.pc = "sending", !.row = rules[sess[s].rule]])
    /\ UNCHANGED <<rules, coverage, repo, gen, history, passes, requests, failures>>

\* The task submit_rule_to_target, which an operator starts: it looks at
\* neither the status of the rule nor its queue row.
submit_by_ids(s, r) ==
    /\ MayRequest(s, "submit")
    /\ Exists(r)
    /\ Reads({r})
    /\ direct' = [direct EXCEPT ![r] = @ \cup {rules[r].text}]
    /\ Goto(s, [Loaded("submit", r) EXCEPT !.pc = "sending"])
    /\ UNCHANGED <<rules, coverage, repo, gen, signed, passes, failures>>

\* The file is written to the rule's branch and a PR is opened from it. The
\* host refuses a second PR for a branch.
PullRequestCreated(s) ==
    LET t == sess[s] IN
    /\ t.pc = "sending"
    /\ ~repo[t.rule].open
    /\ repo' = [repo EXCEPT ![t.rule] = [text |-> t.row.text, open |-> TRUE]]
    /\ Goto(s, [t EXCEPT !.pc = "created"])
    /\ UNCHANGED <<rules, coverage, gen, history, passes, requests, failures>>

PullRequestExists(s) ==
    LET t == sess[s] IN
    /\ t.pc = "sending"
    /\ repo[t.rule].open
    /\ repo' = [repo EXCEPT ![t.rule].text = t.row.text]
    /\ Goto(s, Idle)
    /\ UNCHANGED <<rules, coverage, gen, history, passes, requests, failures>>

\* Fault: a failed call is taken for a created pull request.
TakenForCreated(s) ==
    /\ sess[s].pc = "sending"
    /\ failures < MaxFailures
    /\ failures' = failures + 1
    /\ Goto(s, [sess[s] EXCEPT !.pc = "created"])
    /\ UNCHANGED <<rules, coverage, repo, gen, history, passes, requests>>

\* Any of the calls fails: nothing was done, or the file was written, or
\* the PR was opened and the answer is lost. created=False in each case.
\* The request's process may also die here.
TransportFails(s) ==
    LET t == sess[s] IN
    /\ t.pc = "sending"
    /\ failures < MaxFailures
    /\ failures' = failures + 1
    /\ \/ UNCHANGED repo
       \/ repo' = [repo EXCEPT ![t.rule].text = t.row.text]
       \/ repo' = [repo EXCEPT ![t.rule] = [text |-> t.row.text, open |-> TRUE]]
    /\ Goto(s, Idle)
    /\ UNCHANGED <<rules, coverage, gen, history, passes, requests>>

ShippedStatus(st) == IF st \in {"approved", "review", "generated"} THEN "submitted" ELSE st

Recorded(row, t) ==
    [row EXCEPT !.pr = TRUE,
                !.status = Written(ShippedStatus(t.row.status), t.row.status, @)]

\* submit_rule records the PR it was told of.
RecordPR(s) ==
    LET t == sess[s] IN
    /\ t.pc = "created"
    /\ rules' = [rules EXCEPT ![t.rule] = Recorded(@, t)]
    /\ Goto(s, Idle)
    /\ UNCHANGED <<coverage, repo, gen, history, passes, requests, failures>>

\* The process of the request dies: uncommitted writes are gone.
RequestDies(s) ==
    /\ sess[s].pc \in {"loaded", "approved", "created"}
    /\ failures < MaxFailures
    /\ failures' = failures + 1
    /\ Goto(s, Idle)
    /\ UNCHANGED <<rules, coverage, repo, gen, history, passes, requests>>

-----------------------------------------------------------------------------
(* The specification.                                                      *)

GenStep(g) == \/ CommitRules(g) \/ SelectPrior(g) \/ supersede_prior_for_triple(g)

SessStep(s) == \/ AssignCommit(s) \/ reject(s) \/ approve(s) \/ supersede(s)
               \/ Refresh(s) \/ PullRequestCreated(s) \/ PullRequestExists(s) \/ RecordPR(s)

Next ==
    \/ \E g \in Generators : \/ \E t \in Texts : generate_rule(g, t)
                             \/ GenStep(g)
                             \/ GenerationFails(g)
    \/ \E s \in Reviewers :
          \/ \E r \in RuleIds :
                \/ \E op \in Ops : LoadPair(s, op, r)
                \/ \E t \in Texts : LoadEdit(s, r, t)
                \/ \E c \in RuleIds : LoadSupersede(s, r, c)
                \/ submit_by_ids(s, r)
          \/ SessStep(s) \/ NoTarget(s) \/ TransportFails(s) \/ RequestDies(s)
    \/ map_coverage

Spec == Init /\ [][Next]_vars

\* A request and a task in progress go on. Nobody is obliged to start one.
Fairness ==
    /\ \A g \in Generators : WF_vars(GenStep(g))
    /\ \A s \in Reviewers : WF_vars(SessStep(s))

FairSpec == Spec /\ Fairness

-----------------------------------------------------------------------------
(* Properties.                                                             *)

\* The state is well formed.
TypeOK ==
    /\ rules \in [RuleIds -> Row]
    /\ mapped \in BOOLEAN
    /\ covering \subseteq RuleIds \cup {NoRule}
    /\ repo \in [RuleIds -> Branch]
    /\ sess \in [Reviewers -> Session]
    /\ gen \in [Generators -> Generation]
    /\ signed \in [RuleIds -> SUBSET (Texts \cup {NoText})]
    /\ direct \in [RuleIds -> SUBSET (Texts \cup {NoText})]
    /\ raced \subseteq RuleIds
    /\ passes \in 0..MaxGenerations
    /\ requests \in 0..MaxRequests
    /\ failures \in 0..MaxFailures

\* Human review: whatever text reaches the Git host is one that a reviewer
\* approved for that rule or an operator submitted by its id, however requests,
\* edits, retries and failures interleave (approve, edit_and_approve,
\* submit_rule).
ShippedTextWasApproved ==
    \A r \in RuleIds : repo[r].text # NoText => repo[r].text \in signed[r] \cup direct[r]

\* A rule that FragChain lists as submitted, or with a PR URL, has a pull
\* request on the host (submit_rule).
RecordedPRExists ==
    \A r \in RuleIds : rules[r].pr \/ rules[r].status = "submitted" => repo[r].open

\* A decided queue row keeps its decision (_guard_action).
DecisionStands ==
    [][\A r \in RuleIds : rules[r].item \in TERMINAL_QUEUE_STATUSES
                             => rules'[r].item = rules[r].item]_vars

\* It does unless two operations have worked on that very row at the same
\* time; whatever overlaps on other rows, fails or is retried does not matter.
UnracedDecisionStands ==
    [][\A r \in RuleIds \ raced' : rules[r].item \in TERMINAL_QUEUE_STATUSES
                                      => rules'[r].item = rules[r].item]_vars

\* The queue row and its rule tell the same decision, and a rule is listed as
\* submitted only if it was approved or submitted by its id.
ItemMatchesRule ==
    \A r \in RuleIds \ raced :
        /\ rules[r].status = "approved" => rules[r].item = "approved"
        /\ rules[r].item = "approved" => rules[r].status \in {"approved", "submitted"}
        /\ rules[r].status = "submitted" => rules[r].item = "approved" \/ direct[r] # {}
        /\ rules[r].item = "rejected" <=> rules[r].status = "rejected"

\* Of a rejected rule the Git host has nothing but what an operator submitted
\* by its id.
RejectedNotShipped ==
    \A r \in RuleIds \ raced :
        rules[r].status = "rejected" => repo[r].text \in direct[r] \cup {NoText}

\* A rule that a supersession has added to the covering rules of the technique
\* stays there (SupersedeService step 6).
CoveringGrows == [][covering \subseteq covering']_vars
=============================================================================
