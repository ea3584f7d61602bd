----------------------------- MODULE Contributions -----------------------------
(***************************************************************************)
(* Field evaluations of one submitted rule and their way into the commons: *)
(* analysts append evaluations, and a contribution opens one pull request  *)
(* per source before the evaluation is marked.                             *)
(***************************************************************************)
EXTENDS Naturals

CONSTANTS
    Evaluations,         \* evaluations submitted for the rule
    ContributeSources,   \* commons sources with contribute_enabled
    Contributors,        \* open contribute requests
    NoEvaluation

VARIABLES
    ruleTlp,       \* the rule's declared level
    cleared,       \* history: evaluations requested while the rule was clear
    evaluation,    \* rule_evaluations
    contributing,  \* the contribute request each contributor has open
    commonsRepo    \* per source: branches, pull requests, and the merged file

contributionVars == <<ruleTlp, cleared, evaluation, contributing, commonsRepo>>

Levels == {"clear", "amber"}

NoEvaluationRow == [exists |-> FALSE, contributed |-> FALSE]
NoContribution == [evaluation |-> NoEvaluation, tlp |-> "none", left |-> {},
                   submitted |-> FALSE]

(***************************************************************************)
(* EvaluationStore.                                                        *)
(***************************************************************************)
record(e) ==
    /\ ~evaluation[e].exists
    /\ evaluation' = [evaluation EXCEPT ![e] = [NoEvaluationRow EXCEPT !.exists = TRUE]]
    /\ UNCHANGED <<ruleTlp, cleared, contributing, commonsRepo>>

\* A refresh of the rule's source rewrites the row, the level included.
RefreshSource(level) ==
    /\ ruleTlp' = level
    /\ UNCHANGED <<cleared, evaluation, contributing, commonsRepo>>

(***************************************************************************)
(* contribute_evaluation.                                                  *)
(***************************************************************************)

\* The payload has the level the rule has now.
contribute_evaluation(c, e) ==
    /\ contributing[c] = NoContribution /\ evaluation[e].exists
    /\ contributing' = [contributing EXCEPT ![c] =
                          [evaluation |-> e, tlp |-> ruleTlp, left |-> ContributeSources,
                           submitted |-> FALSE]]
    /\ cleared' = IF ruleTlp = "clear" THEN cleared \cup {e} ELSE cleared
    /\ UNCHANGED <<ruleTlp, evaluation, commonsRepo>>

\* One source: no payload above clear leaves; the steps of create_chain_pr are the
\* branch, the file, which the host refuses if the default branch has it, and
\* the pull request, whose answer may be lost.
create_chain_pr(c, s, steps, answered) ==
    LET e == contributing[c].evaluation
        reached == IF commonsRepo[s].merged # NoEvaluation /\ steps > 1 THEN 1 ELSE steps
    IN /\ commonsRepo' = [commonsRepo EXCEPT
            ![s].branches = IF reached >= 1 THEN @ \cup {e} ELSE @,
            ![s].prs = IF reached = 3 THEN @ \cup {e} ELSE @]
       /\ contributing' = [contributing EXCEPT ![c].left = @ \ {s},
                             ![c].submitted = @ \/ (reached = 3 /\ answered)]

contribute_to_source(c, s, steps, answered) ==
    /\ s \in contributing[c].left
    /\ IF contributing[c].tlp = "clear"
       THEN create_chain_pr(c, s, steps, answered)
       ELSE /\ contributing' = [contributing EXCEPT ![c].left = @ \ {s}]
            /\ UNCHANGED commonsRepo
    /\ UNCHANGED <<ruleTlp, cleared, evaluation>>

\* Mutant: every attempt marks the evaluation.
mark_contributed_always(c) ==
    /\ contributing[c] # NoContribution /\ contributing[c].left = {}
    /\ evaluation' = [evaluation EXCEPT ![contributing[c].evaluation].contributed = TRUE]
    /\ contributing' = [contributing EXCEPT ![c] = NoContribution]
    /\ UNCHANGED <<ruleTlp, cleared, commonsRepo>>

mark_contributed(c) ==
    /\ contributing[c] # NoContribution /\ contributing[c].left = {}
    /\ evaluation' = [evaluation EXCEPT
         ![contributing[c].evaluation].contributed = @ \/ contributing[c].submitted]
    /\ contributing' = [contributing EXCEPT ![c] = NoContribution]
    /\ UNCHANGED <<ruleTlp, cleared, commonsRepo>>

ContributorDies(c) ==
    /\ contributing[c] # NoContribution
    /\ contributing' = [contributing EXCEPT ![c] = NoContribution]
    /\ UNCHANGED <<ruleTlp, cleared, evaluation, commonsRepo>>

\* The maintainers of the commons merge a pull request: all evaluations of the
\* rule are one file, so a second one can no longer be merged.
MergePullRequest(s, e) ==
    /\ e \in commonsRepo[s].prs /\ commonsRepo[s].merged = NoEvaluation
    /\ commonsRepo' = [commonsRepo EXCEPT ![s].merged = e]
    /\ UNCHANGED <<ruleTlp, cleared, evaluation, contributing>>

ContributionInit ==
    /\ ruleTlp \in Levels /\ cleared = {}
    /\ evaluation = [e \in Evaluations |-> NoEvaluationRow]
    /\ contributing = [c \in Contributors |-> NoContribution]
    /\ commonsRepo = [s \in ContributeSources |->
                        [branches |-> {}, prs |-> {}, merged |-> NoEvaluation]]

ContributionNext ==
    \/ \E e \in Evaluations : record(e)
    \/ \E l \in Levels : RefreshSource(l)
    \/ \E c \in Contributors :
         \/ mark_contributed(c) \/ ContributorDies(c)
         \/ \E e \in Evaluations : contribute_evaluation(c, e)
         \/ \E s \in ContributeSources, n \in 0..3, a \in BOOLEAN :
              contribute_to_source(c, s, n, a)
    \/ \E s \in ContributeSources, e \in Evaluations : MergePullRequest(s, e)

ContributionSpec == ContributionInit /\ [][ContributionNext]_contributionVars

(***************************************************************************)
(* Properties.                                                             *)
(***************************************************************************)

\* An evaluation counted as contributed (mark_contributed) is public somewhere:
\* a source has its pull request, whichever sources of the batch fail or take
\* the request without an answer, and however often it is repeated or cut off.
\* And a host has something of an evaluation only if it was asked for while the
\* rule was clear: the level is that of the payload, so one that rises while a
\* batch is under way does not stop it, but stops every later request.
ContributedHasPR ==
    \A e \in Evaluations :
      /\ evaluation[e].contributed => \E s \in ContributeSources : e \in commonsRepo[s].prs
      /\ (\E s \in ContributeSources : e \in commonsRepo[s].branches) => e \in cleared
=============================================================================
