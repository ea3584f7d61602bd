----------------------------- MODULE SigmaTargets -----------------------------
(***************************************************************************)
(* Where an approved rule goes: the sigma_targets table administered over  *)
(* the API, the start-up check of its defaults, the routing engine that    *)
(* reads it in whatever order the database returns, and submissions that   *)
(* keep the target they selected while the table changes under them.       *)
(* A routing expression is the set of rule kinds it is true of.            *)
(***************************************************************************)
EXTENDS Naturals, Sequences, FiniteSets

CONSTANTS
    TargetNames,
    RuleKinds,           \* rules, as far as routing expressions tell them apart
    Conditions,          \* the expressions in use, each a set of kinds
    MaxClauses,          \* bound: routing rules of one target
    Approvers,
    NoTarget

ASSUME TargetAssumption == IsFiniteSet(TargetNames)

VARIABLES
    apiUp,         \* the API process passed its start-up checks
    targets,       \* sigma_targets
    submission,    \* the approval each approver has under way
    pullRequests,  \* pull requests on the Git hosts: kind of rule, target
    recorded       \* those the database knows of

targetVars == <<apiUp, targets, submission, pullRequests, recorded>>

NoTargetRow == [exists |-> FALSE, enabled |-> FALSE, default |-> FALSE, clauses |-> <<>>]
NoSubmission == [kind |-> NoTarget, target |-> NoTarget]
\* Nothing checks that a clause names a target there is.
Clauses == [if : Conditions, target_name : TargetNames \cup {NoTarget}]
TargetRows == [exists : {TRUE}, enabled : BOOLEAN, default : BOOLEAN,
               clauses : UNION {[1..n -> Clauses] : n \in 0..MaxClauses}]

(***************************************************************************)
(* RoutingEngine.                                                          *)
(***************************************************************************)
EnabledTargets == {t \in TargetNames : targets[t].exists /\ targets[t].enabled}

\* The SELECT has no ORDER BY.
LoadOrders ==
    LET n == Cardinality(EnabledTargets)
    IN {o \in [1..n -> EnabledTargets] : \A i, j \in 1..n : o[i] = o[j] => i = j}

compile_condition(clause, kind) == kind \in clause.if

FirstIndex(s, Test(_)) ==
    IF \E i \in DOMAIN s : Test(s[i])
    THEN CHOOSE i \in DOMAIN s : Test(s[i]) /\ \A j \in 1..(i - 1) : ~Test(s[j])
    ELSE 0

MatchOf(t, kind) ==
    FirstIndex(targets[t].clauses, LAMBDA c : compile_condition(c, kind))

\* Mutant: a name that is not loaded stands for the first target.
DestinationFirst(order, t, kind) ==
    LET name == targets[t].clauses[MatchOf(t, kind)].target_name
    IN IF name \in EnabledTargets THEN name ELSE order[1]

\* The clause's target if it is among the loaded ones, else the clause's owner.
Destination(order, t, kind) ==
    LET name == targets[t].clauses[MatchOf(t, kind)].target_name
    IN IF name \in EnabledTargets THEN name ELSE t

\* The first target with a matching clause decides; then the first default.
select_target(order, kind) ==
    LET matching == FirstIndex(order, LAMBDA t : MatchOf(t, kind) # 0)
        default == FirstIndex(order, LAMBDA t : targets[t].default)
    IN CASE matching # 0 -> Destination(order, order[matching], kind)
         [] matching = 0 /\ default # 0 -> order[default]
         [] OTHER -> NoTarget

(***************************************************************************)
(* Administration.                                                         *)
(***************************************************************************)
SetTarget(t, row) ==
    /\ apiUp
    /\ targets' = [targets EXCEPT ![t] = row]
    /\ UNCHANGED <<apiUp, submission, pullRequests, recorded>>

create_target(t, row) == ~targets[t].exists /\ SetTarget(t, row)
update_target(t, row) == targets[t].exists /\ SetTarget(t, row)
\* Rules that name the target lose the name.
delete_target(t) ==
    /\ apiUp /\ targets[t].exists
    /\ targets' = [targets EXCEPT ![t] = NoTargetRow]
    /\ recorded' = {p \in recorded : p.target # t}
    /\ UNCHANGED <<apiUp, submission, pullRequests>>

\* Disabled defaults count as well.
validate_sigma_target_config ==
    Cardinality({t \in TargetNames : targets[t].default}) <= 1

StartApi ==
    /\ ~apiUp /\ validate_sigma_target_config
    /\ apiUp' = TRUE
    /\ UNCHANGED <<targets, submission, pullRequests, recorded>>

StopApi ==
    /\ apiUp /\ apiUp' = FALSE
    /\ submission' = [a \in Approvers |-> NoSubmission]
    /\ UNCHANGED <<targets, pullRequests, recorded>>

(***************************************************************************)
(* Submissions.                                                            *)
(***************************************************************************)
Selected(a, kind, t) ==
    /\ apiUp /\ submission[a] = NoSubmission /\ t # NoTarget
    /\ submission' = [submission EXCEPT ![a] = [kind |-> kind, target |-> t]]
    /\ UNCHANGED <<apiUp, targets, pullRequests, recorded>>

\* The approver names the target, or the engine picks it.
SelectExplicit(a, kind, t) == t \in EnabledTargets /\ Selected(a, kind, t)
SelectRouted(a, kind) == \E o \in LoadOrders : Selected(a, kind, select_target(o, kind))

Opened(kind, t) ==
    /\ pullRequests' = pullRequests \cup {[kind |-> kind, target |-> t]}
    /\ recorded' = IF targets[t].exists THEN recorded \cup {[kind |-> kind, target |-> t]}
                   ELSE recorded  \* the foreign key refuses the deleted target

submit_rule(a) ==
    /\ submission[a] # NoSubmission
    /\ \/ Opened(submission[a].kind, submission[a].target)
       \/ UNCHANGED <<pullRequests, recorded>>   \* the host refused
    /\ submission' = [submission EXCEPT ![a] = NoSubmission]
    /\ UNCHANGED <<apiUp, targets>>

\* The worker's task takes any target that exists, enabled or not.
submit_by_ids(kind, t) ==
    /\ targets[t].exists
    /\ Opened(kind, t)
    /\ UNCHANGED <<apiUp, targets, submission>>

TargetInit ==
    /\ apiUp = FALSE
    /\ targets = [t \in TargetNames |-> NoTargetRow]
    /\ submission = [a \in Approvers |-> NoSubmission]
    /\ pullRequests = {} /\ recorded = {}

TargetNext ==
    \/ StartApi \/ StopApi
    \/ \E t \in TargetNames :
         \/ delete_target(t)
         \/ \E row \in TargetRows : create_target(t, row) \/ update_target(t, row)
    \/ \E a \in Approvers, k \in RuleKinds :
         \/ SelectRouted(a, k)
         \/ \E t \in TargetNames : SelectExplicit(a, k, t)
    \/ \E a \in Approvers : submit_rule(a)
    \/ \E k \in RuleKinds, t \in TargetNames : submit_by_ids(k, t)

TargetSpec == TargetInit /\ [][TargetNext]_targetVars

(***************************************************************************)
(* Properties.                                                             *)
(***************************************************************************)
Claimants(kind) == {t \in EnabledTargets : MatchOf(t, kind) # 0}
Defaults == {t \in EnabledTargets : targets[t].default}

\* RoutingEngine.select_target warns about several claimants or several
\* defaults because then the order of the rows decides.  Otherwise it must not:
\* with at most one target claiming a rule, and at most one default where none
\* does, every order the database may return routes the rule to the same
\* enabled target, or to none.
UnambiguousRouting ==
    \A kind \in RuleKinds :
      (Cardinality(Claimants(kind)) = 1
         \/ (Claimants(kind) = {} /\ Cardinality(Defaults) <= 1))
        => \E t \in EnabledTargets \cup {NoTarget} :
             \A o \in LoadOrders : select_target(o, kind) = t
=============================================================================
