------------------------------- MODULE Prompts -------------------------------
(***************************************************************************)
(* Prompt templates: versions that are added and never changed, one active *)
(* version per task type and target, a cache of the active ones in every   *)
(* process, A/B tests that take precedence, and benchmark runs that score  *)
(* a template.  Only the API processes write; every process resolves.      *)
(***************************************************************************)
EXTENDS Naturals, FiniteSets, SequencesExt

CONSTANTS
    Targets,       \* subset of the keys of TargetOrder templates are written for
    BenchmarkCases,\* cases of a benchmark set times its iterations
    TaskTypes,     \* chain_generation, rule_generation, ...
    ApiProcesses, PromptProcesses,
    MaxTemplates,  \* bound: template rows
    MaxTests,      \* bound: A/B tests
    MaxScores      \* bound: stored benchmark results

ASSUME ApiAssumption == ApiProcesses \subseteq PromptProcesses
ASSUME PromptAssumption == IsFiniteSet(TaskTypes) /\ BenchmarkCases \in Nat

\* (target_model, target_provider) as the caller sees it, most specific first.
TargetOrder == <<"exact", "model", "provider", "wildcard">>

VARIABLES
    templates,     \* prompt_templates, in the order of creation
    promptCache,   \* the _ActiveCache of each process
    reloading,     \* rows a _reload_cache read and has not filled in yet
    overtaken,     \* history: the processes whose rows a later commit left as they were
    abTests,       \* prompt_ab_tests
    benchmark,     \* the PromptEvaluator run of an API process
    promptScores   \* prompt_evaluations: which text a score is about

promptVars == <<templates, promptCache, reloading, overtaken, abTests,
                benchmark, promptScores>>

TemplateRow(task, target, text, active) ==
    [task |-> task, target |-> target, text |-> text, active |-> active]
ABTestRow(task, a, b) == [task |-> task, a |-> a, b |-> b, status |-> "active"]

Ids == 1..Len(templates)
Nothing == 0
ActiveIds == {i \in Ids : templates[i].active}

\* The most specific active template among ids; matching holds the keys that
\* match the caller's model and provider (the wildcard always does).
Lookup(ids, task, matching) ==
    LET at(k) == {i \in ids : templates[i].task = task /\ templates[i].target = TargetOrder[k]}
        hits == {k \in DOMAIN TargetOrder : TargetOrder[k] \in matching /\ at(k) # {}}
    IN IF hits = {} THEN Nothing ELSE Max(at(Min(hits)))

Unloaded == [loaded |-> FALSE, ids |-> {}]
NotReading == {Nothing}
Invalidated(p) == promptCache' = [promptCache EXCEPT ![p] = Unloaded]

\* After its commit process p flushes its own cache, and nothing else: the other
\* processes and every reload under way, its own too, keep the rows they read.
Flushed(p) ==
    /\ Invalidated(p)
    /\ overtaken' = {q \in PromptProcesses : \/ reloading[q] # NotReading
                                             \/ q # p /\ promptCache[q].loaded}
    /\ UNCHANGED reloading

(***************************************************************************)
(* PromptStore, write paths.                                               *)
(***************************************************************************)

SameKey(r, q) == r.task = q.task /\ r.target = q.target

\* Mutant: the rows of the task go off, whatever their target.
ActivateInTask(rows, i) ==
    [j \in DOMAIN rows |->
       [rows[j] EXCEPT !.active = (j = i) \/ (@ /\ rows[j].task # rows[i].task)]]

\* The other active row of the key goes off in the same transaction.
ActivateIn(rows, i) ==
    [j \in DOMAIN rows |->
       [rows[j] EXCEPT !.active = (j = i) \/ (@ /\ ~SameKey(rows[j], rows[i]))]]

CreateVersion(p, task, target, activate) ==
    /\ Len(templates) < MaxTemplates
    /\ LET rows == Append(templates, TemplateRow(task, target, Len(templates) + 1, FALSE))
       IN templates' = IF activate THEN ActivateIn(rows, Len(rows)) ELSE rows
    /\ Flushed(p)
    /\ UNCHANGED <<abTests, benchmark, promptScores>>

\* Mutant: the edit is written to the row itself.
PatchInPlace(p, i, activate) ==
    /\ i \in Ids /\ templates[i].text < MaxTemplates + 1
    /\ templates' = [templates EXCEPT ![i].text = MaxTemplates + 1]
    /\ Flushed(p)
    /\ UNCHANGED <<abTests, benchmark, promptScores>>

PatchAsNewVersion(p, i, activate) ==
    i \in Ids /\ CreateVersion(p, templates[i].task, templates[i].target, activate)

\* Mutant: the cache is flushed when a version is created, not when one is activated.
ActivateUnflushed(p, i) ==
    /\ i \in Ids
    /\ templates' = ActivateIn(templates, i)
    /\ overtaken' = {q \in PromptProcesses : \/ reloading[q] # NotReading
                                             \/ q # p /\ promptCache[q].loaded}
    /\ UNCHANGED <<promptCache, reloading, abTests, benchmark, promptScores>>

Activate(p, i) ==
    /\ i \in Ids
    /\ templates' = ActivateIn(templates, i)
    /\ Flushed(p)
    /\ UNCHANGED <<abTests, benchmark, promptScores>>

(***************************************************************************)
(* PromptStore.get_active.  The reload awaits the database, so a commit    *)
(* and its invalidate may come between the read and the fill.              *)
(***************************************************************************)
ReloadRead(p) ==
    /\ ~promptCache[p].loaded /\ reloading[p] = NotReading
    /\ reloading' = [reloading EXCEPT ![p] = ActiveIds]
    /\ UNCHANGED <<templates, promptCache, overtaken, abTests, benchmark, promptScores>>

ReloadFill(p) ==
    /\ reloading[p] # NotReading
    /\ promptCache' = [promptCache EXCEPT ![p] = [loaded |-> TRUE, ids |-> reloading[p]]]
    /\ reloading' = [reloading EXCEPT ![p] = NotReading]
    /\ UNCHANGED <<templates, overtaken, abTests, benchmark, promptScores>>

\* What a lookup in p answers from the loaded cache.
GetActive(p, task, matching) == Lookup(promptCache[p].ids, task, matching)

\* A worker process is recycled.
ProcessRestarts(p) ==
    /\ promptCache[p].loaded \/ reloading[p] # NotReading
    /\ Invalidated(p) /\ reloading' = [reloading EXCEPT ![p] = NotReading]
    /\ overtaken' = overtaken \ {p}
    /\ UNCHANGED <<templates, abTests, benchmark, promptScores>>

(***************************************************************************)
(* ABTestRouter.                                                           *)
(***************************************************************************)
CreateTest(task, a, b) ==
    /\ Len(abTests) < MaxTests /\ {a, b} \subseteq Ids
    /\ templates[a].task = task /\ templates[b].task = task
    /\ abTests' = Append(abTests, ABTestRow(task, a, b))
    /\ UNCHANGED <<templates, promptCache, reloading, overtaken, benchmark, promptScores>>

Conclude(n) ==
    /\ n \in 1..Len(abTests)
    /\ abTests' = [abTests EXCEPT ![n].status = "concluded"]
    /\ UNCHANGED <<templates, promptCache, reloading, overtaken, benchmark, promptScores>>

\* The newest active test of the task; the routing key's roll picks a variant.
ActiveTestFor(task) ==
    LET live == {n \in 1..Len(abTests) : abTests[n].task = task
                                         /\ abTests[n].status = "active"}
    IN IF live = {} THEN Nothing ELSE Max(live)

PickVariant(n, roll) == IF roll = "A" THEN abTests[n].a ELSE abTests[n].b

\* What a caller in process p gets for the task.
SelectVariant(p, task, matching, roll) ==
    IF ActiveTestFor(task) # Nothing THEN PickVariant(ActiveTestFor(task), roll)
    ELSE GetActive(p, task, matching)

(***************************************************************************)
(* PromptEvaluator: load the template, run every case against a provider   *)
(* that may fail, store the averages; a failed case scores zero.           *)
(***************************************************************************)
NoBenchmark == [template |-> Nothing, text |-> Nothing, left |-> 0, scored |-> 0]

RunBenchmark(p, i) ==
    /\ i \in Ids /\ benchmark[p] = NoBenchmark
    /\ benchmark' = [benchmark EXCEPT ![p] =
                       [template |-> i, text |-> templates[i].text,
                        left |-> BenchmarkCases, scored |-> 0]]
    /\ UNCHANGED <<templates, promptCache, reloading, overtaken, abTests, promptScores>>

RunCase(p) ==
    /\ benchmark[p].left > 0
    /\ \E answered \in {0, 1} :
         benchmark' = [benchmark EXCEPT ![p].left = @ - 1, ![p].scored = @ + answered]
    /\ UNCHANGED <<templates, promptCache, reloading, overtaken, abTests, promptScores>>

Summarize(b) == [template |-> b.template, text |-> b.text, scored |-> b.scored]

StoreScores(p) ==
    /\ benchmark[p] # NoBenchmark /\ benchmark[p].left = 0
    /\ Cardinality(promptScores) < MaxScores
    /\ promptScores' = promptScores \cup {Summarize(benchmark[p])}
    /\ benchmark' = [benchmark EXCEPT ![p] = NoBenchmark]
    /\ UNCHANGED <<templates, promptCache, reloading, overtaken, abTests>>

\* The benchmark runs inside the request, which is cut off with its process.
BenchmarkLost(p) ==
    /\ benchmark[p] # NoBenchmark
    /\ benchmark' = [benchmark EXCEPT ![p] = NoBenchmark]
    /\ UNCHANGED <<templates, promptCache, reloading, overtaken, abTests, promptScores>>

(***************************************************************************)
(* The endpoints.                                                          *)
(***************************************************************************)
create_template(p, task, target, activate) == CreateVersion(p, task, target, activate)
patch_template(p, i, activate) == PatchAsNewVersion(p, i, activate)
activate_template(p, i) == Activate(p, i)
create_ab_test(task, a, b) == CreateTest(task, a, b)
conclude_ab_test(n) == Conclude(n)
trigger_eval(p, i) == RunBenchmark(p, i)

\* seed_prompts gives every task type an active wildcard template.
PromptInit ==
    /\ LET order == SetToSeq(TaskTypes)
       IN templates = [k \in DOMAIN order |-> TemplateRow(order[k], "wildcard", k, TRUE)]
    /\ promptCache = [p \in PromptProcesses |-> Unloaded]
    /\ reloading = [p \in PromptProcesses |-> NotReading] /\ overtaken = {}
    /\ abTests = <<>> /\ promptScores = {}
    /\ benchmark = [p \in ApiProcesses |-> NoBenchmark]

PromptNext ==
    \/ \E p \in ApiProcesses, i \in Ids :
         \/ activate_template(p, i) \/ trigger_eval(p, i)
         \/ \E b \in BOOLEAN : patch_template(p, i, b)
    \/ \E p \in ApiProcesses, t \in TaskTypes, g \in Targets, b \in BOOLEAN :
         create_template(p, t, g, b)
    \/ \E p \in ApiProcesses : RunCase(p) \/ StoreScores(p) \/ BenchmarkLost(p)
    \/ \E p \in PromptProcesses : ReloadRead(p) \/ ReloadFill(p) \/ ProcessRestarts(p)
    \/ \E t \in TaskTypes, a, b \in Ids : create_ab_test(t, a, b)
    \/ \E n \in 1..Len(abTests) : conclude_ab_test(n)

PromptSpec == PromptInit /\ [][PromptNext]_promptVars

(***************************************************************************)
(* Properties.                                                             *)
(***************************************************************************)

\* Callers of every model and provider.
Callers == {matching \in SUBSET Targets : "wildcard" \in matching}

\* The engine always has a prompt for a seeded task, whatever model the caller
\* runs: no interleaving of PromptStore's activations and cache reloads leaves a
\* process without one.
AlwaysResolves ==
    \A p \in PromptProcesses : promptCache[p].loaded =>
      \A t \in TaskTypes, c \in Callers : GetActive(p, t, c) # Nothing

\* A process answers with the version that was activated last, unless it read its
\* rows before that commit and the commit's invalidate() did not reach them: in
\* the process that committed only a reload that was already under way is missed,
\* in the others everything until they restart.
FreshUnlessOvertaken ==
    \A p \in PromptProcesses :
      promptCache[p].loaded /\ p \notin overtaken => promptCache[p].ids = ActiveIds

\* A stored score describes the text its template still has.
ScoresDescribeTemplate ==
    \A s \in promptScores : templates[s.template].text = s.text
=============================================================================
