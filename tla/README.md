# A TLA+ development for fragchain-core

FragChain turns a CVE into defensive artifacts. An analyst (or a headless
caller) opens a *coverage assessment*; three loops, each one LLM-backed Celery
task, build a vulnerability profile, extract indicators and generate Sigma
rules; a human reviews every rule before it is sent as a pull request to a
Git host. This directory models the parts of that system where processes meet
in the database, checks them with TLC and proves their safety properties with
TLAPS.

| module | what it is |
|---|---|
| `AssessmentLoops.tla` | the life of one assessment: dispatch, execution, finalize, auto-advance, close, chain reuse, reaper |
| `RuleReview.tla` | the rules of one (CVE, technique, profile): generation, review queue, pull requests |
| `Artifacts.tla` | generated artifacts of one assessment and type: generation, reaper, validation |
| `ArtifactRouter.tla` | classification, routing policy, Loop 3 gate and the observation of its outcome |
| `LiveFeed.tla` | the pipeline of a CVE: webhook, polling, import, manual entry, and the stage tasks up to complete |
| `Coverage.tla` | coverage mapper, coverage_map, rule library and index, matrix cache |
| `CoverageBoard.tla` | abstract: what the matrix promises its readers; implemented by `Coverage` |
| `AttackChains.tla` | the chains of one CVE and their writers |
| `Prompts.tla` | prompt versions, caches, A/B tests, benchmark runs |
| `LlmCalls.tla` | one structured call: retries, record, timeout, repair, vote |
| `Events.tla` | event bus, Redis channel, bridge, sockets, tickets |
| `Embedding.tla` | pasted sources and documents on their way into the vector store |
| `Connectors.tla` | connector orchestrator and connector_state |
| `Disclosure.tla` | TLP, embargo, grants, claims, and the predicates of the read paths |
| `Commons.tla`, `Contributions.tla` | import from and contribution to the intelligence commons |
| `SigmaTargets.tla` | administration and routing of Sigma targets |
| `Profiles.tla` | logsource profiles and their seed |
| `*_proofs.tla` | the theorems about the module of that name; `PlatformData_proofs` is about `AttackChains`, `Commons`, `LlmCalls`, `Events`, `Prompts` and `Embedding`, `PlatformPolicy_proofs` about `Disclosure`, `Contributions`, `Profiles`, `Connectors` and `SigmaTargets` |
| `MC*.tla`, `*.cfg` | instances for TLC |

## 1. Inventory

Paths are relative to `src/fragchain/`.

| component | state it keeps | operations | interacts with | hard because |
|---|---|---|---|---|
| assessment loops (`assessments/orchestrator.py`, `state_machine.py`, `loop_chain.py`, `chain_reuse.py`, `service.py`, `worker/tasks/run_assessment_loop.py`) | `coverage_assessment.state`, `auto_advance`; versioned rows of `assessment_loop_run` with `status`, `is_active`, `output` | begin_run, execute_run, finalize, close, use_as_start, set_auto_advance, advance_after_run | API requests commit a `running` row, then send a Celery message; the worker finalizes and may begin the next loop | check-then-act without locks at READ COMMITTED; message lost or delivered twice; a crash between two commits |
| reaper (`worker/tasks/reaper.py`) | none | every 5 minutes: fail rows that are in flight too long | races with the workers that own those rows | a late worker against the flip |
| artifact generation and validation (`assessments/artifact_generation.py`, `artifact_validation.py`, `worker/tasks/generate_artifact.py`) | `generated_artifacts` with `version`, `is_active`, `status`, `validation_status` | begin_generation, generate, mark failed, validate, approve, reject | as above | two requests compute the same version; recording a failure may fail |
| detectability and router (`assessments/detectability.py`, `artifact_router.py`, `gating.py`) | one classification and one plan per Loop 2 run | classify, build_plan, gate Loop 3, observe_loop3 | hooks of Loop 2 and Loop 3; readers join on the active Loop 2 run | order of guardrails; class read at the start of Loop 3, plan at its end |
| review queue (`queue/manager.py`, `queue/supersede.py`) | `review_queue`, `sigma_rules`, `coverage_map.covering_rule_ids` | assign, approve, edit_and_approve, reject, supersede | approve commits, then submits to the Git host, then records | guards on what was loaded; partial failure around the PR |
| rule generation (`rules/generator.py`, `assessments/rule_supersession.py`, `loops/loop3.py`) | `sigma_rules`, `review_queue` | generate_all_gaps, dedup by content hash, supersede earlier rules | Loop 3 and the live feed both generate | dedup without a unique constraint; commit in the middle of a run |
| Sigma targets (`sigma/targets.py`, `sigma/transport.py`) | branch and PR on the host | submit_rule, resubmission task | HTTP | an answer that is lost after the host acted |
| chain synthesis, live-feed chain generator (`assessments/chain_synthesis.py`, `chain/`) | `attack_chains` with `version`, `superseded_at`, `validated` | synthesize, generate, supersede, validate, reject | Loop 2 and the feed write chains of one CVE | two writers, two unique indexes, no lock |
| coverage (`coverage/`) | `coverage_map`, cached matrix | map techniques, upsert, invalidate, warm | dispatched by Loop 3, the feed and operators; reads the rule library and its index | lost updates, deadlock, a cache filled from an overtaken read |
| ingest (`ingest/`, `worker/tasks/`) | `cves.processing_status`, import jobs | webhook, poll, import, approve, enrich, drain | the stage tasks pass a CVE on by status and message | a status tested when loaded and written minutes later; lost or early messages |
| Sigma sources (`sigma/sources.py`) | imported rules | refresh | coverage, index | messages sent before the commit |
| LLM layer (`llm/`) | interaction log | structured_complete | all loops | retries, timeouts and what they cost |
| prompts (`prompts/`) | versions, one active per task and target, a cache per process | create, patch, activate, test, benchmark | every prompt consumer | caches that only the writer invalidates |
| notifications (`notifications/`, `api/ws_tickets.py`) | queues, subscriptions, tickets | emit, publish, re-emit, connect | every process | two ways for one event, overflow, reconnects |
| embedding (`vector/`, `assessments/source_service.py`) | `embedding_status`, `embedded`, points | paste, embed, delete, force | worker and vector database | redelivery, boundary of the last window |
| connectors (`connectors/`) | failure window, health, `connector_state` | bootstrap, toggle, check, enrich, stream | start-up, operators, feed | health check against failures; a crash after an answer |
| TLP and embargo (`security/`) | declared level, `embargo_until`, grants, participants, token claims | login, release, filter | every read path | state that changes under a token or a beat task |
| commons (`commons/`), evaluations (`evaluations/`) | sources, releases, imported chains, contributions | bootstrap, sync, contribute | Git hosts | failure between two sources |
| Sigma target administration, profiles (`sigma/targets.py`, `profiles/store.py`) | `sigma_targets`, `logsource_profiles` | create, update, delete, route, seed | review queue, rule generation | changes under a submission, a seed during an edit |
| API (`api/`), storage, audit, identity | sessions, log | login, reads | all of the above | - |
| frontend, nginx, scripts, migrations | - | - | - | not part of the core logic |

What makes each component correct: *loops* - one active row with output per
loop, no output lost, the state agrees with the rows, no row stays `running`;
*artifacts* - the latest version is the active one, no row stays `generating`;
*router* - every classification leads to a plan, Sigma is planned only when
justified, gate and plan agree; *review* - only text that a reviewer approved
or an operator submitted by rule id leaves the instance, a decision is final
unless two operations met on the row, what is recorded as submitted exists; *feed* -
a stage is reached only on finished work, nothing unapproved is processed, a
live CVE does not stay pending; *coverage* - counts match lists, verdicts are
published together and have a rule to show, the cache catches up; *chains* -
the active chain is the latest; *prompts* - a seeded task always has a prompt,
and it is the newest unless a commit overtook the reload of the process; *LLM* -
the cost reported is what was charged, less what nobody could read;
*events* - once and in order; *embedding* - what is marked embedded can be
retrieved whole, unless it was too short or could not be read; *connectors* -
healthy means healthy, an answered toggle survives; *disclosure* - an embargo
holds on every read path until the end declared last; *commons* - the
winning chain does not get worse, a contribution counted has a pull request;
*targets* - where the configuration is unambiguous, so is the routing;
*profiles* - the seed does not overrule an operator.

## 2. The modules and the code

Every definition that models code has its lines in `PROJECT.json` under `map`.
Common ground: PostgreSQL runs at READ COMMITTED, sessions use
`expire_on_commit=False`, and the ORM writes an attribute only if it differs
from the value that was loaded. So a request is modelled as a *read* step that
stores what it loaded and a *commit* step that writes by comparison with it;
everything inside one transaction after the last read is one step.

### AssessmentLoops

`runs` is the table `assessment_loop_run`, `state` and `auto` the assessment,
`proc[p]` what a request or a worker is in the middle of (program counter and
what it has read), `queue[r]` the Celery messages of row r, `cand` the reaper's
candidate. A dispatch is `BeginCheck`, `ReadVersion`, `InsertRun` (or
`BeginFails`: the unique constraint, or any other error of the database),
`Enqueue` or `LoseDispatch`. A worker takes `StartRun`, `FinalizeFlush`,
`CommitOutput` / `CommitFailed`, or `ExecuteRaises` and the fresh-session path
`FinalizeFailed*`, then `AdvanceDispatch`, `AdvanceStop` or `AdvanceErrors`. The
last, and `BeginFails` in a worker, are the exceptions that
`advance_after_run` logs before the task is acknowledged: no next loop will be
started, and the history variable `dropped` remembers the run after which that
happened. `Crash` returns the message to the queue
(acks_late, reject_on_worker_lost); `Redeliver` hands a message of an
executing task to a second worker (visibility timeout). Row locks are modelled
where a second transaction waits for the first (`Holds`).

The loops' LLM work is an outcome chosen from those the code can produce.
`OneAtATime` restricts an instance to an analyst who waits between operations;
it is used to say precisely which properties need that.

### RuleReview

`rules[r]` joins a `sigma_rules` row with its `review_queue` row. `sess[s]` is
a reviewer's request with the row it loaded; `gen[g]` a generation pass.
`repo[r]` is the rule's branch on the host (external), `mapped` and `covering`
the technique's row in `coverage_map`, which may be missing (then a supersession
extends nothing). The steps of an approval are
`LoadPair`/`LoadEdit`, `approve` (commit), `Refresh`, `PullRequestCreated` /
`PullRequestExists` / `TransportFails`, `RecordPR`. `submit_by_ids` is the task
an operator starts with a rule's id. It tests no status: it may run twice,
beside the approval's own submission, or for a rule nobody has reviewed.

Three history variables let the properties say what they are about: `signed`,
the texts a reviewer approved per rule; `direct`, the texts an operator
submitted by id; `raced`, the rules whose rows one operation read while another
was between reading and writing them.

Simplifications: one triple; the GitHub transport; pull requests stay open;
`assigned_to`, events, audit rows and the matrix cache are left out.

### Artifacts

`rows` is `generated_artifacts` for one assessment and type. `BeginRead` and
`BeginCommit`/`BeginClash` are the two halves of `begin_generation`: the
partial unique index is `ActiveClash`. A task is `Start`, `Generated` or
`GenerateRaises`, then `MarkRead`, `MarkWrite` (`MarkErrors`: the database
fails; first `_mark_failed`, then `_finalize_failed` in a fresh session), and
`Ack`. `LoadDecision` and `transition` are validate, approve and reject. A
generated row always has content, so the lints' verdict is a function of that.

### ArtifactRouter

`active` is the active Loop 2 run with classification and plan, which are
committed in the transaction that activates it; older runs are not readable
by anyone and dropped. `build_plan` is composed of the builder's operations in
the order of the code. Reasons, priorities and the adjustment trace are left
out. `loop3` remembers which Loop 2 run decided about the gate, `observed`
what was written on the plan and by whom. A confidence is reduced to whether
it is below the floor.

### LiveFeed

`cves` holds the row of each CVE, `tasks` the Celery messages, `wk[w]` what a
worker is in the middle of with the status it loaded. Every stage task is
`*Load` (accepts some statuses only), its work, `*Mark` (writes the next status
over whatever is there: the identity map returns the loaded row) and `*Send`.
The work is visible in `chains` (the CVE has had a chain), `active` (it has one
that is not superseded: a failed synthesis of an assessment takes it away),
`mapped` and `ruled`. The drain takes at most `BatchLimit` rows per tick (the
code's `.limit(50)`); which of the pending rows come first is left open.
`Dispatch` may lose a message (the code logs broker errors only), `TaskErrors` is an exception
outside the handlers and `WorkerLost` a dead process. An import is
`StartImport`, `StageRead`, `StageCommit` or `StageRaced` (IntegrityError
rolls the pass back), its approval `ApproveSend` then `ApproveCommit`, in the
order of the code. Equal waiting messages count once; the novelty filters
answer arbitrarily. Assessments enter with `AssessmentChain` and
`CoverageDispatch`, the rule and coverage endpoints with `Regenerate`,
`GenerateForTechnique`, `RecomputeChain`, `RecomputeAll`.

### Coverage and CoverageBoard

A mapping is `MapCompute` (verdict per technique from tags, index and verify
answers under the call cap), then per technique `GetCoverageRow` and `Flush`
(which takes the row lock), and `MapCommit`; `InsertRefused`,
`DeadlockDetected` and `MapperFails` are its other ends. A write carries the
columns that changed from the loaded ones (`Updated`) and `last_refreshed`,
which is reduced to the run that wrote it (`stamp`). `reader` is the request
or the beat task between reading the table and setting the cache.
`CoverageBoard` states what readers may rely on without mappers: the verdicts
for all techniques of one chain appear together, in one round and with nothing
else; a verdict other than gap has a rule to show; a technique that lists a rule
or a CVE never goes back to listing none. Its variable `round` is what makes
"together" a statement: publishing technique by technique would be two steps
with the same round, or a step that leaves a technique of the chain out, and the
board allows neither. `ImplementsBoard` is the refinement: columns of `cells`
for the board's variables, `stamp` for `round`.

### The platform modules

`AttackChains`, `Prompts`, `LlmCalls`, `Events`, `Embedding`, `Connectors`,
`Disclosure`, `Commons`, `SigmaTargets`, `Contributions` and `Profiles` each
have their own variables, initial predicate and next-state relation, with one
action per operation, split where the code commits, awaits or calls out. None
reads what another writes, so `MCPlatform` puts them, and `ArtifactRouter`, into
one state space in which a single part, the `focus`, moves: the interleaving of
independent parts would add states and no behaviour of any of them. What couples
them in the code is data that the modules take as an input: the commons hit of
the chain generator, the verdict of the validator, the level of a rule.

* `AttackChains`: rows of `attack_chains` and the open transactions of
  assessments (`SynthesizeStart`, `SupersedePriorActive`, `InsertChainRows`,
  `PersistChain`) and generators; both unique indexes are `Clashes`.
* `Prompts`: a process reads the active rows (`ReloadRead`) and fills its cache
  later (`ReloadFill`); `select_variant` prefers an open A/B test. A commit
  invalidates the cache of its own process and nothing else: `overtaken` is the
  set of processes whose rows a later commit did not reach. One reload per
  process at a time is a simplification.
* `LlmCalls`: a sample is a provider call with its attempts; the interaction is
  recorded before the answer counts, inside the caller's timeout. A connection
  that breaks or times out may have been charged, an unknown price counts 0,
  and the error of a failed call carries no cost: `unseen` adds up the charges
  whose price no caller could read.
* `Events`: events carry origin and number; full queues drop, Redis and the
  bridge come and go. A socket is admitted by a ticket or a Bearer header.
* `Embedding`: a text is its length; a window is a set of token positions, so
  that "retrieved whole" is a union of windows. A document whose content cannot
  be read is marked with nothing stored (`MarkedUnstored`, history `unread`).
* `Connectors`: one API process; the window of failures is a count that
  a healthy check clears.
* `Disclosure`: levels are numbers 0-4, time a counter; the three read paths
  (`apply_tlp_filter`, `visible_to_user_sync`, `Event.visible_to`) are operators.
  An event is delivered with the row as it is; the level it copied when it was
  emitted, and the user named `admin` (a maintainer by name), are left out.
  `promised` is the end of the embargo as declared last, `rearmed` the rows
  declared anew while the release task had their ids.
* `Commons`: a fetch may find any release or none (so a URL that is changed
  needs no state); the winner is by (priority, trust, version), all three of
  which an administrator may change while an import works from the row it
  loaded. An import is private until its commit. The start-up hook skips an
  instance that has synchronised before; the worker task does not ask.
* `SigmaTargets`: an expression is the set of rule kinds it is true of;
  the load order is arbitrary.
* `Contributions`: a contribution pushes a branch, a file and a pull request
  per source and marks the evaluation at the end. The rule's level is a column
  that a refresh of its source rewrites (`RefreshSource`), before or after a
  request has taken its snapshot; `cleared` are the evaluations that were
  requested while it was clear.
* `Profiles`: requests and the seed load a row and later write the columns
  they changed.

## 3. Runs

| run | instance | shows |
|---|---|---|
| `loops_concurrent` | 2 requests, 2 workers, 3 rows, 1 crash, slow runs, chain reuse | `ActiveHasOutput`, `OutputNeverLost` under all interleavings |
| `loops_recovery` | 1 request at a time, 5 rows, auto-advance, chain reuse, 1 crash, fair | `StateMatchesOutputs`; `CompletedLeftByReuse`: a closed assessment is reopened by an import only; `ChainContinues`: the chain of loops goes on after a crash at any point, unless the dispatch of the next loop raised |
| `loops_reaper` | lost dispatches, crash, redelivery, slow runs, fair | `NoRunStaysRunning` |
| `review` | 2 reviewers, 3 requests, 2 Loop 3 passes, 2 rules, 2 texts (one invalid), submissions by id, 1 failure | `ShippedTextWasApproved`, `RecordedPRExists`, `ItemMatchesRule`, `RejectedNotShipped`, `UnracedDecisionStands` under all interleavings |
| `artifacts` | 2 requests, 2 workers, 2 rows, 1 fault, fair | `ActiveIsLatest`, `GeneratingIsActive`, `RowSettles` |
| `feed` | 1 CVE (listed in KEV), 2 workers, 2 requests, 1 fault, 1 retry, limits of 1, fair | `StagesBacked`, `HistoricalIsApproved`, `LivePendingLeaves` |
| `coverage` | 2 mappers, 2 chains over 2 techniques in opposite order, 1 rule, 1 input, 1 fault, fair | `CountsAgree`, `ImplementsBoard` (refinement), `CacheCatchesUp` |
| `platform` | the twelve parts of `MCPlatform`, one at a time | `ActiveIsLatest`, `AlwaysResolves`, `FreshUnlessOvertaken`, `ScoresDescribeTemplate`, `CostIsBilled`, `DeliveredOnceInOrder`, `EmbeddedIsRetrievable`, `HealthyIsClean`, `OperatorChoiceKept`, `EmbargoHonoured`, `WinnerNeverDowngraded`, `UnambiguousRouting`, `ContributedHasPR`, `SeedKeepsChoice`, and of the router `ClassifiedIsPlanned`, `SigmaIsJustified`, `GatedAgrees` |
| `loops_completed` (violation) | as `loops_recovery` | `CompletedIsTerminal` fails with nothing else going on: `use_as_start` puts a closed assessment back to `loop1_done`, where `state_machine.py:63` says "COMPLETED is terminal" |
| `feed_stuck` (violation) | no fault at all, fair | `MappingLeaves` fails: the mapping task is queued before the CVE is `mapping`, is skipped, and "the budget tick is the safety net" does not cover it |
| `review_race` (violation) | 2 reviewers, 1 rule | `DecisionStands` fails: "once a row is approved/rejected it stays that way" holds only for requests that do not overlap |
| `review_covering` (violation) | 2 reviewers, 2 rules, supersessions only | `CoveringGrows` fails: of two overlapping supersessions the later drops the rule the earlier added (`queue/supersede.py:217`), although the service promises that "the chosen rule is in `covering_rule_ids`" |

Each property of a passing run has a mutant in `PROJECT.json`: a plausible bug
in one mapped definition under which TLC finds the property violated.

`review` restricts three of its properties to rules that are not in `raced`.
That excludes the overlap on one row which `review_race` shows to be broken,
and nothing else: other rows are raced at will, also by generation passes.

### Bounds

Two requests and two workers are enough for every two-party race; the third
row in `loops_concurrent` lets both race against a version that was finalized
before, the five in `loops_recovery` let every loop run and two be repeated or
imported. One crash can fall between any two steps. In `review` two rules and
two texts allow a dedup hit, a supersession and an edit to a text another rule
has; three requests are two that overlap and one after them (a submission, or
a second decision). `MaxGenerations` never exceeds `MaxRules`, so that no pass
is stopped by the bound in the middle. In `artifacts` two rows are one version
and its replacement; a request that finds all rows used simply stays where it is.

In `feed` everything happens to one CVE, since the tasks of different CVEs
meet only in the limits, which are 1; two requests are, for instance,
an import and a webhook, or an import and its approval, or a webhook and
a reprocess. In `coverage` the opposite order makes the deadlock possible, and one
of the two techniques is not seeded so that both insert and update race.

In `platform`, by part:

* router: a second Loop 2 run can fall between any two steps of Loop 3; two of
  the artifact types are listed by the classifier (the theorems cover all four).
* chains: two assessments and one generator, two versions. Prompts: two
  processes and three versions, which allow a reload between a deactivation and
  an activation while a test is open. LLM: two samples, two repairs. Events: two
  processes, queues of two, two events, one socket, two tickets.
* embedding: two workers and the forced embed of the API, one paste and one
  document; windows of 3 tokens with overlap 1 and minimum 2 put the lengths 1,
  4 and 6 on both sides of the edges, the total of 5 makes the paste cap bind.
* disclosure: one user, one row, three instants: enough for an embargo to be
  declared, expire, be selected, declared again and cleared.
* commons: two sources and two import tasks, so that bootstrap, hourly sync and
  the endpoint overlap; two imports and three administrative requests.
* contributions: two sources, so that one of a batch can fail after the other
  took the request, and two evaluations. There is one contributor: a second one
  takes the run over 600,000 states in this part alone. The theorem is about any
  number of them.
* targets: two targets, one kind of rule, one approver. Connectors: one
  connector and one operator. Profiles: two names and one editor.
  `OperatorChoiceKept` and `SeedKeepsChoice` assume one operator at a time by
  hypothesis (`Operators`, `Editors` have one member): two operators overwrite
  each other, see section 5.

Symmetry is used where no liveness property is checked and only over
interchangeable requests, workers and reviewers. `CHECK_DEADLOCK FALSE` is set
throughout: the system may rest when no request arrives, and all behaviours
end when the bounds are used up.

### Fairness

* *AssessmentLoops*: a request that has begun goes on, an idle worker takes a
  queued task and an executing one ends (every LLM call has a timeout and a
  bounded number of retries), Beat runs the reaper periodically (`ReapScan`),
  weakly fair; the flip is strongly fair because it waits for row locks that
  others hold for a while.
* *RuleReview*: requests and passes in progress go on; nobody is obliged to
  start one. In particular no run assumes that an approved rule without a PR is
  submitted again: a comment in `queue/manager.py:578` names a "PR retry path",
  but no code takes such a row up, only an operator who starts
  `submit_rule_to_target`. Only the violation runs use this fairness.
* *Artifacts*: workers go on, the reaper runs. Requests are not fair: one may
  die between its commit and its dispatch.
* *LiveFeed*: Beat runs the budget drain, a worker finishes what it took, and
  the broker keeps delivering the messages of a CVE as long as workers keep
  becoming free (strong fairness per CVE; which message comes first is open).
* *Coverage*: Beat fires `refresh_matrix_cache` and the task ends. Mappers are
  not fair.
* The platform modules state safety only.

No run assumes that the LLM, the Git host or the database succeeds. Where an
error of the database is swallowed by the code and nothing follows, the property
says so (`ChainContinues` excepts the runs in `dropped`).

## 4. Proofs

Every safety property that a run checks is also a theorem, for every value of
the constants that satisfies the named `ASSUME`s. Each proof has the same
shape: an inductive invariant that contains the property, one lemma per action
or kind of action, and a temporal last step. The invariants of the larger
modules were checked by TLC before they were proved.

**AssessmentLoops_proofs.** `TypeCorrect` (from `TypeInv`: types and
`ProcShape`). `StepKinds` classifies the steps by how they touch the rows, so
that later proofs treat a handful of kinds. `OneExecutor`, `ActiveOutput`,
`OutputKept` assume `MaxRedeliver = 0`: with a redelivered executing task they
are false (section 5). Their inductive invariant is `InFlightInv`: a run has at
most one delivery, counting the message, the executing worker and the request
about to send; rows being executed are inactive; rows about to be demoted had
output. `ActiveHasOutput` alone is not inductive: a demotion could hit a row
someone else is finalizing. `StateMatchesOutputsAlways` and
`CompletedLeftByReuseAlways` also assume `OneAtATime`: they are false when
operations overlap (section 5). Chain imports, crashes, lost dispatches,
swallowed errors and slow runs that the reaper meets stay arbitrary. `SerialInv`
says that there is one actor or one waiting delivery (`SoleActor`), that the
only running row is the actor's or that of the next loop (`TaskFits`,
`DeliveryFits`), and that the loops before it have output (`ReadyFor`): the last
is what begin_run tested, possibly many steps and a crash ago, and what makes
the state written at the end right. After an import (`ImportedStart`) later
loops may have active rows the state does not tell of; the property says so, and
the invariant carries it until a Loop 2 has replaced them.

**RuleReview_proofs.** `HumanReview` (`ShippedTextWasApproved`) and
`RecordedExists` (`RecordedPRExists`), without a hypothesis. The invariant
`ReviewInv` adds to the types that what a request has loaded is still the
rule's text unless a reviewer signed another since, that after an approval the
rule's text is a signed one, whoever signed it, and that what is about to be
pushed was signed or submitted by id (`SessInv`). The second is needed because
the approval reads the rule again before it sends it. `ItemMatchesRuleAlways`,
`RejectedNotShippedAlways` and `UnracedDecisionStandsAlways` come from
`TurnInv`: for a rule outside `raced` at most one operation holds its rows, and
what that one has loaded is still so. Operations on other rules overlap at will,
and failures, lost answers and submissions by id are arbitrary; `review_race`
shows that the restriction is needed.

**Artifacts_proofs.** `TypeCorrect`, `LatestIsActive` (`ActiveIsLatest`) and
`GenerationIsShown` (`GeneratingIsActive`). Versions have no unique
constraint; they are unique because a request that has read the table is
*up to date or doomed* (`ReadInv`): either its active rows are today's and its
version is new, or there is an active row it has not seen and the index on the
active row refuses its insert. `SeenIsSettled` adds that what it is about to
deactivate is not generating.

**ArtifactRouter_proofs.** `TypeCorrect`, `EveryClassPlanned`,
`SigmaNeedsReason`, `ClassifierSkipWins`, `GateMatchesPlan`. The lemmas
`BuilderSound` to `ClassSound` show that each operation of the builder keeps a
plan `Sound` for its classification; `PlanFacts` composes them.
`RouterInv` ties the gated Loop 3 to the class of the run that gated it.

**LiveFeed_proofs.** `TypeCorrect`, `StagesBackedAlways`,
`HistoricalIsApprovedAlways`. A status is written over whatever is there, so
the properties are about what a worker at each `pc` has already committed:
`FeedInv` says that a task past its work has the chain, the mapping or the
rules to show, that these never disappear, and that the rows an import pass
has seen still exist.

**Coverage_proofs.** `TypeCorrect`, `CountsAgreeAlways`, and the refinement
`BoardRefined`: `Coverage` implements `CoverageBoard`. `CoverageInv` keeps, for
each mapper between its read and its flush, that the row it loaded is one the
table had and that the columns it will write agree with each other; that no two
mappings in flight are the same run; and that a mapper about to commit has
written every technique of its chain. The last two make the commit of a mapper
one `Publish` of the board for exactly the techniques of one chain; every other
step is a stutter.

**PlatformData_proofs.** `ActiveIsLatestAlways`: versions have no gaps
(`ChainInv`), so that a transaction whose version is not refused has seen the
latest chain. `WinnerNeverDowngradedAlways`, from `CommonsInv`: finitely many
imported chains, none removed by an import. An import is private until
its commit, and administrators edit the sources meanwhile.
`CostIsBilledAlways`: what a call counted, plus what its samples hold, plus what
nobody could read (`unseen`), is what was charged.
`DeliveredOnceInOrderAlways`: sent, queued and published events form
one ascending sequence. `AlwaysResolvesAlways` and
`ScoresDescribeTemplateAlways`: rows are added and activated but never edited,
so any set of ids a process once read still serves every task.
`FreshUnlessOvertakenAlways`: a cache, or a reload under way, that no commit has
overtaken holds exactly the ids that are active now.
`EmbeddedIsRetrievableAlways`: what `chunk_text` returns is derived from its
recursive equation, by the last position where the claim would fail instead of
by induction; the recursion has a solution (`TableExists`) and its windows hold
every token (`TableCovers`) because `MIN_CHUNK_TOKENS` is at most
`CHUNK_OVERLAP_TOKENS + 1` - with the code's 50 and 50, one below the limit.

**PlatformPolicy_proofs.** `EmbargoHonouredAlways`: until the end that was
declared last, a row that is not `rearmed` still has an embargo in its column
whatever the release task does, and the read predicates respect it
(`DisclosureInv`). `ContributedHasPRAlways`: a request that counts a submission
has opened the pull request, and one that is under way was cleared when it
began, though the level changes under it (`ContributionInv`).
`HealthyIsCleanAlways`, `UnambiguousRoutingAlways`, and for one editor or
operator at a time `SeedKeepsChoiceAlways` and `OperatorChoiceKeptAlways` (two
operators overwrite each other, section 5).

Assumptions: the named `ASSUME`s of the modules, which TLC evaluates in each
run. They say that bounds are naturals, that sets of processes are disjoint and
that sets the code enumerates are finite; `EmbeddingAssumption` states the
relation of the chunking constants.

*Only model-checked:* the liveness properties `NoRunStaysRunning`,
`ChainContinues`, `RowSettles`, `LivePendingLeaves` and `CacheCatchesUp`. They need fairness and `ENABLED`, which the prover does not
support.

## 5. Seen while modelling, without a run of its own

* Two loops of one assessment that finalize concurrently each write the state
  they computed when they started: the later commit may revert it.
* A Loop 2 after use-existing-chain always fails: `loops/loop2.py:65` wants
  Loop 1's profile, which the imported row does not have.
* Loop 3's gate is tested in begin_run only; a Loop 2 that is repeated before
  the worker starts may fail its gate afterwards.
* use_as_start leaves the rows of Loops 2 and 3 active, with a state that says
  they have not run.
* An error of the database while the next loop is dispatched is logged and the
  task acknowledged (`loop_chain.py:94`): auto-advance stops without a trace in
  the tables.
* A redelivery can also turn a succeeded row into `failed`, after which
  auto-advance stops.
* `superseded` is missing from the terminal queue statuses
  (`queue/manager.py:85`): a superseded row can still be approved.
* A dedup hit in Loop 3 may return a rejected rule, which then supersedes
  others (`rules/generator.py:1180`).
* Rules that are `in_review` or submitted are not retired by a new Loop 3
  (`rule_supersession.py:56`).
* After an edit the content hash is computed by another function than the
  generator's (`queue/manager.py:810`), so the dedup misses it.
* A supersession for a technique without a coverage row records the chosen rule
  nowhere but on the queue row (`queue/supersede.py:215`).
* A rule that an operator submits by its id goes out whatever its status; a
  generated one becomes `submitted` while its queue row stays open, a rejected
  one stays `rejected` with a PR (`sigma/targets.py:457`).
* A PR call that fails leaves an approved rule without PR for good: the "PR
  retry path" of `queue/manager.py:578` does not exist.
* An artifact worker that outlives the reaper turns `failed` into `generated`
  and leaves the reaper's error text: `row.error = None` equals what it loaded
  and is not written (`artifact_generation.py:322`).
* validate, approve and reject of an artifact that overlap overwrite each
  other, as in the review queue.
* If Loop 2 is repeated while a gated Loop 3 executes, its outcome is recorded
  on the new plan and may count as a divergence there.

* A redelivery while the task still executes has two executors of one row
  (`orchestrator.py:189` tests the status in another transaction than the one
  that finalizes): the second finds its own row among the active ones and marks
  it `superseded`. With `MaxRedeliver = 1` `ActiveHasOutput` fails. The
  platform review's "the row-status guards make redelivery safe" covers a
  redelivery after the end of the first execution.
* A run in flight takes a closed assessment out of `completed` as well
  (`orchestrator.py:352`), besides the import of `loops_completed`.
* If the Git host opened the PR and its answer was lost, every resubmission is
  refused (`sigma/targets.py:453`): the rule is on the host and never recorded
  as submitted.
* Two passes can insert the same generated text (no unique constraint on
  `content_hash`), after which `scalar_one_or_none` raises in later passes
  (`rules/generator.py:1167`). A pass commits its rules in the middle of the
  orchestrator's run; if the run fails afterwards they stay, and the earlier
  ones are not superseded.
* The recording of an artifact's failure reads and writes in two statements
  (`artifact_generation.py:393`), and so does the reaper; each tests again
  before it writes.
* CoverageDispatchHook queues the coverage refresh before the transaction that
  writes the rules commits (`post_loop.py:224`).

Live feed and coverage:

* Approval queues the enrichment before its commit and bypasses the daily
  budget; a message that arrives early is dropped, and the drain finds the CVE
  later if the budget allows.
* A crash after the commit of `enriching` leaves the CVE there; the drain looks
  at `pending` only, also for manual CVEs (`cves.py:540`) and for webhooks
  (`webhooks.py:164`).
* "Never drop" (`tasks/ingest.py:43`) ends with `max_retries=3`.
* A raced insert rolls back the whole staging batch (`ingest/service.py:460`).
* The generator supersedes no chain: a second one for a CVE is refused by
  `uq_attack_chains_active_per_cve` and the CVE stays `synthesizing`, where
  `synthesize.py` promises `failed`.
* Two mappers lose each other's rules in one row (`coverage/mapper.py:867`);
  rules that are drafts or rejected count as covering; a rule that is similar
  and also tagged covers nothing while verification is off (`mapper.py:656`),
  although the design says "Coverage is decided by embedding similarity".
* A refresh of a Sigma source overwrites the text of a generated rule and keeps
  its status; its embedding messages precede the commit.

Platform:

* *AttackChains*: the hook catches a synthesis error after the previous chain
  was superseded in the same session, so the CVE is left without an active one.
* *Prompts*: the cache of another process is stale until it restarts, and in the
  process that commits a reload that was under way fills the cache with the rows
  from before; `prompts/store.py:22` says "for at most one request".
* *LlmCalls*: all kinds of error share one attempt counter, so fewer retries
  happen than `litellm_provider.py:14` lists; the record is written inside the
  caller's timeout, so slow storage discards an answer that was paid for.
* *Events*: the pump keeps one session; after a database error it drops every
  typed event.
* *Embedding*: the paste cap is checked before the insert, so two requests
  exceed it; a message lost after the commit leaves `pending`, a failed text is
  not tried again; deleting a source leaves its points; documents below the
  minimum, and documents that object storage did not return
  (`embedder.py:295`), are marked with nothing stored and not tried again.
* *Connectors*: two operators who overlap leave table and process different;
  enabling at run time does not initialise.
* *Disclosure*: the release task clears by the ids it selected, so an embargo
  declared anew in between is cut short; a declared RED row lets grantees in
  while embargoed, and maintainers see every event; ingesting again may shorten
  an embargo.
* *Commons*: a bootstrap that fails on one source rolls back the others
  although its docstring says it never raises; a partial scan records the
  release, so that the missing chains are never fetched.
* *Contributions*: the request may die after the PR and before the mark, and the
  next one opens a second PR; a file that exists is put without its sha and
  refused, so a later evaluation of the same rule cannot be contributed.
* *SigmaTargets*: the targets are loaded without an order although comments rely
  on one; the API accepts a second default and refuses to start with it; a
  target deleted during a submission leaves a PR nobody recorded.
* *Profiles*: an edit or deletion of a custom row that the seed promotes
  meanwhile hits the built-in row.

## 6. Not modelled, and what is left

Not modelled: the text of prompts, rendering and model answers beyond their
outcome; the ranking and filtering of what is only shown (aggregates, metrics,
benchmark reports, matrix filters, import previews); the access predicate of
assessments, login and user administration; the rule validator (a function of
the text, on top of pySigma); parsing and hardening of URLs, YAML and
signatures; vector search; audit and logging; plugin discovery; configuration;
frontend, migrations and deployment. Each is either without state that two
operations share, or I/O.

Beyond the tools: liveness proofs stay with TLC.

Theorems worth adding: what of `StateMatchesOutputs` survives when loops
overlap, what redelivery leaves of `ActiveHasOutput`,
and an abstract specification of the review queue that `RuleReview` implements.
