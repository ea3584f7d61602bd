------------------------------ MODULE LiveFeed ------------------------------
(***************************************************************************)
(* The live-feed pipeline: how a CVE enters the instance (webhook, polling,*)
(* historical import, manual entry) and is carried by Celery tasks through *)
(* pending, enriching, synthesizing, mapping, generating to complete.      *)
(*                                                                         *)
(* The stages are coupled only by cves.processing_status: a task loads the *)
(* row, tests the status, works for minutes, and writes the next status    *)
(* over whatever is there by then (the session's identity map returns the  *)
(* row it loaded, expire_on_commit=False).  Messages are sent best-effort. *)
(***************************************************************************)
EXTENDS Naturals, FiniteSets

CONSTANTS
    Cves,         \* CVE ids
    Streamed,     \* the CVEs the source connectors announce and stream
    Catalog,      \* the records an import job's basic filters let through
    Kev,          \* CVEs of the CISA KEV catalogue
    Workers,      \* Celery worker processes
    AutoKev,      \* settings.AUTO_PROCESS_KEV
    LiveLimit,    \* settings.MAX_LIVE_CVE_PER_HOUR
    DailyLimit,   \* settings.MAX_HISTORICAL_CVE_PER_DAY
    BatchLimit,   \* the rows one tick of the drain takes of each mode (50)
    MaxRetries,   \* max_retries of the ingest task
    MaxOps,       \* bound: webhooks, polls and operator requests
    MaxFaults     \* bound: lost sends, worker crashes, unexpected exceptions

ASSUME FeedAssumption ==
    /\ Streamed \subseteq Cves /\ Catalog \subseteq Cves
    /\ Kev \subseteq Cves
    /\ AutoKev \in BOOLEAN
    /\ {LiveLimit, DailyLimit, BatchLimit, MaxRetries, MaxOps, MaxFaults} \subseteq Nat

VARIABLES
    cves,      \* table cves: [status, mode, job, approved] per id
    chains,    \* attack_chains: CVEs that have a chain, superseded or not
    active,    \* CVEs one of whose chains is not superseded
    mapped,    \* CVEs whose chain's coverage was mapped
    ruled,     \* CVEs whose chain's rules were generated
    recent,    \* live CVEs created within the last hour
    today,     \* CVEs approved within the last 24 hours
    tasks,     \* Celery messages that wait; equal waiting messages are one
    wk,        \* what each worker is in the middle of
    approving, \* staged CVEs of an approval request that has not committed
    import,    \* the import job's staging pass
    forced,    \* history: CVEs an operator re-queued by hand
    ops, faults

vars == <<cves, chains, active, mapped, ruled, recent, today, tasks, wk, approving,
          import, forced, ops, faults>>

(***************************************************************************)
(* Rows, messages and processes.                                           *)
(***************************************************************************)
PROCESSING_STAGES ==
    {"pending", "enriching", "synthesizing", "mapping", "generating",
     "complete", "staged", "skipped", "failed"}

Absent == "absent"
Modes == {"live", "historical", "manual"}
Row == [status : PROCESSING_STAGES \cup {Absent}, mode : Modes,
        job : BOOLEAN, approved : BOOLEAN]
NoRow == [status |-> Absent, mode |-> "live", job |-> FALSE,
          approved |-> FALSE]

Exists(c) == cves[c].status # Absent

\* n: the retries of an ingest message.
TaskNames == {"ingest", "enrich", "synth", "map", "rules"}
Message == [task : TaskNames, cve : Cves, n : 0..MaxRetries]
Msg(t, c) == [task |-> t, cve |-> c, n |-> 0]

WorkPcs == {"ingest", "ingest_send", "enrich_mark", "enrich_run", "enrich_send",
            "synth_run", "synth_send", "synth_mark", "map_run", "map_mark",
            "map_send", "rules_run", "rules_write", "rules_mark"}
Idle == [pc |-> "idle"]
Busy(p, m, s) == [pc |-> p, msg |-> m, seen |-> s]
NextPc(w, p) == wk' = [wk EXCEPT ![w].pc = p]
Done(w) == wk' = [wk EXCEPT ![w] = Idle]
At(w, p) == wk[w].pc = p
CveOf(w) == wk[w].msg.cve

\* celery_app.send_task inside try/except: a broker error is only logged.
Dispatch(M) ==
    \/ tasks' = tasks \cup M /\ faults' = faults
    \/ faults < MaxFaults /\ tasks' = tasks /\ faults' = faults + 1

set_processing_stage(c, s) == cves' = [cves EXCEPT ![c].status = s]
set_processing_failed(c) == set_processing_stage(c, "failed")

Tables == <<chains, active, mapped, ruled>>
Windows == <<recent, today>>
Requests == <<approving, import, forced, ops>>

(***************************************************************************)
(* Ingestion.                                                              *)
(***************************************************************************)
\* What upsert_cve_from_record makes of a row: a new one gets the desired
\* status, an existing one is only taken out of 'failed'.
Upserted(r, mode, desired, job) ==
    CASE r.status = Absent ->
           [status |-> desired, mode |-> mode, job |-> job, approved |-> FALSE]
      [] r.status = "failed" -> [r EXCEPT !.status = desired]
      [] OTHER -> r

\* POST /webhooks/connector/{name}: queue one ingest task per id.
Webhook(c) ==
    /\ ops < MaxOps /\ ops' = ops + 1
    /\ Dispatch({Msg("ingest", c)})
    /\ UNCHANGED <<cves, Tables, Windows, wk, approving, import, forced>>

LiveAllowed == Cardinality(recent) < LiveLimit

\* self.retry, which gives up after MaxRetries.
Retry(m) == IF m.task = "ingest" /\ m.n < MaxRetries
            THEN {[m EXCEPT !.n = @ + 1]} ELSE {}

\* ingest_cve: over the rate limit the task retries itself.
IngestLimited(w, m) ==
    /\ At(w, "idle") /\ m \in tasks /\ m.task = "ingest"
    /\ ~LiveAllowed
    /\ tasks' = (tasks \ {m}) \cup Retry(m)
    /\ UNCHANGED <<cves, Tables, Windows, wk, Requests, faults>>

IngestCheck(w, m) ==
    /\ At(w, "idle") /\ m \in tasks /\ m.task = "ingest"
    /\ LiveAllowed
    /\ tasks' = tasks \ {m}
    /\ wk' = [wk EXCEPT ![w] = Busy("ingest", m, Absent)]
    /\ UNCHANGED <<cves, Tables, Windows, Requests, faults>>

\* ingest_cve_from_source: upsert and commit.  Losing the insert to another
\* ingestion re-reads the row and leaves it alone, as the upsert does.
IngestCommit(w) ==
    /\ At(w, "ingest")
    /\ LET c == CveOf(w) IN
       /\ cves' = [cves EXCEPT ![c] = Upserted(@, "live", "pending", FALSE)]
       /\ recent' = IF Exists(c) THEN recent ELSE recent \cup {c}
    /\ NextPc(w, "ingest_send")
    /\ UNCHANGED <<Tables, today, tasks, Requests, faults>>

\* The connector has no such record, or cannot be asked.
IngestNotFound(w) ==
    /\ At(w, "ingest") /\ Done(w)
    /\ UNCHANGED <<cves, Tables, Windows, tasks, Requests, faults>>

IngestSend(w) ==
    /\ At(w, "ingest_send")
    /\ Dispatch({Msg("enrich", CveOf(w))}) /\ Done(w)
    /\ UNCHANGED <<cves, Tables, Windows, Requests>>

\* poll_connectors: upsert whatever the source connectors stream, no limit.
PollTick(S) ==
    /\ ops < MaxOps /\ ops' = ops + 1
    /\ cves' = [c \in Cves |->
                  IF c \in S THEN Upserted(cves[c], "live", "pending", FALSE)
                  ELSE cves[c]]
    /\ recent' = recent \cup {c \in S : ~Exists(c)}
    /\ UNCHANGED <<Tables, today, tasks, wk, approving, import, forced, faults>>

\* POST /cves/manual: row and documents in one transaction, already
\* 'synthesizing' when it commits.
CreateManual(c) ==
    /\ ops < MaxOps /\ ops' = ops + 1
    /\ ~Exists(c)
    /\ cves' = [cves EXCEPT ![c] = [NoRow EXCEPT !.status = "synthesizing",
                                                 !.mode = "manual"]]
    /\ Dispatch({Msg("synth", c)})
    /\ UNCHANGED <<Tables, Windows, wk, approving, import, forced>>

(***************************************************************************)
(* Historical import.                                                      *)
(***************************************************************************)
NoImport == [pc |-> "none", seen |-> [c \in Catalog |-> Absent], passes |-> {},
             kev |-> {}]

\* POST /imports/start
StartImport ==
    /\ ops < MaxOps /\ ops' = ops + 1
    /\ import.pc = "none"
    /\ \/ import' = [import EXCEPT !.pc = "queued"] /\ faults' = faults
       \/ faults < MaxFaults /\ faults' = faults + 1 /\ import' = import
    /\ UNCHANGED <<cves, Tables, Windows, tasks, wk, approving, forced>>

\* The records the connectors' answers mark as exploited: a connector that is
\* down contributes nothing.
merge_enrichments(P) == SUBSET (Kev \cap P)

\* stage_historical_job loads the rows and asks the connectors; which records
\* pass the novelty filters is their answer.
StageRead(P, K) ==
    /\ import.pc = "queued"
    /\ import' = [pc |-> "staging", passes |-> P, kev |-> K,
                  seen |-> [c \in Catalog |-> cves[c].status]]
    /\ UNCHANGED <<cves, Tables, Windows, tasks, wk, approving, forced, ops,
                   faults>>

StageDecision(c) ==
    CASE c \notin import.passes -> "skipped"
      [] c \in import.passes /\ AutoKev /\ c \in import.kev -> "pending"
      [] OTHER -> "staged"

AutoApproved == {c \in import.passes : AutoKev /\ c \in import.kev}

\* The row a staging pass leaves: a new one belongs to the job, and the status
\* is written unless it equals the one that was loaded.
StagedRow(c) ==
    LET d == StageDecision(c)
        base == IF import.seen[c] = Absent
                THEN [NoRow EXCEPT !.mode = "historical", !.job = TRUE]
                ELSE cves[c]
    IN [base EXCEPT !.status = IF import.seen[c] = d THEN @ ELSE d,
                    !.approved = @ \/ c \in AutoApproved]

Raced == {c \in Catalog : import.seen[c] = Absent /\ Exists(c)}

StageCommit ==
    /\ import.pc = "staging" /\ Raced = {}
    /\ cves' = [c \in Cves |-> IF c \in Catalog THEN StagedRow(c) ELSE cves[c]]
    /\ today' = today \cup AutoApproved
    /\ import' = NoImport
    /\ UNCHANGED <<Tables, recent, tasks, wk, approving, forced, ops, faults>>

\* Another ingestion inserted one of the rows first: the IntegrityError rolls
\* the whole pass back.  If a record follows (its CVE need not be one of Cves),
\* the pass dies on the expired job; if the raced record was the last one, its
\* status alone is overwritten.
StageRaced(c) ==
    /\ import.pc = "staging" /\ c \in Raced
    /\ \/ UNCHANGED <<cves, today>>
       \/ /\ cves' = [cves EXCEPT ![c].status = StageDecision(c),
                                  ![c].approved = @ \/ c \in AutoApproved]
          /\ today' = today \cup (AutoApproved \cap {c})
    /\ import' = NoImport
    /\ UNCHANGED <<Tables, recent, tasks, wk, approving, forced, ops, faults>>

Approvable == {c \in Cves : cves[c].job /\ cves[c].status = "staged"}

\* approve, approve-kev and approve-all: the enrichment is queued before the
\* transaction that approves commits.
ApproveSend(S) ==
    /\ ops < MaxOps /\ ops' = ops + 1
    /\ approving = {} /\ S # {} /\ S \subseteq Approvable
    /\ approving' = S
    /\ Dispatch({Msg("enrich", c) : c \in S})
    /\ UNCHANGED <<cves, Tables, Windows, wk, import, forced>>

\* mark_approved for every selected row, then commit.
ApproveCommit ==
    /\ approving # {}
    /\ cves' = [c \in Cves |->
                  IF c \in approving
                  THEN [cves[c] EXCEPT !.status = "pending", !.approved = TRUE]
                  ELSE cves[c]]
    /\ today' = today \cup approving
    /\ approving' = {}
    /\ UNCHANGED <<Tables, recent, tasks, wk, import, forced, ops, faults>>

\* The request dies before its commit.
ApproveAborts ==
    /\ approving # {} /\ faults < MaxFaults
    /\ faults' = faults + 1 /\ approving' = {}
    /\ UNCHANGED <<cves, Tables, Windows, tasks, wk, import, forced, ops>>

\* POST /imports/{id}/skip
SkipCves(S) ==
    /\ ops < MaxOps /\ ops' = ops + 1
    /\ S # {} /\ S \subseteq Approvable
    /\ cves' = [c \in Cves |-> IF c \in S THEN [cves[c] EXCEPT !.status = "skipped"]
                               ELSE cves[c]]
    /\ UNCHANGED <<Tables, Windows, tasks, wk, approving, import, forced, faults>>

\* DELETE /imports/{id}: the rows stay, without their job.
DeleteJob ==
    /\ ops < MaxOps /\ ops' = ops + 1
    /\ \E c \in Cves : cves[c].job
    /\ cves' = [c \in Cves |-> [cves[c] EXCEPT !.job = FALSE]]
    /\ UNCHANGED <<Tables, Windows, tasks, wk, approving, import, forced, faults>>

(***************************************************************************)
(* Operator requests on one CVE, and the periodic drain.                   *)
(***************************************************************************)
\* POST /cves/{id}/reprocess, from any status.
Reprocess(c) ==
    /\ ops < MaxOps /\ ops' = ops + 1 /\ Exists(c)
    /\ set_processing_stage(c, "pending")
    /\ Dispatch({Msg("enrich", c)})
    /\ forced' = forced \cup {c}
    /\ UNCHANGED <<Tables, Windows, wk, approving, import>>

\* POST /cves/{id}/resynthesize, from any status.
Resynthesize(c) ==
    /\ ops < MaxOps /\ ops' = ops + 1 /\ Exists(c)
    /\ set_processing_stage(c, "synthesizing")
    /\ Dispatch({Msg("synth", c)})
    /\ forced' = forced \cup {c}
    /\ UNCHANGED <<Tables, Windows, wk, approving, import>>

\* POST /cves/{id}/regenerate-rules, from any status once there is a chain.
Regenerate(c) ==
    /\ ops < MaxOps /\ ops' = ops + 1 /\ c \in chains
    /\ set_processing_stage(c, "generating")
    /\ Dispatch({Msg("rules", c)})
    /\ forced' = forced \cup {c}
    /\ UNCHANGED <<Tables, Windows, wk, approving, import>>

\* POST /matrix/{technique}/generate-rule, for the chains C with the technique.
GenerateForTechnique(C) ==
    /\ ops < MaxOps /\ ops' = ops + 1 /\ C # {} /\ C \subseteq chains
    /\ Dispatch({Msg("rules", c) : c \in C})
    /\ UNCHANGED <<cves, Tables, Windows, wk, approving, import, forced>>

\* POST /coverage/recompute maps one chain within the request, or queues the
\* mapping of every chain.
RecomputeChain(c) ==
    /\ ops < MaxOps /\ ops' = ops + 1 /\ c \in chains
    /\ mapped' = mapped \cup {c}
    /\ UNCHANGED <<cves, chains, active, ruled, Windows, tasks, wk, approving,
                   import, forced, faults>>

RecomputeAll ==
    /\ ops < MaxOps /\ ops' = ops + 1 /\ chains # {}
    /\ Dispatch({Msg("map", c) : c \in chains})
    /\ UNCHANGED <<cves, Tables, Windows, wk, approving, import, forced>>

\* An assessment's Loop 2 supersedes the active chain and leaves one of its own,
\* unless that is refused: the superseded chain goes with the failed run's
\* commit. Its Loop 3 queues the mapping of the chain. Neither looks at the
\* status of the CVE.
AssessmentChain(c) ==
    /\ ops < MaxOps /\ ops' = ops + 1 /\ Exists(c)
    /\ \/ chains' = chains \cup {c} /\ active' = active \cup {c}
       \/ chains' = chains /\ active' = active \ {c}
    /\ UNCHANGED <<cves, mapped, ruled, Windows, tasks, wk, approving, import,
                   forced, faults>>

CoverageDispatch(c) ==
    /\ ops < MaxOps /\ ops' = ops + 1 /\ c \in chains
    /\ Dispatch({Msg("map", c)})
    /\ UNCHANGED <<cves, Tables, Windows, wk, approving, import, forced>>

Pending(mode) == {c \in Cves : cves[c].status = "pending" /\ cves[c].mode = mode}
UsedToday == Cardinality({c \in today : cves[c].mode = "historical"})
Remaining == IF UsedToday < DailyLimit THEN DailyLimit - UsedToday ELSE 0

\* Mutant: the drain forgets the live CVEs.
EnforceBudgetHistorical(S) ==
    /\ S \subseteq Pending("historical") /\ S # {}
    /\ Dispatch({Msg("enrich", c) : c \in S})
    /\ UNCHANGED <<cves, Tables, Windows, wk, Requests>>

\* n of the pending CVEs, or all of them if there are fewer.
Batch(mode, n) ==
    {S \in SUBSET Pending(mode) :
       Cardinality(S) = IF Cardinality(Pending(mode)) < n
                        THEN Cardinality(Pending(mode)) ELSE n}

\* enforce_budget_tick: as many pending live CVEs as the batch takes, and as many
\* historical ones as the daily budget leaves of it. (The query takes the oldest
\* first; which ones those are is left open.)
EnforceBudget(S) ==
    /\ \E L \in Batch("live", BatchLimit),
          H \in Batch("historical", IF Remaining < BatchLimit THEN Remaining
                                    ELSE BatchLimit) : S = L \cup H
    /\ S # {}
    /\ Dispatch({Msg("enrich", c) : c \in S})
    /\ UNCHANGED <<cves, Tables, Windows, wk, Requests>>

\* Rate and budget are counted over a sliding window.
HourPasses(c) ==
    /\ c \in recent /\ recent' = recent \ {c}
    /\ UNCHANGED <<cves, Tables, today, tasks, wk, Requests, faults>>

DayPasses(c) ==
    /\ c \in today /\ today' = today \ {c}
    /\ UNCHANGED <<cves, Tables, recent, tasks, wk, Requests, faults>>

(***************************************************************************)
(* The stage tasks.                                                        *)
(***************************************************************************)
\* A task loads the row and goes on only from the statuses it accepts.
Load(w, m, accepted, pc) ==
    /\ At(w, "idle") /\ m \in tasks
    /\ tasks' = tasks \ {m}
    /\ wk' = IF cves[m.cve].status \in accepted
             THEN [wk EXCEPT ![w] = Busy(pc, m, cves[m.cve].status)]
             ELSE wk
    /\ UNCHANGED <<cves, Tables, Windows, Requests, faults>>

\* A step that only writes the status of the CVE at hand.
Mark(w, s, pc) ==
    /\ set_processing_stage(CveOf(w), s)
    /\ IF pc = "idle" THEN Done(w) ELSE NextPc(w, pc)
    /\ UNCHANGED <<Tables, Windows, tasks, Requests, faults>>

MarkFailed(w) ==
    /\ set_processing_failed(CveOf(w)) /\ Done(w)
    /\ UNCHANGED <<Tables, Windows, tasks, Requests, faults>>

Send(w, t, pc) ==
    /\ Dispatch({Msg(t, CveOf(w))})
    /\ IF pc = "idle" THEN Done(w) ELSE NextPc(w, pc)
    /\ UNCHANGED <<cves, Tables, Windows, Requests>>

\* Mutant: an enrichment message is trusted.
EnrichLoadUnguarded(w, m) ==
    m.task = "enrich" /\ Load(w, m, {"pending", "staged"}, "enrich_mark")

\* enrich_cve_pending
EnrichLoad(w, m) == m.task = "enrich" /\ Load(w, m, {"pending"}, "enrich_mark")
EnrichMark(w) == At(w, "enrich_mark") /\ Mark(w, "enriching", "enrich_run")
EnrichDone(w) == At(w, "enrich_run") /\ Mark(w, "synthesizing", "enrich_send")
EnrichFail(w) == At(w, "enrich_run") /\ MarkFailed(w)
EnrichSend(w) == At(w, "enrich_send") /\ Send(w, "synth", "idle")

\* synthesize_chain: a commons hit or an LLM chain is inserted under the next
\* version.  The generator supersedes nothing, so uq_attack_chains_active_per_cve
\* refuses a second chain; the task then ends without touching the CVE (its
\* session is unusable after the failed flush, also for the failure handler).
SynthLoad(w, m) ==
    m.task = "synth" /\ Load(w, m, {"synthesizing"}, "synth_run")
SynthFail(w) == At(w, "synth_run") /\ MarkFailed(w)

InsertChain(w) ==
    /\ At(w, "synth_run")
    /\ chains' = chains \cup {CveOf(w)} /\ active' = active \cup {CveOf(w)}
    /\ IF CveOf(w) \in active THEN Done(w) ELSE NextPc(w, "synth_send")
    /\ UNCHANGED <<cves, mapped, ruled, Windows, tasks, Requests, faults>>

\* The mapping task is queued before the CVE is 'mapping'.
SynthSend(w) == At(w, "synth_send") /\ Send(w, "map", "synth_mark")
SynthMark(w) == At(w, "synth_mark") /\ Mark(w, "mapping", "idle")

\* map_coverage
MapLoad(w, m) ==
    m.task = "map" /\ Load(w, m, {"mapping", "generating", "complete"}, "map_run")
MapFail(w) == At(w, "map_run") /\ MarkFailed(w)

\* Mutant: the stage moves on before the coverage is written.
MapCommitLate(w) ==
    At(w, "map_run") /\ Mark(w, "generating", "map_send")

MapCommit(w) ==
    /\ At(w, "map_run")
    /\ mapped' = mapped \cup {CveOf(w)}
    /\ NextPc(w, "map_mark")
    /\ UNCHANGED <<cves, chains, active, ruled, Windows, tasks, Requests, faults>>

\* The status tested is the one that was loaded.
MapMark(w) ==
    /\ At(w, "map_mark")
    /\ IF wk[w].seen = "mapping"
       THEN Mark(w, "generating", "map_send")
       ELSE /\ NextPc(w, "map_send")
            /\ UNCHANGED <<cves, Tables, Windows, tasks, Requests, faults>>

MapSend(w) == At(w, "map_send") /\ Send(w, "rules", "idle")

\* generate_rules
RulesLoad(w, m) ==
    m.task = "rules" /\ Load(w, m, {"generating", "complete"}, "rules_run")
RulesFail(w) ==
    (At(w, "rules_run") \/ At(w, "rules_write")) /\ MarkFailed(w)

\* generate_all_gaps maps the coverage once more, and commits it.
RulesMap(w) ==
    /\ At(w, "rules_run")
    /\ mapped' = mapped \cup {CveOf(w)}
    /\ NextPc(w, "rules_write")
    /\ UNCHANGED <<cves, chains, active, ruled, Windows, tasks, Requests, faults>>

RulesCommit(w) ==
    /\ At(w, "rules_write")
    /\ ruled' = ruled \cup {CveOf(w)}
    /\ NextPc(w, "rules_mark")
    /\ UNCHANGED <<cves, chains, active, mapped, Windows, tasks, Requests, faults>>

RulesMark(w) ==
    /\ At(w, "rules_mark")
    /\ IF wk[w].seen = "generating"
       THEN Mark(w, "complete", "idle")
       ELSE /\ Done(w)
            /\ UNCHANGED <<cves, Tables, Windows, tasks, Requests, faults>>

\* An exception outside the handlers: only the ingest task retries, the others
\* are acknowledged and leave the CVE where it was.
TaskErrors(w) ==
    /\ ~At(w, "idle") /\ faults < MaxFaults
    /\ faults' = faults + 1 /\ Done(w)
    /\ tasks' = tasks \cup Retry(wk[w].msg)
    /\ UNCHANGED <<cves, Tables, Windows, Requests>>

\* The worker process dies: acks_late and reject_on_worker_lost return the
\* message to the queue.
WorkerLost(w) ==
    /\ ~At(w, "idle") /\ faults < MaxFaults
    /\ faults' = faults + 1 /\ Done(w)
    /\ tasks' = tasks \cup {wk[w].msg}
    /\ UNCHANGED <<cves, Tables, Windows, Requests>>

(***************************************************************************)
(* Specification.                                                          *)
(***************************************************************************)
Init ==
    /\ cves = [c \in Cves |-> NoRow]
    /\ chains = {} /\ active = {} /\ mapped = {} /\ ruled = {}
    /\ recent = {} /\ today = {} /\ tasks = {}
    /\ wk = [w \in Workers |-> Idle]
    /\ approving = {} /\ import = NoImport /\ forced = {}
    /\ ops = 0 /\ faults = 0

Entry ==
    \/ \E c \in Streamed : Webhook(c)
    \/ \E c \in Cves : CreateManual(c)
    \/ \E S \in (SUBSET Streamed) \ {{}} : PollTick(S)
    \/ StartImport
    \/ \E P \in SUBSET Catalog, K \in SUBSET Kev :
         K \in merge_enrichments(P) /\ StageRead(P, K)
    \/ StageCommit
    \/ \E c \in Catalog : StageRaced(c)

Operator ==
    \/ \E S \in SUBSET Cves : ApproveSend(S) \/ SkipCves(S)
    \/ ApproveCommit \/ ApproveAborts \/ DeleteJob
    \/ \E c \in Cves : \/ Reprocess(c) \/ Resynthesize(c) \/ Regenerate(c)
                       \/ RecomputeChain(c)
                       \/ AssessmentChain(c) \/ CoverageDispatch(c)
    \/ RecomputeAll
    \/ \E C \in SUBSET Cves : GenerateForTechnique(C)

Tick ==
    \/ \E S \in SUBSET Cves : EnforceBudget(S)
    \/ \E c \in Cves : HourPasses(c) \/ DayPasses(c)

Take(w, m) ==
    \/ IngestLimited(w, m) \/ IngestCheck(w, m) \/ EnrichLoad(w, m)
    \/ SynthLoad(w, m) \/ MapLoad(w, m) \/ RulesLoad(w, m)

Step(w) ==
    \/ IngestCommit(w) \/ IngestNotFound(w) \/ IngestSend(w)
    \/ EnrichMark(w) \/ EnrichDone(w) \/ EnrichFail(w) \/ EnrichSend(w)
    \/ SynthFail(w) \/ InsertChain(w) \/ SynthSend(w)
    \/ SynthMark(w)
    \/ MapFail(w) \/ MapCommit(w) \/ MapMark(w) \/ MapSend(w)
    \/ RulesFail(w) \/ RulesMap(w) \/ RulesCommit(w) \/ RulesMark(w)

Delivered(c) == \E w \in Workers, m \in tasks : m.cve = c /\ Take(w, m)

Next ==
    \/ Entry \/ Operator \/ Tick
    \/ \E w \in Workers : \/ \E m \in tasks : Take(w, m)
                          \/ Step(w) \/ TaskErrors(w) \/ WorkerLost(w)

\* Beat runs the drain, a worker finishes what it took, and the broker keeps
\* delivering the messages of a CVE while workers keep becoming free.
Fairness ==
    /\ WF_vars(\E S \in SUBSET Cves : EnforceBudget(S))
    /\ \A w \in Workers : WF_vars(Step(w))
    /\ \A c \in Cves : SF_vars(Delivered(c))

Spec == Init /\ [][Next]_vars /\ Fairness

(***************************************************************************)
(* Properties.                                                             *)
(***************************************************************************)
Status == PROCESSING_STAGES \cup {Absent}
ImportPass == [pc : {"none", "queued", "staging"}, seen : [Catalog -> Status],
               passes : SUBSET Catalog, kev : SUBSET Kev]
Work == [pc : WorkPcs, msg : Message, seen : Status]

TypeOK ==
    /\ cves \in [Cves -> Row]
    /\ chains \subseteq Cves /\ active \subseteq chains
    /\ mapped \subseteq Cves /\ ruled \subseteq Cves
    /\ recent \subseteq Cves /\ today \subseteq Cves /\ forced \subseteq Cves
    /\ tasks \subseteq Message
    /\ wk \in [Workers -> {Idle} \cup Work]
    /\ approving \subseteq Cves
    /\ import \in ImportPass

\* A stage is reached only on the strength of the work before it, whatever
\* tasks overlap: a CVE being mapped has a chain, one whose rules are being
\* generated has a chain with its coverage mapped (unless an operator asked for
\* the rules), a complete one has rules for a mapped chain.
StagesBacked ==
    \A c \in Cves :
      /\ cves[c].status \in {"mapping", "generating", "complete"} => c \in chains
      /\ cves[c].status = "generating" => (c \in mapped \/ c \in forced)
      /\ cves[c].status = "complete" => (c \in mapped /\ c \in ruled)

InPipeline ==
    {"pending", "enriching", "synthesizing", "mapping", "generating", "complete"}

\* Nobody spends on a historical CVE that was not approved (by an analyst or
\* by the KEV setting) unless an operator re-queued it: not even the message
\* that approve sends ahead of its commit starts the pipeline.
HistoricalIsApproved ==
    \A c \in Cves :
      (cves[c].mode = "historical" /\ cves[c].status \in InPipeline)
        => (cves[c].approved \/ c \in forced)

\* "The budget task NEVER drops a CVE": a live CVE does not stay pending.
LivePendingLeaves ==
    \A c \in Cves : (cves[c].status = "pending" /\ cves[c].mode = "live")
                      ~> (cves[c].status # "pending")

\* What "the budget tick is the safety net" says of a chain that waits for its
\* coverage: the CVE does not stay in mapping.
MappingLeaves ==
    \A c \in Cves : (cves[c].status = "mapping") ~> (cves[c].status # "mapping")
=============================================================================
