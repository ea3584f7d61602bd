--------------------------- MODULE AssessmentLoops ---------------------------
(***************************************************************************)
(* The life of one coverage assessment: its state, its versioned loop runs *)
(* and the processes that change them.                                     *)
(*                                                                         *)
(*  - API requests dispatch a loop (begin_run, commit, .delay), close the  *)
(*    assessment, reuse an existing chain or switch auto-advance;          *)
(*  - Celery workers execute a run (execute_run), finalize it in one       *)
(*    transaction and advance the chain of loops;                          *)
(*  - the beat reaper fails rows that stayed 'running' too long.           *)
(*                                                                         *)
(* PostgreSQL runs at READ COMMITTED and sessions are opened with          *)
(* expire_on_commit=False: what a transaction has read is not read again,  *)
(* a commit makes all its writes visible at once, an UPDATE waits for the  *)
(* transaction that holds the row, and the ORM writes an attribute only    *)
(* if it differs from the value that was loaded.                           *)
(***************************************************************************)
EXTENDS Naturals

CONSTANTS
    Clients,        \* concurrent API requests
    Workers,        \* Celery worker processes (docker-compose: concurrency 2)
    MaxRuns,        \* bound: rows of assessment_loop_run
    MaxCrash,       \* bound: worker processes lost
    MaxRedeliver,   \* bound: redeliveries of a task still executing
    AutoValues,     \* values auto_advance may take
    SlowRuns,       \* may a run outlive STALE_INFLIGHT_MAX_SECONDS?
    OneAtATime,     \* does the analyst wait for the assessment to be quiet?
    Reuse           \* is POST /use-existing-chain called?

ASSUME ConstantsAssumption ==
    /\ MaxRuns \in Nat \ {0}
    /\ MaxCrash \in Nat
    /\ MaxRedeliver \in Nat
    /\ AutoValues \in (SUBSET BOOLEAN) \ {{}}
    /\ SlowRuns \in BOOLEAN
    /\ OneAtATime \in BOOLEAN
    /\ Reuse \in BOOLEAN
    /\ Clients \cap Workers = {}

VARIABLES
    state,      \* coverage_assessment.state
    auto,       \* coverage_assessment.auto_advance
    runs,       \* table assessment_loop_run, by row id
    proc,       \* what each request and each worker is in the middle of
    queue,      \* deliveries of assessment.run_loop(run_id) in the broker
    cand,       \* the row the reaper has selected and not yet flipped
    crashes, redeliveries,
    dropped     \* history: runs after which a swallowed error ended the chain

vars == <<state, auto, runs, proc, queue, cand, crashes, redeliveries, dropped>>

-----------------------------------------------------------------------------
(* The assessment's state machine.                                         *)

Loops == {1, 2, 3}

AssessmentState ==
    {"created", "loop1_done", "loop2_done", "loop3_done", "completed"}

RUNNABLE == [s \in AssessmentState |->
    CASE s = "created"    -> {1}
      [] s = "loop1_done" -> {1, 2}
      [] s = "loop2_done" -> Loops
      [] s = "loop3_done" -> Loops
      [] s = "completed"  -> {}]

\* Fault: a completed assessment runs loops like one that is loop3_done.
RunsWhenCompleted(current, n) == n \in RUNNABLE[current] \/ current = "completed"

can_run_loop(current, n) == n \in RUNNABLE[current]

next_state_after_loop(n) ==
    CASE n = 1 -> "loop1_done" [] n = 2 -> "loop2_done" [] OTHER -> "loop3_done"

\* Fault: a re-run leaves the loops after it alone.
NothingInvalidated(n) == {}

states_invalidated_by_rerun(n) == {m \in Loops : m > n}

can_close(current) == current \in {"loop2_done", "loop3_done"}

-----------------------------------------------------------------------------
(* Rows of assessment_loop_run.                                            *)

RunIds == 1..MaxRuns
NoRun == 0

RunStatus == {"absent", "running", "succeeded", "gate_failed", "failed", "superseded"}
OutputStatus == {"succeeded", "gate_failed"}

Row == [loop : {0} \cup Loops, ver : 0..MaxRuns, status : RunStatus,
        active : BOOLEAN, over : BOOLEAN, imported : BOOLEAN]

NoRow == [loop |-> 0, ver |-> 0, status |-> "absent",
          active |-> FALSE, over |-> FALSE, imported |-> FALSE]

NewRun(n, v, ov) == [NoRow EXCEPT !.loop = n, !.ver = v, !.status = "running",
                                  !.over = ov]

ImportedRun(v) == [NoRow EXCEPT !.loop = 1, !.ver = v, !.status = "succeeded",
                                !.active = TRUE, !.imported = TRUE]

ActiveRuns(n) == {r \in RunIds : runs[r].loop = n /\ runs[r].active}
RunningRuns(n) == {r \in RunIds : runs[r].loop = n /\ runs[r].status = "running"}

\* Rows are numbered in the order they are inserted.
IsFresh(r) == /\ runs[r].status = "absent"
              /\ \A s \in RunIds : s < r => runs[s].status # "absent"
RowsLeft == \E r \in RunIds : IsFresh(r)

IsNextVersion(n, v) ==
    /\ \A r \in RunIds : runs[r].loop = n => runs[r].ver < v
    /\ v = 1 \/ \E r \in RunIds : runs[r].loop = n /\ runs[r].ver = v - 1

VersionTaken(n, v) == \E r \in RunIds : runs[r].loop = n /\ runs[r].ver = v

-----------------------------------------------------------------------------
(* Requests and workers.                                                   *)

Procs == Clients \cup Workers

Pcs == {"idle",
        "checked", "versioned", "inserted",     \* begin_run, its commit
        "closing", "reusing",                   \* close, use_as_start
        "loop", "flushed",                      \* execute_run
        "raised", "failing",                    \* _finalize_failed
        "chain"}                                \* advance_after_run

Task == [pc : Pcs, run : RunIds \cup {NoRun}, new : RunIds \cup {NoRun},
         loop : {0} \cup Loops, over : BOOLEAN, ver : 0..MaxRuns,
         cur : AssessmentState, ready : BOOLEAN, result : RunStatus,
         demote : SUBSET RunIds]

Idle == [pc |-> "idle", run |-> NoRun, new |-> NoRun, loop |-> 0, over |-> FALSE,
         ver |-> 0, cur |-> "created", ready |-> FALSE, result |-> "absent",
         demote |-> {}]

\* A transaction that has flushed its writes holds the rows it will commit.
Holds(p, r) == \/ proc[p].pc = "flushed" /\ (r = proc[p].run \/ r \in proc[p].demote)
               \/ proc[p].pc = "reusing" /\ r \in proc[p].demote
HeldByOther(p, r) == \E q \in Procs \ {p} : Holds(q, r)
Held(r) == \E q \in Procs : Holds(q, r)

InTask(w, r) == proc[w].pc # "idle" /\ proc[w].run = r

Inserted(p, r) == proc[p].pc = "inserted" /\ proc[p].new = r

\* Nobody will ever execute r: its message is neither queued, nor with a
\* worker, nor about to be sent.
Orphaned(r) == /\ queue[r] = 0
               /\ \A w \in Workers : ~InTask(w, r)
               /\ \A p \in Procs : ~Inserted(p, r)

Quiet == /\ \A p \in Procs : proc[p].pc = "idle"
         /\ \A r \in RunIds : queue[r] = 0 /\ runs[r].status # "running"

\* When an API request may start.
MayAct(c) == proc[c].pc = "idle" /\ (OneAtATime => Quiet)

Init ==
    /\ state = "created"
    /\ auto \in AutoValues
    /\ runs = [r \in RunIds |-> NoRow]
    /\ proc = [p \in Procs |-> Idle]
    /\ queue = [r \in RunIds |-> 0]
    /\ cand = NoRun
    /\ crashes = 0
    /\ redeliveries = 0
    /\ dropped = {}

Goto(p, t) == proc' = [proc EXCEPT ![p] = t]

-----------------------------------------------------------------------------
(* begin_run: prechecks, version, row, commit, dispatch.                   *)

NotAlreadyRunning(n) == RunningRuns(n) = {}

GateAllows(n, ov) ==
    n = 3 => \A r \in ActiveRuns(2) : runs[r].status = "gate_failed" => ov

BeginGuard(n, ov) == can_run_loop(state, n) /\ NotAlreadyRunning(n) /\ GateAllows(n, ov)

\* POST /assessments/{id}/loops/{n}/run passes begin_run's prechecks.
\* override_rationale matters to Loop 3 only.
BeginCheck(c, n, ov) ==
    /\ MayAct(c)
    /\ RowsLeft
    /\ ov => n = 3
    /\ BeginGuard(n, ov)
    /\ Goto(c, [Idle EXCEPT !.pc = "checked", !.loop = n, !.over = ov])
    /\ UNCHANGED <<state, auto, runs, queue, cand, crashes, redeliveries, dropped>>

ReadVersion(p) ==
    /\ proc[p].pc = "checked"
    /\ \E v \in 1..MaxRuns :
          /\ IsNextVersion(proc[p].loop, v)
          /\ Goto(p, [proc[p] EXCEPT !.pc = "versioned", !.ver = v])
    /\ UNCHANGED <<state, auto, runs, queue, cand, crashes, redeliveries, dropped>>

InsertRun(p) ==
    LET t == proc[p] IN
    /\ t.pc = "versioned"
    /\ ~VersionTaken(t.loop, t.ver)
    /\ \E r \in RunIds :
          /\ IsFresh(r)
          /\ runs' = [runs EXCEPT ![r] = NewRun(t.loop, t.ver, t.over)]
          /\ Goto(p, [t EXCEPT !.pc = "inserted", !.new = r])
    /\ UNCHANGED <<state, auto, queue, cand, crashes, redeliveries, dropped>>

\* begin_run or its commit raises: the unique index
\* uq_assessment_loop_run_version or any other error of the database. The
\* request fails; a worker logs assessment.chain.advance_failed and its task
\* is acknowledged.
BeginFails(p) ==
    /\ proc[p].pc \in {"checked", "versioned"}
    /\ dropped' = dropped \cup ({proc[p].run} \ {NoRun})
    /\ Goto(p, Idle)
    /\ UNCHANGED <<state, auto, runs, queue, cand, crashes, redeliveries>>

\* run_assessment_loop.delay(run.id)
Enqueue(p) ==
    /\ proc[p].pc = "inserted"
    /\ queue' = [queue EXCEPT ![proc[p].new] = @ + 1]
    /\ Goto(p, Idle)
    /\ UNCHANGED <<state, auto, runs, cand, crashes, redeliveries, dropped>>

\* .delay() raises after the commit, or the broker loses the message.
LoseDispatch(p) ==
    /\ proc[p].pc = "inserted"
    /\ Goto(p, Idle)
    /\ UNCHANGED <<state, auto, runs, queue, cand, crashes, redeliveries, dropped>>

-----------------------------------------------------------------------------
(* AssessmentService.close, set_auto_advance; ChainReuseService.           *)

CloseRead(c) ==
    /\ MayAct(c)
    /\ can_close(state)
    /\ Goto(c, [Idle EXCEPT !.pc = "closing"])
    /\ UNCHANGED <<state, auto, runs, queue, cand, crashes, redeliveries, dropped>>

CloseWrite(c) ==
    /\ proc[c].pc = "closing"
    /\ state' = "completed"
    /\ Goto(c, Idle)
    /\ UNCHANGED <<auto, runs, queue, cand, crashes, redeliveries, dropped>>

set_auto_advance(c) ==
    /\ MayAct(c)
    /\ auto' \in AutoValues \ {auto}
    /\ UNCHANGED <<state, runs, proc, queue, cand, crashes, redeliveries, dropped>>

\* use_as_start up to its flush: the active Loop 1 rows are demoted, the
\* next version is read.
ReuseFlush(c) ==
    /\ Reuse
    /\ MayAct(c)
    /\ RowsLeft
    /\ \E v \in 1..MaxRuns :
          /\ IsNextVersion(1, v)
          /\ Goto(c, [Idle EXCEPT !.pc = "reusing", !.ver = v, !.cur = state,
                                  !.demote = ActiveRuns(1)])
    /\ UNCHANGED <<state, auto, runs, queue, cand, crashes, redeliveries, dropped>>

\* Does a row other than r, active and not demoted, occupy loop n in the
\* partial unique index uq_assessment_loop_run_active?
IndexClash(n, demote, r) == \E s \in ActiveRuns(n) : s \notin demote /\ s # r

Demoted(row) == [row EXCEPT !.active = FALSE, !.status = "superseded"]

ReuseCommit(c) ==
    LET t == proc[c] IN
    /\ t.pc = "reusing"
    /\ \/ /\ ~VersionTaken(1, t.ver) /\ ~IndexClash(1, t.demote, NoRun)
          /\ \E new \in RunIds :
                /\ IsFresh(new)
                /\ runs' = [r \in RunIds |->
                              CASE r = new -> ImportedRun(t.ver)
                                [] r # new /\ r \in t.demote -> Demoted(runs[r])
                                [] OTHER -> runs[r]]
          /\ state' = IF t.cur # "loop1_done" THEN "loop1_done" ELSE state
       \/ /\ VersionTaken(1, t.ver) \/ IndexClash(1, t.demote, NoRun)
          /\ UNCHANGED <<state, runs>>
    /\ Goto(c, Idle)
    /\ UNCHANGED <<auto, queue, cand, crashes, redeliveries, dropped>>

\* The database fails the request before its commit.
RequestFails(c) ==
    /\ proc[c].pc \in {"closing", "reusing"}
    /\ Goto(c, Idle)
    /\ UNCHANGED <<state, auto, runs, queue, cand, crashes, redeliveries, dropped>>

-----------------------------------------------------------------------------
(* The worker task: execute_run.                                           *)

\* Loop 2 raises unless the active Loop 1 output has detection questions,
\* which an imported chain's does not.
HasInput(n) == n = 2 => \E r \in ActiveRuns(1) : ~runs[r].imported

Executable(r) == runs[r].status = "running"

\* A worker takes a delivery. A row that is not 'running' is returned as it
\* is; otherwise the assessment and the prior outputs are read. (An error of
\* these reads ends like ExecuteRaises, or like AdvanceErrors.)
StartRun(w, r) ==
    /\ proc[w].pc = "idle"
    /\ queue[r] > 0
    /\ queue' = [queue EXCEPT ![r] = @ - 1]
    /\ Goto(w, IF Executable(r)
               THEN [Idle EXCEPT !.pc = "loop", !.run = r, !.cur = state,
                                 !.ready = HasInput(runs[r].loop)]
               ELSE [Idle EXCEPT !.pc = "chain", !.run = r, !.result = runs[r].status])
    /\ UNCHANGED <<state, auto, runs, cand, crashes, redeliveries, dropped>>

\* What the loop, the gate hook and the chain-synthesis hook can make of it.
Outcomes(n, ready) ==
    {"failed"} \cup (IF ~ready THEN {} ELSE IF n = 2 THEN OutputStatus ELSE {"succeeded"})

\* The rows _supersede_prior_active_rows and _invalidate_downstream demote.
RowsToDemote(n, out) ==
    IF out \in OutputStatus
    THEN UNION {ActiveRuns(m) : m \in {n} \cup states_invalidated_by_rerun(n)}
    ELSE {}

\* The loop ends, the pre-finalize hooks run and _finalize_run flushes. The
\* detectability hook may now call the LLM with the transaction open.
FinalizeFlush(w, out) ==
    LET t == proc[w] IN
    /\ t.pc = "loop"
    /\ ~HeldByOther(w, t.run)
    /\ out \in Outcomes(runs[t.run].loop, t.ready)
    /\ Goto(w, [t EXCEPT !.pc = "flushed", !.result = out,
                         !.demote = RowsToDemote(runs[t.run].loop, out)])
    /\ UNCHANGED <<state, auto, runs, queue, cand, crashes, redeliveries, dropped>>

\* Fault: is_active is not set.
NotActivated(r, t) == [runs[r] EXCEPT !.status = t.result]

\* The row of the run itself. If the session found it among the active rows
\* (it was finalized by a duplicate delivery), its status has been set to
\* 'superseded' before is_active is set again.
FinalizedRow(r, t) ==
    [runs[r] EXCEPT !.active = TRUE,
                    !.status = IF r \in t.demote THEN "superseded" ELSE t.result]

StateAfter(t, n) ==
    IF next_state_after_loop(n) # t.cur THEN next_state_after_loop(n) ELSE state

Returned(t, status) == [Idle EXCEPT !.pc = "chain", !.run = t.run, !.result = status]

CommitOutput(w) ==
    LET t == proc[w] n == runs[t.run].loop IN
    /\ t.pc = "flushed"
    /\ t.result \in OutputStatus
    /\ ~IndexClash(n, t.demote, t.run)
    /\ runs' = [r \in RunIds |->
                  CASE r = t.run -> FinalizedRow(r, t)
                    [] r # t.run /\ r \in t.demote -> Demoted(runs[r])
                    [] OTHER -> runs[r]]
    /\ state' = StateAfter(t, n)
    /\ Goto(w, Returned(t, FinalizedRow(t.run, t).status))
    /\ UNCHANGED <<auto, queue, cand, crashes, redeliveries, dropped>>

CommitFailed(w) ==
    LET t == proc[w] IN
    /\ t.pc = "flushed"
    /\ t.result = "failed"
    /\ runs' = [runs EXCEPT ![t.run].status = "failed"]
    /\ Goto(w, Returned(t, "failed"))
    /\ UNCHANGED <<state, auto, queue, cand, crashes, redeliveries, dropped>>

\* A hook or the commit raises (the unique index among the reasons): the
\* transaction is rolled back.
ExecuteRaises(w) ==
    /\ proc[w].pc \in {"loop", "flushed"}
    /\ Goto(w, [Idle EXCEPT !.pc = "raised", !.run = proc[w].run])
    /\ UNCHANGED <<state, auto, runs, queue, cand, crashes, redeliveries, dropped>>

\* _finalize_failed, in a fresh session: get, test, write, commit.
FinalizeFailedRead(w) ==
    LET t == proc[w] status == runs[t.run].status IN
    /\ t.pc = "raised"
    /\ Goto(w, IF status = "running" THEN [t EXCEPT !.pc = "failing"]
                                     ELSE Returned(t, status))
    /\ UNCHANGED <<state, auto, runs, queue, cand, crashes, redeliveries, dropped>>

FinalizeFailedWrite(w) ==
    LET t == proc[w] IN
    /\ t.pc = "failing"
    /\ ~Held(t.run)
    /\ runs' = [runs EXCEPT ![t.run].status = "failed"]
    /\ Goto(w, Returned(t, "failed"))
    /\ UNCHANGED <<state, auto, queue, cand, crashes, redeliveries, dropped>>

\* ... which gives up when the database fails it too; the task is acked.
FinalizeFailedErrors(w) ==
    /\ proc[w].pc \in {"raised", "failing"}
    /\ Goto(w, Idle)
    /\ UNCHANGED <<state, auto, runs, queue, cand, crashes, redeliveries, dropped>>

-----------------------------------------------------------------------------
(* advance_after_run.                                                      *)

\* decide_next(...).action = "dispatch"
decide_next(status, n) == auto /\ status = "succeeded" /\ n < 3

\* _begin_next passes begin_run's prechecks; no override is ever supplied.
AdvanceDispatch(w) ==
    LET t == proc[w] n == runs[t.run].loop IN
    /\ t.pc = "chain"
    /\ decide_next(t.result, n)
    /\ BeginGuard(n + 1, FALSE)
    /\ Goto(w, [Idle EXCEPT !.pc = "checked", !.run = t.run, !.loop = n + 1])
    /\ UNCHANGED <<state, auto, runs, queue, cand, crashes, redeliveries, dropped>>

\* _load_auto_advance or begin_run's reads raise: logged
\* (assessment.chain.driver_failed, advance_failed), and the task is acknowledged.
AdvanceErrors(w) ==
    LET t == proc[w] IN
    /\ t.pc = "chain"
    /\ dropped' = IF decide_next(t.result, runs[t.run].loop) THEN dropped \cup {t.run} ELSE dropped
    /\ Goto(w, Idle)
    /\ UNCHANGED <<state, auto, runs, queue, cand, crashes, redeliveries>>

AdvanceStop(w) ==
    LET t == proc[w] n == runs[t.run].loop IN
    /\ t.pc = "chain"
    /\ ~(decide_next(t.result, n) /\ BeginGuard(n + 1, FALSE))
    /\ Goto(w, Idle)
    /\ UNCHANGED <<state, auto, runs, queue, cand, crashes, redeliveries, dropped>>

-----------------------------------------------------------------------------
(* Celery: task_acks_late, task_reject_on_worker_lost, Redis visibility.   *)

\* Fault: the delivery was acknowledged when it was taken.
NotRequeued(r) == queue

Requeued(r) == [queue EXCEPT ![r] = @ + 1]

\* The worker process is lost: its transaction rolls back and the delivery
\* it had not acknowledged returns to the queue.
Crash(w) ==
    /\ proc[w].pc # "idle"
    /\ crashes < MaxCrash
    /\ crashes' = crashes + 1
    /\ queue' = Requeued(proc[w].run)
    /\ Goto(w, Idle)
    /\ UNCHANGED <<state, auto, runs, cand, redeliveries, dropped>>

\* The broker connection is lost, or the visibility timeout expires, while the
\* worker is still busy: the unacknowledged delivery is given to another one.
Redeliver(w) ==
    /\ proc[w].pc # "idle"
    /\ redeliveries < MaxRedeliver
    /\ redeliveries' = redeliveries + 1
    /\ queue' = [queue EXCEPT ![proc[w].run] = @ + 1]
    /\ UNCHANGED <<state, auto, runs, proc, cand, crashes, dropped>>

-----------------------------------------------------------------------------
(* The reaper: candidates, then one conditional UPDATE each.               *)

\* Fault: nothing is ever old enough.
NeverStale(r) == FALSE

Stale(r) == SlowRuns \/ Orphaned(r)

ReapSelect(r) ==
    /\ cand = NoRun
    /\ runs[r].status = "running"
    /\ Stale(r)
    /\ cand' = r
    /\ UNCHANGED <<state, auto, runs, proc, queue, crashes, redeliveries, dropped>>

\* Fault: UPDATE without AND status = 'running'.
FlipsAnything(r) == TRUE

StillRunning(r) == runs[r].status = "running"

ReapFlip ==
    /\ cand # NoRun
    /\ ~Held(cand)
    /\ runs' = IF StillRunning(cand) THEN [runs EXCEPT ![cand].status = "failed"] ELSE runs
    /\ cand' = NoRun
    /\ UNCHANGED <<state, auto, proc, queue, crashes, redeliveries, dropped>>

-----------------------------------------------------------------------------

\* A request starts ...
Request(c) ==
    \/ \E n \in Loops, ov \in BOOLEAN : BeginCheck(c, n, ov)
    \/ CloseRead(c)
    \/ set_auto_advance(c)
    \/ ReuseFlush(c)

\* ... and goes on.
BeginStep(p) == ReadVersion(p) \/ InsertRun(p) \/ BeginFails(p) \/ Enqueue(p)
RequestStep(c) == CloseWrite(c) \/ ReuseCommit(c) \/ RequestFails(c)

WorkerStep(w) ==
    \/ \E r \in RunIds : StartRun(w, r)
    \/ \E out \in RunStatus : FinalizeFlush(w, out)
    \/ CommitOutput(w) \/ CommitFailed(w)
    \/ ExecuteRaises(w)
    \/ FinalizeFailedRead(w) \/ FinalizeFailedWrite(w) \/ FinalizeFailedErrors(w)
    \/ AdvanceDispatch(w) \/ AdvanceStop(w) \/ AdvanceErrors(w)

ReapScan == \E r \in RunIds : ReapSelect(r)

Next ==
    \/ \E c \in Clients : Request(c) \/ RequestStep(c)
    \/ \E p \in Procs : BeginStep(p) \/ LoseDispatch(p)
    \/ \E w \in Workers : WorkerStep(w) \/ Crash(w) \/ Redeliver(w)
    \/ ReapScan \/ ReapFlip

Spec == Init /\ [][Next]_vars

\* Requests and tasks run to their end (the LLM client times out), beat keeps
\* scheduling the reaper, and its UPDATE, queued for a row lock, is served in
\* turn (hence strong fairness). Nobody is obliged to start a request.
Fairness ==
    /\ \A p \in Procs : WF_vars(BeginStep(p))
    /\ \A c \in Clients : WF_vars(RequestStep(c))
    /\ \A w \in Workers : WF_vars(WorkerStep(w))
    /\ WF_vars(ReapScan)
    /\ SF_vars(ReapFlip)

FairSpec == Spec /\ Fairness

-----------------------------------------------------------------------------
(* Properties.                                                             *)

\* The state is well formed.
TypeOK ==
    /\ state \in AssessmentState
    /\ auto \in BOOLEAN
    /\ runs \in [RunIds -> Row]
    /\ proc \in [Procs -> Task]
    /\ queue \in [RunIds -> Nat]
    /\ cand \in RunIds \cup {NoRun}
    /\ crashes \in 0..MaxCrash
    /\ redeliveries \in 0..MaxRedeliver
    /\ dropped \subseteq RunIds

\* The active row of a loop is one whose run ended with output: the readers
\* that join on is_active (begin_run's gate check, prior outputs, the current
\* detectability class) see neither a failed nor a superseded run.
ActiveHasOutput ==
    \A r \in RunIds : runs[r].active => runs[r].status \in OutputStatus

\* What requests and workers in flight rely on when no running task is ever
\* delivered twice. A worker's crash must not multiply a delivery.
ProcShape ==
    /\ \A c \in Clients :
          /\ proc[c].pc \in {"idle", "checked", "versioned", "inserted", "closing", "reusing"}
          /\ proc[c].run = NoRun
    /\ \A w \in Workers :
          /\ proc[w].pc \notin {"closing", "reusing"}
          /\ proc[w].pc # "idle" => proc[w].run # NoRun
    /\ \A p \in Procs : proc[p].pc = "inserted" => proc[p].new # NoRun

OneDelivery ==
    /\ \A r \in RunIds : queue[r] <= 1
    /\ \A r \in RunIds, w \in Workers :
          InTask(w, r) => queue[r] = 0 /\ \A v \in Workers : InTask(v, r) => v = w
    /\ \A r \in RunIds, p \in Procs :
          Inserted(p, r) => /\ queue[r] = 0
                            /\ \A w \in Workers : ~InTask(w, r)
                            /\ \A q \in Procs : Inserted(q, r) => q = p

AbsentUnused ==
    \A r \in RunIds : runs[r].status = "absent" =>
        /\ ~runs[r].active
        /\ Orphaned(r)

ExecutedInactive ==
    \A w \in Workers :
        proc[w].pc \in {"loop", "flushed", "raised", "failing"} =>
            /\ ~runs[proc[w].run].active
            /\ runs[proc[w].run].status \in {"running", "failed"}

\* Rows a transaction is about to demote: they had output, and they are of the
\* loop it replaces or of a later one.
DemotedHadOutput ==
    \A p \in Procs : \A r \in proc[p].demote :
        /\ runs[r].status \in OutputStatus \cup {"superseded"}
        /\ proc[p].pc = "reusing" => runs[r].loop = 1
        /\ proc[p].pc = "flushed" => runs[r].loop >= runs[proc[p].run].loop

\* One delivery per run: a run has one executor, which alone activates it, so
\* neither the executor's unconditional writes nor another transaction's
\* demotions ever meet a row somebody else finalized.
InFlightInv ==
    ProcShape /\ OneDelivery /\ AbsentUnused /\ ExecutedInactive /\ DemotedHadOutput

\* "A failed run never orphans the prior good output": a loop loses its active
\* row only in the commit that activates a new row of an earlier loop.
OutputNeverLost ==
    [][\A n \in Loops :
          ActiveRuns(n) # {} /\ ActiveRuns(n)' = {}
          => \E r \in RunIds : ~runs[r].active /\ runs'[r].active /\ runs'[r].loop < n]_vars

LoopsDone == {n \in Loops : ActiveRuns(n) # {}}

ImportedStart == \E r \in ActiveRuns(1) : runs[r].imported

\* When operations do not overlap, the assessment's state says which loops have
\* output: a re-run of Loop N reverts it to loop(N)_done and takes the later
\* loops' rows along, and only an assessment with Loop 2 output is completed.
\* use_as_start alone reverts the state and leaves the later loops' rows.
StateMatchesOutputs ==
    /\ state = "created" => LoopsDone = {}
    /\ state = "loop1_done" => 1 \in LoopsDone /\ (LoopsDone = {1} \/ ImportedStart)
    /\ state = "loop2_done" => LoopsDone = {1, 2}
    /\ state = "loop3_done" => LoopsDone = {1, 2, 3}
    /\ state = "completed" => {1, 2} \subseteq LoopsDone

\* Whatever is lost between the commit of a 'running' row and its worker's
\* commit, the row does not block re-dispatch for ever.
NoRunStaysRunning ==
    \A r \in RunIds : (runs[r].status = "running") ~> (runs[r].status # "running")

\* Once Loop 1 of an auto-advancing assessment has succeeded, Loop 2 is
\* dispatched, a worker lost between the two notwithstanding; only an error of
\* the dispatch itself, which advance_after_run swallows, ends the chain.
ChainContinues ==
    \A r \in RunIds :
        (auto /\ RowsLeft /\ runs[r].loop = 1 /\ runs[r].status = "succeeded" /\ ~runs[r].imported)
        ~> ((\E s \in RunIds : runs[s].loop = 2) \/ r \in dropped)

\* "COMPLETED is terminal."
CompletedIsTerminal == [][state = "completed" => state' = "completed"]_vars

\* What the code guarantees of a closed assessment when operations do not
\* overlap: no worker, no close and no failed request takes it out of
\* 'completed'; only use_as_start does, with the imported chain as Loop 1.
CompletedLeftByReuse ==
    [][state = "completed" /\ state' # "completed" =>
          /\ state' = "loop1_done"
          /\ \E r \in RunIds : ~runs[r].active /\ runs'[r].active /\ runs'[r].imported]_vars
=============================================================================
