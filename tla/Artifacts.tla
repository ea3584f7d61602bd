------------------------------ MODULE Artifacts ------------------------------
(***************************************************************************)
(* The generated artifacts (mitigation plan, research task, telemetry      *)
(* contract) of one assessment and one type:                               *)
(*                                                                         *)
(*  - a request deactivates the active row, inserts the next version as    *)
(*    'generating' and dispatches a Celery task;                           *)
(*  - the task makes one LLM call and writes 'generated' or 'failed';      *)
(*  - the reaper fails rows that stay 'generating' too long;               *)
(*  - analysts validate, approve and reject generated rows.                *)
(***************************************************************************)
EXTENDS Naturals

CONSTANTS
    Requests,       \* concurrent API requests
    Workers,        \* Celery worker processes
    MaxRows,        \* bound: rows of generated_artifacts
    MaxFaults       \* bound: lost workers, redeliveries of a task that still
                    \* executes, database errors while a failure is recorded

ASSUME BoundsAssumption ==
    /\ MaxRows \in Nat \ {0}
    /\ MaxFaults \in Nat

VARIABLES
    rows,       \* table generated_artifacts
    req,        \* what each request is in the middle of
    proc,       \* what each worker is in the middle of
    queue,      \* messages per row
    cand,       \* the row the reaper is about to flip
    redelivered,\* history: rows whose task was redelivered while executing
    faults

vars == <<rows, req, proc, queue, cand, redelivered, faults>>

RowIds == 1..MaxRows
NoRow == 0

Status == {"absent", "generating", "generated", "failed"}
ValidationStatus == {"not_validated", "needs_review", "validation_failed",
                     "analyst_approved", "rejected"}
TERMINAL_VALIDATION == {"analyst_approved", "rejected"}

Row == [status : Status, active : BOOLEAN, version : 0..MaxRows,
        content : BOOLEAN, validation : ValidationStatus]

Absent == [status |-> "absent", active |-> FALSE, version |-> 0,
           content |-> FALSE, validation |-> "not_validated"]

Exists(r) == rows[r].status # "absent"
IsFresh(r) == ~Exists(r) /\ \A s \in RowIds : s < r => Exists(s)
Active == {r \in RowIds : rows[r].active}

Request == [pc : {"idle", "read", "begun", "deciding"}, seen : SUBSET RowIds,
            version : 0..MaxRows, row : RowIds \cup {NoRow},
            loaded : ValidationStatus, new : ValidationStatus]

NoRequest == [pc |-> "idle", seen |-> {}, version |-> 0, row |-> NoRow,
              loaded |-> "not_validated", new |-> "not_validated"]

Task == [pc : {"idle", "llm", "failing", "marking", "ack"},
         row : RowIds \cup {NoRow}, fresh : BOOLEAN]

NoTask == [pc |-> "idle", row |-> NoRow, fresh |-> FALSE]

Init ==
    /\ rows = [r \in RowIds |-> Absent]
    /\ req = [c \in Requests |-> NoRequest]
    /\ proc = [w \in Workers |-> NoTask]
    /\ queue = [r \in RowIds |-> 0]
    /\ cand = NoRow
    /\ redelivered = {}
    /\ faults = 0

-----------------------------------------------------------------------------
(* begin_generation and the request that calls it.                         *)

\* Fault: a second generation is started beside the one in flight.
BeginsAnyway == TRUE

\* ArtifactAlreadyGeneratingError otherwise
NotGenerating == \A r \in Active : rows[r].status # "generating"

IsNextVersion(v) ==
    /\ \A r \in RowIds : Exists(r) => rows[r].version < v
    /\ v = 1 \/ \E r \in RowIds : Exists(r) /\ rows[r].version + 1 = v

BeginRead(c) ==
    /\ req[c].pc = "idle"
    /\ NotGenerating
    /\ \E v \in 1..MaxRows :
          /\ IsNextVersion(v)
          /\ req' = [req EXCEPT ![c] = [NoRequest EXCEPT !.pc = "read", !.version = v,
                                                         !.seen = Active]]
    /\ UNCHANGED <<rows, proc, queue, cand, redelivered, faults>>

\* Fault: there is no index.
NoActiveIndex(c) == FALSE

\* uq_generated_artifacts_active: one active row per assessment and type
ActiveClash(c) == ~(Active \subseteq req[c].seen)

NewRow(v) == [Absent EXCEPT !.status = "generating", !.active = TRUE, !.version = v]

BeginCommit(c) ==
    /\ req[c].pc = "read"
    /\ ~ActiveClash(c)
    /\ \E r \in RowIds :
          /\ IsFresh(r)
          /\ rows' = [s \in RowIds |->
                        IF s = r THEN NewRow(req[c].version)
                        ELSE IF s \in req[c].seen THEN [rows[s] EXCEPT !.active = FALSE]
                        ELSE rows[s]]
          /\ req' = [req EXCEPT ![c] = [NoRequest EXCEPT !.pc = "begun", !.row = r]]
    /\ UNCHANGED <<proc, queue, cand, redelivered, faults>>

\* IntegrityError: the request fails and its transaction rolls back.
BeginClash(c) ==
    /\ req[c].pc = "read"
    /\ ActiveClash(c)
    /\ req' = [req EXCEPT ![c] = NoRequest]
    /\ UNCHANGED <<rows, proc, queue, cand, redelivered, faults>>

Dispatch(c) ==
    /\ req[c].pc = "begun"
    /\ queue' = [queue EXCEPT ![req[c].row] = @ + 1]
    /\ req' = [req EXCEPT ![c] = NoRequest]
    /\ UNCHANGED <<rows, proc, cand, redelivered, faults>>

\* The request dies: after its commit, the message is never sent.
RequestDies(c) ==
    /\ req[c].pc # "idle"
    /\ req' = [req EXCEPT ![c] = NoRequest]
    /\ UNCHANGED <<rows, proc, queue, cand, redelivered, faults>>

-----------------------------------------------------------------------------
(* The task generate_artifact.                                             *)

Goto(w, t) == proc' = [proc EXCEPT ![w] = t]

\* A row that is no longer 'generating' is skipped.
Start(w, r) ==
    /\ proc[w].pc = "idle"
    /\ queue[r] > 0
    /\ queue' = [queue EXCEPT ![r] = @ - 1]
    /\ Goto(w, [NoTask EXCEPT !.row = r,
                    !.pc = IF rows[r].status = "generating" THEN "llm" ELSE "ack"])
    /\ UNCHANGED <<rows, req, cand, redelivered, faults>>

\* The model answered: the row is written without looking at it again.
Generated(w) ==
    LET r == proc[w].row IN
    /\ proc[w].pc = "llm"
    /\ rows' = [rows EXCEPT ![r].status = "generated", ![r].content = TRUE]
    /\ Goto(w, [proc[w] EXCEPT !.pc = "ack"])
    /\ UNCHANGED <<req, queue, cand, redelivered, faults>>

GenerateRaises(w) ==
    /\ proc[w].pc = "llm"
    /\ Goto(w, [proc[w] EXCEPT !.pc = "failing"])
    /\ UNCHANGED <<rows, req, queue, cand, redelivered, faults>>

\* _mark_failed, and _finalize_failed in a fresh session: the row is read
\* again and left alone unless it is still 'generating'.
MarkRead(w) ==
    /\ proc[w].pc = "failing"
    /\ Goto(w, [proc[w] EXCEPT
                  !.pc = IF rows[proc[w].row].status = "generating" THEN "marking" ELSE "ack"])
    /\ UNCHANGED <<rows, req, queue, cand, redelivered, faults>>

MarkWrite(w) ==
    /\ proc[w].pc = "marking"
    /\ rows' = [rows EXCEPT ![proc[w].row].status = "failed"]
    /\ Goto(w, [proc[w] EXCEPT !.pc = "ack"])
    /\ UNCHANGED <<req, queue, cand, redelivered, faults>>

\* The database fails: once more in a fresh session, then the row is left.
MarkErrors(w) ==
    /\ proc[w].pc \in {"failing", "marking"}
    /\ faults < MaxFaults
    /\ faults' = faults + 1
    /\ Goto(w, [proc[w] EXCEPT !.pc = IF proc[w].fresh THEN "ack" ELSE "failing",
                               !.fresh = TRUE])
    /\ UNCHANGED <<rows, req, queue, cand, redelivered>>

\* The event is emitted and the delivery acknowledged.
Ack(w) ==
    /\ proc[w].pc = "ack"
    /\ Goto(w, NoTask)
    /\ UNCHANGED <<rows, req, queue, cand, redelivered, faults>>

\* task_acks_late: the delivery of a lost worker returns to the queue.
Crash(w) ==
    /\ proc[w].pc # "idle"
    /\ faults < MaxFaults
    /\ faults' = faults + 1
    /\ queue' = [queue EXCEPT ![proc[w].row] = @ + 1]
    /\ Goto(w, NoTask)
    /\ UNCHANGED <<rows, req, cand, redelivered>>

\* The broker gives the delivery of a busy worker to another one as well.
Redeliver(w) ==
    /\ proc[w].pc # "idle"
    /\ faults < MaxFaults
    /\ faults' = faults + 1
    /\ redelivered' = redelivered \cup {proc[w].row}
    /\ queue' = [queue EXCEPT ![proc[w].row] = @ + 1]
    /\ UNCHANGED <<rows, req, proc, cand>>

-----------------------------------------------------------------------------
(* The reaper. Any row may have been 'generating' for too long.            *)

\* Fault: nothing is ever old enough.
NeverStale(r) == FALSE

Stale(r) == rows[r].status = "generating"

ReapSelect ==
    /\ cand = NoRow
    /\ \E r \in RowIds : Stale(r) /\ cand' = r
    /\ UNCHANGED <<rows, req, proc, queue, redelivered, faults>>

StillGenerating(r) == rows[r].status = "generating"

ReapFlip ==
    /\ cand # NoRow
    /\ rows' = IF StillGenerating(cand) THEN [rows EXCEPT ![cand].status = "failed"] ELSE rows
    /\ cand' = NoRow
    /\ UNCHANGED <<req, proc, queue, redelivered, faults>>

-----------------------------------------------------------------------------
(* ArtifactValidator.                                                      *)

status_after_validation(row) == IF row.content THEN "needs_review" ELSE "validation_failed"

Verdicts(row) == {status_after_validation(row), "analyst_approved", "rejected"}

\* validate, approve, reject: the row is generated and not decided.
LoadDecision(c, r) ==
    /\ req[c].pc = "idle"
    /\ rows[r].status = "generated"
    /\ rows[r].validation \notin TERMINAL_VALIDATION
    /\ \E v \in Verdicts(rows[r]) :
          req' = [req EXCEPT ![c] = [NoRequest EXCEPT !.pc = "deciding", !.row = r,
                                        !.loaded = rows[r].validation, !.new = v]]
    /\ UNCHANGED <<rows, proc, queue, cand, redelivered, faults>>

\* Nothing is written when the status is the one that was loaded.
transition(c) ==
    LET q == req[c] IN
    /\ q.pc = "deciding"
    /\ rows' = IF q.new = q.loaded THEN rows
               ELSE [rows EXCEPT ![q.row].validation = q.new]
    /\ req' = [req EXCEPT ![c] = NoRequest]
    /\ UNCHANGED <<proc, queue, cand, redelivered, faults>>

-----------------------------------------------------------------------------
(* The specification.                                                      *)

RequestStep(c) == BeginCommit(c) \/ BeginClash(c) \/ Dispatch(c) \/ transition(c)

WorkerStep(w) == \/ \E r \in RowIds : Start(w, r)
                 \/ Generated(w) \/ GenerateRaises(w)
                 \/ MarkRead(w) \/ MarkWrite(w) \/ Ack(w)

Next ==
    \/ \E c \in Requests : \/ BeginRead(c) \/ RequestStep(c) \/ RequestDies(c)
                           \/ \E r \in RowIds : LoadDecision(c, r)
    \/ \E w \in Workers : WorkerStep(w) \/ MarkErrors(w) \/ Crash(w) \/ Redeliver(w)
    \/ ReapSelect \/ ReapFlip

Spec == Init /\ [][Next]_vars

\* Beat runs the reaper every five minutes; workers go on with their tasks.
Fairness ==
    /\ \A w \in Workers : WF_vars(WorkerStep(w))
    /\ WF_vars(ReapSelect)
    /\ WF_vars(ReapFlip)

FairSpec == Spec /\ Fairness

-----------------------------------------------------------------------------
(* Properties.                                                             *)

\* The state is well formed.
TypeOK ==
    /\ rows \in [RowIds -> Row]
    /\ req \in [Requests -> Request]
    /\ proc \in [Workers -> Task]
    /\ queue \in [RowIds -> Nat]
    /\ cand \in RowIds \cup {NoRow}
    /\ redelivered \subseteq RowIds \cup {NoRow}
    /\ faults \in 0..MaxFaults

\* Versions are unique although no constraint says so, and once there is a
\* row exactly one is active: the latest version (begin_generation under any
\* interleaving of requests that read the same rows).
ActiveIsLatest ==
    /\ \A r, s \in RowIds : Exists(r) /\ Exists(s) /\ rows[r].version = rows[s].version => r = s
    /\ (\E r \in RowIds : Exists(r)) => Active # {}
    /\ \A r \in Active, s \in RowIds : Exists(s) => rows[s].version <= rows[r].version

\* The generation in flight is the one that the assessment shows, so there is
\* at most one (ArtifactAlreadyGeneratingError).
GeneratingIsActive ==
    \A r \in RowIds : rows[r].status = "generating" => rows[r].active

\* No row stays 'generating' and blocks regeneration for ever, whatever
\* dispatch is lost and whatever worker dies.
RowSettles ==
    \A r \in RowIds : rows[r].status = "generating" ~> rows[r].status # "generating"
=============================================================================
