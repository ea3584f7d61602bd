-------------------------- MODULE Artifacts_proofs --------------------------
(***************************************************************************)
(* Proofs about Artifacts: type correctness, and that the active row is    *)
(* the latest version for any number of requests, workers, rows and        *)
(* faults.                                                                 *)
(*                                                                         *)
(* The argument for ActiveIsLatest is about the requests that have read    *)
(* the table and not yet committed (ReadInv): such a request either saw    *)
(* the active rows of today, and then its version is new, or there is an   *)
(* active row it did not see, and then the index refuses it.               *)
(***************************************************************************)
EXTENDS Artifacts, TLAPS

\* Each request that has read the table is up to date or doomed.
UpToDate(c) == /\ req[c].seen = Active
               /\ req[c].version \in 1..MaxRows
               /\ \A r \in RowIds : Exists(r) => rows[r].version < req[c].version

ReadInv ==
    \A c \in Requests : req[c].pc = "read" =>
        /\ \A r \in req[c].seen : Exists(r)
        /\ UpToDate(c) \/ ActiveClash(c)

\* What is active exists, and the reads concern rows that are not generating.
ActiveExists == \A r \in Active : Exists(r)

SeenIsSettled ==
    \A c \in Requests : req[c].pc = "read" =>
        \A r \in req[c].seen : rows[r].status # "generating"

\* A task, a candidate of the reaper and a decision concern an existing row.
BusyRow ==
    /\ \A w \in Workers : proc[w].pc # "idle" => proc[w].row \in RowIds /\ Exists(proc[w].row)
    /\ \A c \in Requests : req[c].pc \in {"begun", "deciding"}
                              => req[c].row \in RowIds /\ Exists(req[c].row)
    /\ \A r \in RowIds : queue[r] > 0 => Exists(r)
    /\ cand # NoRow => Exists(cand)

TypeInv == TypeOK /\ BusyRow

-----------------------------------------------------------------------------
(* Types.                                                                  *)

LEMMA RecordTypes == Absent \in Row /\ NoRequest \in Request /\ NoTask \in Task
  BY BoundsAssumption DEF Absent, Row, NoRequest, Request, NoTask, Task, Status,
     ValidationStatus, RowIds, NoRow

\* The rows and the requests after the two steps of begin_generation.
LEMMA BeginTypes ==
  ASSUME TypeInv, NEW c \in Requests, BeginRead(c) \/ BeginCommit(c)
  PROVE  TypeInv'
  <1>1. CASE BeginRead(c)
    <2>1. PICK v \in 1..MaxRows :
            req' = [req EXCEPT ![c] = [NoRequest EXCEPT !.pc = "read", !.version = v,
                                                        !.seen = Active]]
      BY <1>1 DEF BeginRead
    <2>2. [NoRequest EXCEPT !.pc = "read", !.version = v, !.seen = Active] \in Request
      <3>1. v \in 0..MaxRows /\ Active \in SUBSET RowIds
        BY BoundsAssumption DEF Active
      <3>2. QED
        BY <3>1, RecordTypes DEF Request, NoRequest
    <2>3. req' \in [Requests -> Request]
      BY <2>1, <2>2 DEF TypeInv, TypeOK
    <2>4. TypeOK'
      BY <1>1, <2>3 DEF BeginRead, TypeInv, TypeOK
    <2>5. BusyRow'
      BY <1>1, <2>1 DEF BeginRead, TypeInv, TypeOK, BusyRow, Exists, NoRequest
    <2>6. QED
      BY <2>4, <2>5 DEF TypeInv
  <1>2. CASE BeginCommit(c)
    <2>1. PICK n \in RowIds :
            /\ IsFresh(n)
            /\ rows' = [s \in RowIds |->
                          IF s = n THEN NewRow(req[c].version)
                          ELSE IF s \in req[c].seen THEN [rows[s] EXCEPT !.active = FALSE]
                          ELSE rows[s]]
            /\ req' = [req EXCEPT ![c] = [NoRequest EXCEPT !.pc = "begun", !.row = n]]
      BY <1>2 DEF BeginCommit
    <2>2. NewRow(req[c].version) \in Row
      BY RecordTypes DEF NewRow, Row, Absent, TypeInv, TypeOK, Request, Status
    <2>3. \A s \in RowIds : [rows[s] EXCEPT !.active = FALSE] \in Row
      BY DEF TypeInv, TypeOK, Row
    <2>4. rows' \in [RowIds -> Row]
      BY <2>1, <2>2, <2>3 DEF TypeInv, TypeOK
    <2>5. [NoRequest EXCEPT !.pc = "begun", !.row = n] \in Request
      BY RecordTypes DEF Request, NoRequest
    <2>6. TypeOK'
      BY <1>2, <2>1, <2>4, <2>5 DEF BeginCommit, TypeInv, TypeOK
    <2>7. \A s \in RowIds : Exists(s) => Exists(s)'
      BY <2>1 DEF Exists, NewRow, Absent, TypeInv, TypeOK, Row
    <2>8. Exists(n)'
      BY <2>1 DEF Exists, NewRow, Absent
    <2>9. BusyRow'
      BY <1>2, <2>1, <2>7, <2>8 DEF BeginCommit, TypeInv, TypeOK, BusyRow, NoRequest, NoRow, RowIds
    <2>10. QED
      BY <2>6, <2>9 DEF TypeInv
  <1>3. QED
    BY <1>1, <1>2

\* The other steps of a request.
LEMMA RequestTypes ==
  ASSUME TypeInv, NEW c \in Requests,
         \/ BeginClash(c) \/ Dispatch(c) \/ transition(c) \/ RequestDies(c)
         \/ \E r \in RowIds : LoadDecision(c, r)
  PROVE  TypeInv'
  <1>1. CASE BeginClash(c) \/ RequestDies(c)
    <2>1. /\ req' = [req EXCEPT ![c] = NoRequest]
          /\ UNCHANGED <<rows, proc, queue, cand, redelivered, faults>>
      BY <1>1 DEF BeginClash, RequestDies
    <2>2. TypeOK'
      BY <2>1, RecordTypes DEF TypeInv, TypeOK
    <2>3. BusyRow'
      BY <2>1 DEF TypeInv, TypeOK, BusyRow, Exists, NoRequest
    <2>4. QED
      BY <2>2, <2>3 DEF TypeInv
  <1>2. CASE Dispatch(c)
    <2>1. req[c].row \in RowIds /\ Exists(req[c].row)
      BY <1>2 DEF Dispatch, TypeInv, BusyRow
    <2>2. queue' \in [RowIds -> Nat]
      BY <1>2, <2>1 DEF Dispatch, TypeInv, TypeOK
    <2>3. TypeOK'
      BY <1>2, <2>2, RecordTypes DEF Dispatch, TypeInv, TypeOK
    <2>4. \A r \in RowIds : queue'[r] > 0 => Exists(r)
      BY <1>2, <2>1 DEF Dispatch, TypeInv, TypeOK, BusyRow
    <2>5. BusyRow'
      BY <1>2, <2>4 DEF Dispatch, TypeInv, TypeOK, BusyRow, Exists, NoRequest
    <2>6. QED
      BY <2>3, <2>5 DEF TypeInv
  <1>3. CASE transition(c)
    <2>1. req[c].row \in RowIds /\ req[c].new \in ValidationStatus
      BY <1>3 DEF transition, TypeInv, TypeOK, BusyRow, Request
    <2>2. rows' \in [RowIds -> Row]
      BY <1>3, <2>1 DEF transition, TypeInv, TypeOK, Row
    <2>3. \A s \in RowIds : Exists(s)' <=> Exists(s)
      BY <1>3, <2>1 DEF transition, TypeInv, TypeOK, Row, Exists
    <2>4. TypeOK'
      BY <1>3, <2>2, RecordTypes DEF transition, TypeInv, TypeOK
    <2>5. BusyRow'
      BY <1>3, <2>3 DEF transition, TypeInv, TypeOK, BusyRow, NoRequest, NoRow, RowIds
    <2>6. QED
      BY <2>4, <2>5 DEF TypeInv
  <1>4. CASE \E r \in RowIds : LoadDecision(c, r)
    <2>1. PICK r \in RowIds : LoadDecision(c, r)
      BY <1>4
    <2>2. PICK v \in Verdicts(rows[r]) :
            req' = [req EXCEPT ![c] = [NoRequest EXCEPT !.pc = "deciding", !.row = r,
                                         !.loaded = rows[r].validation, !.new = v]]
      BY <2>1 DEF LoadDecision
    <2>3. v \in ValidationStatus
      BY DEF Verdicts, status_after_validation, ValidationStatus
    <2>4. [NoRequest EXCEPT !.pc = "deciding", !.row = r,
                            !.loaded = rows[r].validation, !.new = v] \in Request
      BY <2>3, RecordTypes DEF Request, NoRequest, TypeInv, TypeOK, Row
    <2>5. TypeOK'
      BY <2>1, <2>2, <2>4 DEF LoadDecision, TypeInv, TypeOK
    <2>6. Exists(r)
      BY <2>1 DEF LoadDecision, Exists
    <2>7. BusyRow'
      BY <2>1, <2>2, <2>6 DEF LoadDecision, TypeInv, TypeOK, BusyRow, Exists, NoRequest
    <2>8. QED
      BY <2>5, <2>7 DEF TypeInv
  <1>5. QED
    BY <1>1, <1>2, <1>3, <1>4

\* The steps of a worker.
LEMMA WorkerTypes ==
  ASSUME TypeInv, NEW w \in Workers,
         WorkerStep(w) \/ MarkErrors(w) \/ Crash(w) \/ Redeliver(w)
  PROVE  TypeInv'
  <1>1. CASE \E r \in RowIds : Start(w, r)
    <2>1. PICK r \in RowIds : Start(w, r)
      BY <1>1
    <2>2. queue[r] \in Nat /\ queue[r] > 0 /\ Exists(r)
      BY <2>1 DEF Start, TypeInv, TypeOK, BusyRow
    <2>3. queue' \in [RowIds -> Nat]
      BY <2>1, <2>2 DEF Start, TypeInv, TypeOK
    <2>4. proc' \in [Workers -> Task]
      BY <2>1, RecordTypes DEF Start, Goto, TypeInv, TypeOK, Task, NoTask
    <2>5. TypeOK'
      BY <2>1, <2>3, <2>4 DEF Start, TypeInv, TypeOK
    <2>6. \A s \in RowIds : queue'[s] > 0 => Exists(s)
      BY <2>1, <2>2 DEF Start, TypeInv, TypeOK, BusyRow
    <2>7. BusyRow'
      BY <2>1, <2>2, <2>6 DEF Start, Goto, TypeInv, TypeOK, BusyRow, Exists, NoTask
    <2>8. QED
      BY <2>5, <2>7 DEF TypeInv
  <1>2. CASE Generated(w) \/ MarkWrite(w)
    <2>1. proc[w].row \in RowIds /\ Exists(proc[w].row)
      BY <1>2 DEF Generated, MarkWrite, TypeInv, BusyRow
    <2>2. rows' \in [RowIds -> Row]
      BY <1>2, <2>1 DEF Generated, MarkWrite, TypeInv, TypeOK, Row, Status
    <2>3. proc' \in [Workers -> Task]
      BY <1>2 DEF Generated, MarkWrite, Goto, TypeInv, TypeOK, Task
    <2>4. TypeOK'
      BY <1>2, <2>2, <2>3 DEF Generated, MarkWrite, TypeInv, TypeOK
    <2>5. \A s \in RowIds : Exists(s) => Exists(s)'
      BY <1>2, <2>1 DEF Generated, MarkWrite, TypeInv, TypeOK, Row, Exists
    <2>6. BusyRow'
      <3>1. /\ proc' = [proc EXCEPT ![w] = [proc[w] EXCEPT !.pc = "ack"]]
            /\ proc[w].pc # "idle"
            /\ UNCHANGED <<req, queue, cand>>
        BY <1>2 DEF Generated, MarkWrite, Goto
      <3>2. \A v \in Workers : proc'[v].pc # "idle"
                                  => proc[v].pc # "idle" /\ proc'[v].row = proc[v].row
        BY <3>1 DEF TypeInv, TypeOK, Task
      <3>3. QED
        BY <2>5, <3>1, <3>2 DEF TypeInv, TypeOK, BusyRow, NoRow, RowIds
    <2>7. QED
      BY <2>4, <2>6 DEF TypeInv
  <1>3. CASE GenerateRaises(w) \/ MarkRead(w) \/ MarkErrors(w) \/ Ack(w)
    <2>1. UNCHANGED <<rows, req, queue, cand, redelivered>>
      BY <1>3 DEF GenerateRaises, MarkRead, MarkErrors, Ack
    <2>2. proc[w] \in Task /\ proc[w].pc # "idle"
      BY <1>3 DEF GenerateRaises, MarkRead, MarkErrors, Ack, TypeInv, TypeOK
    <2>9. PICK t \in Task : /\ proc' = [proc EXCEPT ![w] = t]
                            /\ t.pc = "idle" \/ t.row = proc[w].row
      <3>1. CASE GenerateRaises(w)
        <4>1. [proc[w] EXCEPT !.pc = "failing"] \in Task
          BY <2>2 DEF Task
        <4>2. QED
          BY <2>2, <3>1, <4>1 DEF GenerateRaises, Goto, Task
      <3>2. CASE MarkRead(w)
        <4>1. \A x \in {"marking", "ack"} : [proc[w] EXCEPT !.pc = x] \in Task
          BY <2>2 DEF Task
        <4>2. PICK x \in {"marking", "ack"} : proc' = [proc EXCEPT ![w] = [proc[w] EXCEPT !.pc = x]]
          BY <3>2 DEF MarkRead, Goto
        <4>3. QED
          BY <2>2, <4>1, <4>2 DEF Task
      <3>3. CASE MarkErrors(w)
        <4>1. \A x \in {"failing", "ack"} : [proc[w] EXCEPT !.pc = x, !.fresh = TRUE] \in Task
          BY <2>2 DEF Task
        <4>2. PICK x \in {"failing", "ack"} :
                proc' = [proc EXCEPT ![w] = [proc[w] EXCEPT !.pc = x, !.fresh = TRUE]]
          BY <3>3 DEF MarkErrors, Goto
        <4>3. QED
          BY <2>2, <4>1, <4>2 DEF Task
      <3>4. CASE Ack(w)
        BY <3>4, RecordTypes DEF Ack, Goto, NoTask
      <3>5. QED
        BY <1>3, <3>1, <3>2, <3>3, <3>4
    <2>3. faults' \in 0..MaxFaults
      BY <1>3, BoundsAssumption DEF GenerateRaises, MarkRead, MarkErrors, Ack, TypeInv, TypeOK
    <2>4. TypeOK'
      BY <2>1, <2>9, <2>3 DEF TypeInv, TypeOK
    <2>5. \A v \in Workers : proc'[v].pc # "idle" => proc[v].pc # "idle" /\ proc'[v].row = proc[v].row
      BY <2>2, <2>9 DEF TypeInv, TypeOK
    <2>6. BusyRow'
      BY <2>1, <2>5 DEF TypeInv, TypeOK, BusyRow, Exists
    <2>7. QED
      BY <2>4, <2>6 DEF TypeInv
  <1>4. CASE Crash(w) \/ Redeliver(w)
    <2>1. proc[w].row \in RowIds /\ Exists(proc[w].row)
      BY <1>4 DEF Crash, Redeliver, TypeInv, BusyRow
    <2>2. queue' \in [RowIds -> Nat] /\ faults' \in 0..MaxFaults
      BY <1>4, <2>1, BoundsAssumption DEF Crash, Redeliver, TypeInv, TypeOK
    <2>3. proc' \in [Workers -> Task]
      BY <1>4, RecordTypes DEF Crash, Redeliver, Goto, TypeInv, TypeOK
    <2>4. redelivered' \subseteq RowIds \cup {NoRow}
      BY <1>4, <2>1 DEF Crash, Redeliver, TypeInv, TypeOK
    <2>5. TypeOK'
      BY <1>4, <2>2, <2>3, <2>4 DEF Crash, Redeliver, TypeInv, TypeOK
    <2>6. \A s \in RowIds : queue'[s] > 0 => Exists(s)
      BY <1>4, <2>1 DEF Crash, Redeliver, TypeInv, TypeOK, BusyRow
    <2>7. BusyRow'
      BY <1>4, <2>6 DEF Crash, Redeliver, Goto, TypeInv, TypeOK, BusyRow, Exists, NoTask
    <2>8. QED
      BY <2>5, <2>7 DEF TypeInv
  <1>5. QED
    BY <1>1, <1>2, <1>3, <1>4 DEF WorkerStep

\* The two steps of the reaper.
LEMMA ReaperTypes ==
  ASSUME TypeInv, ReapSelect \/ ReapFlip
  PROVE  TypeInv'
  <1>1. CASE ReapSelect
    BY <1>1 DEF ReapSelect, Stale, TypeInv, TypeOK, BusyRow, Exists
  <1>2. CASE ReapFlip
    <2>1. cand \in RowIds /\ Exists(cand)
      BY <1>2 DEF ReapFlip, TypeInv, TypeOK, BusyRow
    <2>2. rows' \in [RowIds -> Row]
      BY <1>2, <2>1 DEF ReapFlip, TypeInv, TypeOK, Row, Status
    <2>3. \A s \in RowIds : Exists(s) => Exists(s)'
      BY <1>2, <2>1 DEF ReapFlip, TypeInv, TypeOK, Row, Exists
    <2>4. TypeOK'
      BY <1>2, <2>2 DEF ReapFlip, TypeInv, TypeOK
    <2>5. BusyRow'
      BY <1>2, <2>3 DEF ReapFlip, TypeInv, TypeOK, BusyRow, NoRow, RowIds
    <2>6. QED
      BY <2>4, <2>5 DEF TypeInv
  <1>3. QED
    BY <1>1, <1>2

LEMMA TypeInvariant == Spec => []TypeInv
  <1>1. Init => TypeInv
    <2>1. Init => TypeOK
      BY RecordTypes, BoundsAssumption DEF Init, TypeOK, RowIds, NoRow
    <2>2. Init => BusyRow
      BY DEF Init, BusyRow, NoRequest, NoTask
    <2>3. QED
      BY <2>1, <2>2 DEF TypeInv
  <1>2. TypeInv /\ [Next]_vars => TypeInv'
    <2>1. CASE Next
      BY <2>1, BeginTypes, RequestTypes, WorkerTypes, ReaperTypes DEF Next, RequestStep
    <2>2. CASE UNCHANGED vars
      BY <2>2 DEF vars, TypeInv, TypeOK, BusyRow, Exists
    <2>3. QED
      BY <2>1, <2>2
  <1>3. QED
    BY <1>1, <1>2, PTL DEF Spec

\* Rows, requests, tasks and messages stay well formed: no write of a worker,
\* the reaper or an analyst misses its row.
THEOREM TypeCorrect == Spec => []TypeOK
  <1>1. TypeInv => TypeOK
    BY DEF TypeInv
  <1>2. QED
    BY <1>1, TypeInvariant, PTL

-----------------------------------------------------------------------------
(* The order of the versions.                                              *)

OrderInv == ActiveIsLatest /\ ActiveExists /\ ReadInv /\ GeneratingIsActive /\ SeenIsSettled

\* What every step other than the two of begin_generation leaves alone.
Quiet ==
    /\ \A r \in RowIds : /\ rows'[r].active = rows[r].active
                         /\ rows'[r].version = rows[r].version
                         /\ rows'[r].status = "absent" <=> rows[r].status = "absent"
                         /\ rows'[r].status = "generating" => rows[r].status = "generating"
    /\ \A c \in Requests : req'[c].pc = "read" => req'[c] = req[c]

LEMMA QuietSteps ==
  ASSUME TypeInv, [Next]_vars,
         \A c \in Requests : ~BeginRead(c) /\ ~BeginCommit(c)
  PROVE  Quiet
  <1>1. CASE UNCHANGED vars
    BY <1>1 DEF vars, Quiet
  <1>2. CASE \E c \in Requests : BeginClash(c) \/ Dispatch(c) \/ RequestDies(c)
    BY <1>2 DEF BeginClash, Dispatch, RequestDies, Quiet, NoRequest, TypeInv, TypeOK
  <1>3. CASE \E c \in Requests : transition(c)
    <2>1. PICK c \in Requests : transition(c)
      BY <1>3
    <2>2. req[c].row \in RowIds
      BY <2>1 DEF transition, TypeInv, BusyRow
    <2>3. \A r \in RowIds : /\ rows'[r].active = rows[r].active
                            /\ rows'[r].version = rows[r].version
                            /\ rows'[r].status = rows[r].status
      BY <2>1, <2>2 DEF transition, TypeInv, TypeOK, Row
    <2>4. \A d \in Requests : req'[d].pc = "read" => req'[d] = req[d]
      BY <2>1 DEF transition, TypeInv, TypeOK, NoRequest
    <2>5. QED
      BY <2>3, <2>4 DEF Quiet
  <1>4. CASE \E c \in Requests, r \in RowIds : LoadDecision(c, r)
    BY <1>4 DEF LoadDecision, Quiet, NoRequest, TypeInv, TypeOK
  <1>5. CASE \E w \in Workers : Generated(w) \/ MarkWrite(w)
    <2>1. PICK w \in Workers : Generated(w) \/ MarkWrite(w)
      BY <1>5
    <2>2. proc[w].row \in RowIds /\ Exists(proc[w].row)
      BY <2>1 DEF Generated, MarkWrite, TypeInv, BusyRow
    <2>3. QED
      BY <2>1, <2>2 DEF Generated, MarkWrite, Quiet, Exists, TypeInv, TypeOK, Row
  <1>6. CASE \E w \in Workers : \/ \E r \in RowIds : Start(w, r)
                                \/ GenerateRaises(w) \/ MarkRead(w) \/ Ack(w)
                                \/ MarkErrors(w) \/ Crash(w) \/ Redeliver(w)
    BY <1>6 DEF Start, GenerateRaises, MarkRead, Ack, MarkErrors, Crash, Redeliver, Quiet
  <1>7. CASE ReapSelect
    BY <1>7 DEF ReapSelect, Quiet
  <1>8. CASE ReapFlip
    <2>1. cand \in RowIds /\ Exists(cand)
      BY <1>8 DEF ReapFlip, TypeInv, TypeOK, BusyRow
    <2>2. QED
      BY <1>8, <2>1 DEF ReapFlip, Quiet, Exists, TypeInv, TypeOK, Row
  <1>9. QED
    BY <1>1, <1>2, <1>3, <1>4, <1>5, <1>6, <1>7, <1>8 DEF Next, RequestStep, WorkerStep

LEMMA QuietOrder ==
  ASSUME TypeInv, OrderInv, Quiet
  PROVE  OrderInv'
  <1>1. Active' = Active /\ \A r \in RowIds : Exists(r)' <=> Exists(r)
    BY DEF Quiet, Active, Exists
  <1>2. ActiveIsLatest' /\ ActiveExists'
    BY <1>1 DEF Quiet, OrderInv, ActiveIsLatest, ActiveExists, Active
  <1>3. ASSUME NEW c \in Requests, req'[c].pc = "read"
        PROVE  /\ \A r \in req'[c].seen : Exists(r)' /\ rows'[r].status # "generating"
               /\ UpToDate(c)' \/ ActiveClash(c)'
    <2>1. req'[c] = req[c] /\ req[c].pc = "read"
      BY <1>3 DEF Quiet
    <2>2. /\ \A r \in req[c].seen : Exists(r) /\ rows[r].status # "generating"
          /\ UpToDate(c) \/ ActiveClash(c)
      BY <2>1 DEF OrderInv, ReadInv, SeenIsSettled
    <2>3. UpToDate(c)' \/ ActiveClash(c)'
      BY <1>1, <2>1, <2>2 DEF UpToDate, ActiveClash, Quiet
    <2>4. req[c].seen \subseteq RowIds
      BY DEF TypeInv, TypeOK, Request
    <2>5. QED
      BY <1>1, <2>1, <2>2, <2>3, <2>4 DEF Quiet
  <1>4. ReadInv' /\ SeenIsSettled'
    BY <1>3 DEF ReadInv, SeenIsSettled
  <1>5. GeneratingIsActive'
    BY DEF Quiet, OrderInv, GeneratingIsActive
  <1>6. QED
    BY <1>2, <1>4, <1>5 DEF OrderInv

\* A request that reads the table is up to date.
LEMMA ReadOrder ==
  ASSUME TypeInv, OrderInv, NEW c \in Requests, BeginRead(c)
  PROVE  OrderInv'
  <1>1. PICK v \in 1..MaxRows :
          /\ IsNextVersion(v)
          /\ req' = [req EXCEPT ![c] = [NoRequest EXCEPT !.pc = "read", !.version = v,
                                                         !.seen = Active]]
    BY DEF BeginRead
  <1>2. rows' = rows /\ NotGenerating
    BY DEF BeginRead
  <1>3. /\ req'[c].seen = Active /\ req'[c].version = v
        /\ \A d \in Requests : d # c => req'[d] = req[d]
    BY <1>1 DEF TypeInv, TypeOK, NoRequest
  <1>4. ActiveIsLatest' /\ ActiveExists' /\ GeneratingIsActive'
    BY <1>2 DEF OrderInv, ActiveIsLatest, ActiveExists, GeneratingIsActive, Active, Exists
  <1>5. UpToDate(c)'
    BY <1>1, <1>2, <1>3 DEF UpToDate, IsNextVersion, Active, Exists
  <1>6. \A d \in Requests : d # c /\ (UpToDate(d) \/ ActiveClash(d))
                               => UpToDate(d)' \/ ActiveClash(d)'
    BY <1>2, <1>3 DEF UpToDate, ActiveClash, Active, Exists
  <1>7. ReadInv'
    BY <1>2, <1>3, <1>5, <1>6 DEF OrderInv, ReadInv, ActiveExists, Exists
  <1>8. SeenIsSettled'
    BY <1>2, <1>3 DEF OrderInv, SeenIsSettled, NotGenerating
  <1>9. QED
    BY <1>4, <1>7, <1>8 DEF OrderInv

\* A commit that the index allows makes the new row the active one, and
\* dooms every other request that has read.
LEMMA CommitOrder ==
  ASSUME TypeInv, OrderInv, NEW c \in Requests, BeginCommit(c)
  PROVE  OrderInv'
  <1>1. PICK n \in RowIds :
          /\ IsFresh(n)
          /\ rows' = [s \in RowIds |->
                        IF s = n THEN NewRow(req[c].version)
                        ELSE IF s \in req[c].seen THEN [rows[s] EXCEPT !.active = FALSE]
                        ELSE rows[s]]
          /\ req' = [req EXCEPT ![c] = [NoRequest EXCEPT !.pc = "begun", !.row = n]]
    BY DEF BeginCommit
  <1>2. UpToDate(c) /\ \A r \in req[c].seen : rows[r].status # "generating"
    BY DEF BeginCommit, OrderInv, ReadInv, SeenIsSettled
  <1>3. ~Exists(n) /\ n \notin Active
    BY <1>1 DEF IsFresh, OrderInv, ActiveExists
  <1>4. /\ rows'[n].active = TRUE /\ rows'[n].version = req[c].version
        /\ rows'[n].status = "generating"
    BY <1>1 DEF NewRow, Absent
  <1>5. ASSUME NEW s \in RowIds, s # n
        PROVE  /\ rows'[s].version = rows[s].version /\ rows'[s].status = rows[s].status
               /\ ~rows'[s].active
               /\ Exists(s)' <=> Exists(s)
    <2>1. rows'[s] = IF s \in req[c].seen THEN [rows[s] EXCEPT !.active = FALSE] ELSE rows[s]
      BY <1>1, <1>5
    <2>2. rows[s] \in Row
      BY DEF TypeInv, TypeOK
    <2>3. s \notin req[c].seen => ~rows[s].active
      BY <1>2 DEF UpToDate, Active
    <2>4. /\ rows'[s].version = rows[s].version /\ rows'[s].status = rows[s].status
          /\ ~rows'[s].active
      BY <2>1, <2>2, <2>3 DEF Row
    <2>5. QED
      BY <2>4 DEF Exists
  <1>6. Active' = {n} /\ Exists(n)'
    BY <1>4, <1>5 DEF Active, Exists
  <1>7. \A s \in RowIds : Exists(s) => rows[s].version \in Nat /\ rows[s].version < req[c].version
    BY <1>2 DEF UpToDate, TypeInv, TypeOK, Row
  <1>8. req[c].version \in Nat
    BY DEF TypeInv, TypeOK, Request
  <1>9. ActiveIsLatest'
    <2>1. \A r, s \in RowIds : Exists(r)' /\ Exists(s)' /\ rows'[r].version = rows'[s].version => r = s
      <3>1. SUFFICES ASSUME NEW r \in RowIds, NEW s \in RowIds, Exists(r)', Exists(s)',
                            rows'[r].version = rows'[s].version
                     PROVE  r = s
        OBVIOUS
      <3>2. CASE r # n /\ s # n
        BY <1>5, <3>1, <3>2 DEF OrderInv, ActiveIsLatest
      <3>3. CASE r = n \/ s = n
        BY <1>4, <1>5, <1>7, <1>8, <3>1, <3>3
      <3>4. QED
        BY <3>2, <3>3
    <2>2. \A s \in RowIds : Exists(s)' => rows'[s].version <= rows'[n].version
      BY <1>4, <1>5, <1>7, <1>8
    <2>3. QED
      BY <1>6, <2>1, <2>2 DEF ActiveIsLatest
  <1>10. ActiveExists'
    BY <1>6 DEF ActiveExists
  <1>11. GeneratingIsActive'
    <2>1. ASSUME NEW s \in RowIds, s # n PROVE rows'[s].status # "generating"
      BY <1>2, <1>5, <2>1 DEF OrderInv, GeneratingIsActive, UpToDate, Active
    <2>2. QED
      BY <1>4, <2>1 DEF GeneratingIsActive
  <1>12. ASSUME NEW d \in Requests, req'[d].pc = "read"
         PROVE  /\ \A r \in req'[d].seen : Exists(r)' /\ rows'[r].status # "generating"
                /\ ActiveClash(d)'
    <2>1. req'[d] = req[d] /\ req[d].pc = "read"
      BY <1>1, <1>12 DEF TypeInv, TypeOK, NoRequest
    <2>2. \A r \in req[d].seen : Exists(r) /\ rows[r].status # "generating"
      BY <2>1 DEF OrderInv, ReadInv, SeenIsSettled
    <2>3. n \notin req[d].seen
      BY <1>3, <2>2
    <2>4. req[d].seen \subseteq RowIds
      BY DEF TypeInv, TypeOK, Request
    <2>5. ActiveClash(d)'
      BY <1>6, <2>1, <2>3 DEF ActiveClash
    <2>6. QED
      BY <1>5, <2>1, <2>2, <2>3, <2>4, <2>5
  <1>13. ReadInv' /\ SeenIsSettled'
    BY <1>12 DEF ReadInv, SeenIsSettled
  <1>14. QED
    BY <1>9, <1>10, <1>11, <1>13 DEF OrderInv

LEMMA OrderInvariant == Spec => []OrderInv
  <1>1. Init => OrderInv
    BY DEF Init, OrderInv, ActiveIsLatest, ActiveExists, ReadInv, GeneratingIsActive,
       SeenIsSettled, Active, Exists, Absent, NoRequest
  <1>2. TypeInv /\ OrderInv /\ [Next]_vars => OrderInv'
    BY ReadOrder, CommitOrder, QuietSteps, QuietOrder
  <1>3. QED
    BY <1>1, <1>2, TypeInvariant, PTL DEF Spec

\* However many requests begin a generation at a time, versions are never
\* reused and the active row is the latest version: an overlapping request
\* computes the same version, and is refused by the index on the active row
\* although none mentions the version.
THEOREM LatestIsActive == Spec => []ActiveIsLatest
  <1>1. OrderInv => ActiveIsLatest
    BY DEF OrderInv
  <1>2. QED
    BY <1>1, OrderInvariant, PTL

\* A generation in flight is never hidden behind another row: a request
\* deactivates only rows that were settled when it read them, and no row
\* becomes 'generating' again.
THEOREM GenerationIsShown == Spec => []GeneratingIsActive
  <1>1. OrderInv => GeneratingIsActive
    BY DEF OrderInv
  <1>2. QED
    BY <1>1, OrderInvariant, PTL

=============================================================================
