----------------------- MODULE AssessmentLoops_proofs -----------------------
(* Theorems about AssessmentLoops, for every number of clients, workers,   *)
(* rows, crashes and redeliveries.                                         *)
EXTENDS AssessmentLoops, TLAPS

-----------------------------------------------------------------------------
(* The values the actions write are well typed.                            *)

\* An idle process and a row not yet inserted.
LEMMA DefaultsType == Idle \in Task /\ NoRow \in Row
  BY ConstantsAssumption
  DEF NoRow, Row, Idle, Task, Pcs, RunStatus, RunIds, NoRun, AssessmentState, Loops

\* A request after begin_run's prechecks ...
LEMMA CheckedType ==
    ASSUME NEW n \in Loops, NEW ov \in BOOLEAN
    PROVE  [Idle EXCEPT !.pc = "checked", !.loop = n, !.over = ov] \in Task
  BY DefaultsType DEF Task, Pcs

\* ... and a worker that continues after row r.
LEMMA ContinuedType ==
    ASSUME NEW n \in Loops, NEW r \in RunIds
    PROVE  [Idle EXCEPT !.pc = "checked", !.run = r, !.loop = n] \in Task
  BY DefaultsType DEF Task, Pcs

\* A task that has read the next version.
LEMMA VersionedType ==
    ASSUME NEW t \in Task, NEW v \in 0..MaxRuns
    PROVE  [t EXCEPT !.pc = "versioned", !.ver = v] \in Task
  BY DEF Task, Pcs

\* A task that has inserted row r.
LEMMA InsertedType ==
    ASSUME NEW t \in Task, NEW r \in RunIds
    PROVE  [t EXCEPT !.pc = "inserted", !.new = r] \in Task
  BY DEF Task, Pcs

\* A request that closes the assessment.
LEMMA ClosingType == [Idle EXCEPT !.pc = "closing"] \in Task
  BY DefaultsType DEF Task, Pcs

\* A request that reuses a chain.
LEMMA ReusingType ==
    ASSUME NEW v \in 0..MaxRuns, NEW s \in AssessmentState, NEW D \in SUBSET RunIds
    PROVE  [Idle EXCEPT !.pc = "reusing", !.ver = v, !.cur = s, !.demote = D] \in Task
  BY DefaultsType DEF Task, Pcs

\* A worker executing row r.
LEMMA LoopType ==
    ASSUME NEW r \in RunIds, NEW s \in AssessmentState, NEW b \in BOOLEAN
    PROVE  [Idle EXCEPT !.pc = "loop", !.run = r, !.cur = s, !.ready = b] \in Task
  BY DefaultsType DEF Task, Pcs

\* A worker whose transaction has flushed.
LEMMA FlushedType ==
    ASSUME NEW t \in Task, NEW out \in RunStatus, NEW D \in SUBSET RunIds
    PROVE  [t EXCEPT !.pc = "flushed", !.result = out, !.demote = D] \in Task
  BY DEF Task, Pcs

\* A worker whose execution of row r raised, or returned.
LEMMA EndedType ==
    ASSUME NEW r \in RunIds, NEW out \in RunStatus
    PROVE  /\ [Idle EXCEPT !.pc = "raised", !.run = r] \in Task
           /\ [Idle EXCEPT !.pc = "chain", !.run = r, !.result = out] \in Task
  BY DefaultsType DEF Task, Pcs

\* A worker about to mark its row failed.
LEMMA FailingType ==
    ASSUME NEW t \in Task
    PROVE  [t EXCEPT !.pc = "failing"] \in Task
  BY DEF Task, Pcs

\* The components of a task.
LEMMA TaskFields ==
    ASSUME NEW t \in Task
    PROVE  /\ t.pc \in Pcs /\ t.run \in RunIds \cup {NoRun} /\ t.new \in RunIds \cup {NoRun}
           /\ t.loop \in {0} \cup Loops /\ t.over \in BOOLEAN /\ t.ver \in 0..MaxRuns
           /\ t.cur \in AssessmentState /\ t.ready \in BOOLEAN /\ t.result \in RunStatus
           /\ t.demote \in SUBSET RunIds
  BY DEF Task

\* Rows begin_run and use_as_start insert.
LEMMA NewRowType ==
    ASSUME NEW n \in {0} \cup Loops, NEW v \in 0..MaxRuns, NEW ov \in BOOLEAN
    PROVE  NewRun(n, v, ov) \in Row /\ ImportedRun(v) \in Row
  BY DefaultsType DEF NewRun, ImportedRun, Row, RunStatus, Loops

\* A row that gets another status, is demoted or is finalized.
LEMMA ChangedRowType ==
    ASSUME NEW row \in Row, NEW out \in RunStatus
    PROVE  /\ [row EXCEPT !.status = out] \in Row
           /\ Demoted(row) \in Row
           /\ [row EXCEPT !.active = TRUE, !.status = out] \in Row
           /\ row.status \in RunStatus /\ row.loop \in {0} \cup Loops
  BY DEF Demoted, Row, RunStatus

\* One more delivery in the broker.
LEMMA DeliveryType ==
    ASSUME NEW q \in [RunIds -> Nat], NEW r \in RunIds
    PROVE  [q EXCEPT ![r] = q[r] + 1] \in [RunIds -> Nat]
  OBVIOUS

-----------------------------------------------------------------------------
(* Type correctness. A worker must also be known to hold a row (ProcShape), *)
(* or the row it finalizes might not be in the table.                      *)

TypeInv == TypeOK /\ ProcShape

\* The initial state is well typed.
LEMMA TypeInit == Init => TypeInv
<1> SUFFICES ASSUME Init PROVE TypeInv
  OBVIOUS
<1>1. TypeOK
  BY ConstantsAssumption, DefaultsType DEF Init, TypeOK, AssessmentState, NoRun, RunIds
<1>2. ProcShape
  BY DEF Init, ProcShape, Procs, Idle
<1>3. QED
  BY <1>1, <1>2 DEF TypeInv

TaskShape(p, t) ==
    /\ p \in Clients =>
          /\ t.pc \in {"idle", "checked", "versioned", "inserted", "closing", "reusing"}
          /\ t.run = NoRun
    /\ p \in Workers =>
          /\ t.pc \notin {"closing", "reusing"}
          /\ t.pc # "idle" => t.run # NoRun
    /\ t.pc = "inserted" => t.new # NoRun

\* A step that replaces the task of one process keeps proc well formed.
LEMMA ProcUpdate ==
    ASSUME TypeInv, NEW p \in Procs, NEW t \in Task, TaskShape(p, t), Goto(p, t)
    PROVE  proc' \in [Procs -> Task] /\ ProcShape'
  BY DEF TypeInv, TypeOK, ProcShape, TaskShape, Goto, Procs

\* What is known of a process's task.
LEMMA ProcTask ==
    ASSUME TypeInv, NEW p \in Procs
    PROVE  /\ proc[p] \in Task /\ TaskShape(p, proc[p])
           /\ proc[p].pc # "idle" /\ p \in Workers => proc[p].run \in RunIds
  BY TaskFields DEF TypeInv, TypeOK, ProcShape, TaskShape, Procs

\* Clients and workers are different processes.
LEMMA ProcKinds ==
    /\ \A c \in Clients : c \in Procs /\ c \notin Workers
    /\ \A w \in Workers : w \in Procs /\ w \notin Clients
  BY ConstantsAssumption DEF Procs

\* A process that ends its request or its task.
LEMMA IdleShape == \A p : TaskShape(p, Idle)
  BY DEF TaskShape, Idle

\* Every step keeps the state well typed.
LEMMA TypeNext == TypeInv /\ [Next]_vars => TypeInv'
<1> SUFFICES ASSUME TypeInv, [Next]_vars PROVE TypeInv'
  OBVIOUS
<1> USE ProcKinds
<1>0. NoRun \notin RunIds
  BY ConstantsAssumption DEF NoRun, RunIds
<1>1. ASSUME NEW c \in Clients, NEW n \in Loops, NEW ov \in BOOLEAN, BeginCheck(c, n, ov)
      PROVE TypeInv'
  <2> DEFINE t == [Idle EXCEPT !.pc = "checked", !.loop = n, !.over = ov]
  <2>1. t \in Task
    BY CheckedType
  <2>2. TaskShape(c, t)
    BY DEF TaskShape, Idle
  <2>3. proc' \in [Procs -> Task] /\ ProcShape'
    BY <1>1, <2>1, <2>2, ProcUpdate DEF BeginCheck
  <2>4. QED
    BY <1>1, <2>3 DEF BeginCheck, TypeInv, TypeOK
<1>2. ASSUME NEW c \in Clients, CloseRead(c) PROVE TypeInv'
  <2>1. TaskShape(c, [Idle EXCEPT !.pc = "closing"])
    BY DEF TaskShape, Idle
  <2>2. proc' \in [Procs -> Task] /\ ProcShape'
    BY <1>2, <2>1, ClosingType, ProcUpdate DEF CloseRead
  <2>3. QED
    BY <1>2, <2>2 DEF CloseRead, TypeInv, TypeOK
<1>3. ASSUME NEW p \in Procs, Goto(p, Idle) PROVE proc' \in [Procs -> Task] /\ ProcShape'
  BY <1>3, IdleShape, DefaultsType, ProcUpdate
<1>4. ASSUME NEW c \in Clients, CloseWrite(c) \/ RequestFails(c) PROVE TypeInv'
  BY <1>3, <1>4 DEF CloseWrite, RequestFails, TypeInv, TypeOK, AssessmentState
<1>5. ASSUME NEW c \in Clients, set_auto_advance(c) PROVE TypeInv'
  BY <1>5, ConstantsAssumption DEF set_auto_advance, TypeInv, TypeOK, ProcShape
<1>6. ASSUME NEW c \in Clients, ReuseFlush(c) PROVE TypeInv'
  <2>1. PICK v \in 1..MaxRuns :
          Goto(c, [Idle EXCEPT !.pc = "reusing", !.ver = v, !.cur = state,
                               !.demote = ActiveRuns(1)])
    BY <1>6 DEF ReuseFlush
  <2> DEFINE t == [Idle EXCEPT !.pc = "reusing", !.ver = v, !.cur = state,
                               !.demote = ActiveRuns(1)]
  <2>2. v \in 0..MaxRuns /\ state \in AssessmentState /\ ActiveRuns(1) \in SUBSET RunIds
    BY ConstantsAssumption DEF ActiveRuns, TypeInv, TypeOK
  <2>3. t \in Task
    BY <2>2, ReusingType
  <2>4. TaskShape(c, t)
    BY DEF TaskShape, Idle
  <2>5. proc' \in [Procs -> Task] /\ ProcShape'
    BY <2>1, <2>3, <2>4, ProcUpdate
  <2>6. QED
    BY <1>6, <2>5 DEF ReuseFlush, TypeInv, TypeOK
<1>7. ASSUME NEW c \in Clients, ReuseCommit(c) PROVE TypeInv'
  <2>1. proc[c].ver \in 0..MaxRuns
    BY ProcTask, TaskFields
  <2>2. ImportedRun(proc[c].ver) \in Row
    BY <2>1, NewRowType
  <2>3. \A r \in RunIds : runs[r] \in Row /\ Demoted(runs[r]) \in Row
    BY ChangedRowType DEF TypeInv, TypeOK, RunStatus
  <2>4. runs' \in [RunIds -> Row] /\ state' \in AssessmentState
    BY <1>7, <2>2, <2>3 DEF ReuseCommit, TypeInv, TypeOK, AssessmentState
  <2>5. QED
    BY <1>3, <1>7, <2>4 DEF ReuseCommit, TypeInv, TypeOK
<1>8. ASSUME NEW p \in Procs, ReadVersion(p) PROVE TypeInv'
  <2>1. PICK v \in 1..MaxRuns : Goto(p, [proc[p] EXCEPT !.pc = "versioned", !.ver = v])
    BY <1>8 DEF ReadVersion
  <2> DEFINE t == [proc[p] EXCEPT !.pc = "versioned", !.ver = v]
  <2>2. v \in 0..MaxRuns
    BY ConstantsAssumption
  <2>3. proc[p] \in Task /\ TaskShape(p, proc[p]) /\ proc[p].pc = "checked"
    BY <1>8, ProcTask DEF ReadVersion
  <2>4. t \in Task
    BY <2>2, <2>3, VersionedType
  <2>5. t.pc = "versioned" /\ t.run = proc[p].run
    BY <2>3 DEF Task
  <2>6. TaskShape(p, t)
    BY <2>3, <2>5 DEF TaskShape
  <2>7. proc' \in [Procs -> Task] /\ ProcShape'
    BY <2>1, <2>4, <2>6, ProcUpdate
  <2>8. QED
    BY <1>8, <2>7 DEF ReadVersion, TypeInv, TypeOK
<1>9. ASSUME NEW p \in Procs, InsertRun(p) PROVE TypeInv'
  <2>1. PICK r \in RunIds :
          /\ runs' = [runs EXCEPT ![r] = NewRun(proc[p].loop, proc[p].ver, proc[p].over)]
          /\ Goto(p, [proc[p] EXCEPT !.pc = "inserted", !.new = r])
    BY <1>9 DEF InsertRun
  <2> DEFINE t == [proc[p] EXCEPT !.pc = "inserted", !.new = r]
  <2>2. proc[p] \in Task /\ TaskShape(p, proc[p]) /\ proc[p].pc = "versioned"
    BY <1>9, ProcTask DEF InsertRun
  <2>3. t \in Task
    BY <2>2, InsertedType
  <2>4. t.pc = "inserted" /\ t.run = proc[p].run /\ t.new = r
    BY <2>2 DEF Task
  <2>5. TaskShape(p, t)
    BY <1>0, <2>2, <2>4 DEF TaskShape
  <2>6. proc' \in [Procs -> Task] /\ ProcShape'
    BY <2>1, <2>3, <2>5, ProcUpdate
  <2>7. NewRun(proc[p].loop, proc[p].ver, proc[p].over) \in Row
    <3>1. proc[p].loop \in {0} \cup Loops /\ proc[p].ver \in 0..MaxRuns /\ proc[p].over \in BOOLEAN
      BY <2>2, TaskFields
    <3>2. QED
      BY <3>1, NewRowType
  <2>8. runs' \in [RunIds -> Row]
    BY <2>1, <2>7 DEF TypeInv, TypeOK
  <2>9. QED
    BY <1>9, <2>6, <2>8 DEF InsertRun, TypeInv, TypeOK
<1>10. ASSUME NEW p \in Procs, BeginFails(p) \/ LoseDispatch(p) PROVE TypeInv'
  <2>1. proc[p].run \in RunIds \cup {NoRun}
    BY ProcTask, TaskFields
  <2>2. dropped' \subseteq RunIds
    BY <1>10, <2>1 DEF BeginFails, LoseDispatch, TypeInv, TypeOK
  <2>3. QED
    BY <1>3, <1>10, <2>2 DEF BeginFails, LoseDispatch, TypeInv, TypeOK
<1>11. ASSUME NEW p \in Procs, Enqueue(p) PROVE TypeInv'
  <2>1. proc' \in [Procs -> Task] /\ ProcShape'
    BY <1>3, <1>11 DEF Enqueue
  <2>2. queue' \in [RunIds -> Nat]
    <3>1. proc[p].new \in RunIds
      BY <1>11, ProcTask, TaskFields DEF Enqueue, TaskShape
    <3>2. QED
      BY <1>11, <3>1, DeliveryType DEF Enqueue, TypeInv, TypeOK
  <2>3. QED
    BY <1>11, <2>1, <2>2 DEF Enqueue, TypeInv, TypeOK
<1>12. ASSUME NEW w \in Workers, NEW r \in RunIds, StartRun(w, r) PROVE TypeInv'
  <2> DEFINE t1 == [Idle EXCEPT !.pc = "loop", !.run = r, !.cur = state,
                                !.ready = HasInput(runs[r].loop)]
             t2 == [Idle EXCEPT !.pc = "chain", !.run = r, !.result = runs[r].status]
  <2>1. HasInput(runs[r].loop) \in BOOLEAN /\ state \in AssessmentState
    BY DEF HasInput, TypeInv, TypeOK
  <2>2. t1 \in Task
    BY <2>1, LoopType
  <2>3. runs[r].status \in RunStatus
    BY DEF TypeInv, TypeOK, Row
  <2>4. t2 \in Task
    BY <2>3, EndedType
  <2>5. TaskShape(w, t1) /\ TaskShape(w, t2)
    BY <1>0 DEF TaskShape, Idle
  <2>6. Goto(w, t1) \/ Goto(w, t2)
    BY <1>12 DEF StartRun
  <2>7. proc' \in [Procs -> Task] /\ ProcShape'
    BY <2>2, <2>4, <2>5, <2>6, ProcUpdate
  <2>8. queue' \in [RunIds -> Nat]
    BY <1>12 DEF StartRun, TypeInv, TypeOK
  <2>9. QED
    BY <1>12, <2>7, <2>8 DEF StartRun, TypeInv, TypeOK
<1>13. ASSUME NEW w \in Workers, NEW out \in RunStatus, FinalizeFlush(w, out) PROVE TypeInv'
  <2> DEFINE D == RowsToDemote(runs[proc[w].run].loop, out)
             t == [proc[w] EXCEPT !.pc = "flushed", !.result = out, !.demote = D]
  <2>1. D \in SUBSET RunIds
    BY DEF RowsToDemote, ActiveRuns
  <2>2. proc[w] \in Task /\ TaskShape(w, proc[w]) /\ proc[w].pc = "loop"
    BY <1>13, ProcTask DEF FinalizeFlush
  <2>3. t \in Task
    BY <2>1, <2>2, FlushedType
  <2>4. t.pc = "flushed" /\ t.run = proc[w].run
    BY <2>2 DEF Task
  <2>5. TaskShape(w, t)
    BY <2>2, <2>4 DEF TaskShape
  <2>6. proc' \in [Procs -> Task] /\ ProcShape'
    BY <1>13, <2>3, <2>5, ProcUpdate DEF FinalizeFlush
  <2>7. QED
    BY <1>13, <2>6 DEF FinalizeFlush, TypeInv, TypeOK
<1>14. ASSUME NEW r \in RunIds, NEW out \in RunStatus, NEW w \in Workers,
              Goto(w, [Idle EXCEPT !.pc = "chain", !.run = r, !.result = out])
       PROVE  proc' \in [Procs -> Task] /\ ProcShape'
  <2>1. TaskShape(w, [Idle EXCEPT !.pc = "chain", !.run = r, !.result = out])
    BY <1>0 DEF TaskShape, Idle
  <2>2. QED
    BY <1>14, <2>1, EndedType, ProcUpdate
<1>15. ASSUME NEW w \in Workers, CommitOutput(w) PROVE TypeInv'
  <2>1. proc[w] \in Task /\ proc[w].run \in RunIds /\ proc[w].result \in RunStatus
    BY <1>15, ProcTask, TaskFields DEF CommitOutput
  <2>2. \A r \in RunIds : runs[r] \in Row /\ Demoted(runs[r]) \in Row /\ FinalizedRow(r, proc[w]) \in Row
    BY <2>1, ChangedRowType DEF TypeInv, TypeOK, FinalizedRow, RunStatus
  <2>3. FinalizedRow(proc[w].run, proc[w]).status \in RunStatus
    BY <2>1, <2>2 DEF Row
  <2>4. proc' \in [Procs -> Task] /\ ProcShape'
    BY <1>14, <1>15, <2>1, <2>3 DEF CommitOutput, Returned
  <2>5. runs[proc[w].run].loop \in {0} \cup Loops
    BY <2>1, <2>2 DEF Row
  <2>6. state' \in AssessmentState
    BY <1>15 DEF CommitOutput, StateAfter, next_state_after_loop, TypeInv, TypeOK, AssessmentState
  <2>7. runs' \in [RunIds -> Row]
    BY <1>15, <2>2 DEF CommitOutput
  <2>8. QED
    BY <1>15, <2>4, <2>6, <2>7 DEF CommitOutput, TypeInv, TypeOK
<1>16. ASSUME NEW w \in Workers, CommitFailed(w) \/ FinalizeFailedWrite(w) PROVE TypeInv'
  <2>1. proc[w] \in Task /\ proc[w].run \in RunIds /\ "failed" \in RunStatus
    BY <1>16, ProcTask DEF CommitFailed, FinalizeFailedWrite, RunStatus
  <2>2. proc' \in [Procs -> Task] /\ ProcShape'
    BY <1>14, <1>16, <2>1 DEF CommitFailed, FinalizeFailedWrite, Returned
  <2>3. runs' \in [RunIds -> Row]
    <3>1. [runs[proc[w].run] EXCEPT !.status = "failed"] \in Row
      BY <2>1, ChangedRowType DEF TypeInv, TypeOK
    <3>2. runs' = [runs EXCEPT ![proc[w].run] = [runs[proc[w].run] EXCEPT !.status = "failed"]]
      BY <1>16 DEF CommitFailed, FinalizeFailedWrite
    <3>3. QED
      BY <3>1, <3>2 DEF TypeInv, TypeOK
  <2>4. QED
    BY <1>16, <2>2, <2>3 DEF CommitFailed, FinalizeFailedWrite, TypeInv, TypeOK
<1>17. ASSUME NEW w \in Workers, ExecuteRaises(w) PROVE TypeInv'
  <2>1. proc[w].run \in RunIds
    BY <1>17, ProcTask DEF ExecuteRaises
  <2>2. [Idle EXCEPT !.pc = "raised", !.run = proc[w].run] \in Task
    BY <2>1, EndedType DEF RunStatus
  <2>3. TaskShape(w, [Idle EXCEPT !.pc = "raised", !.run = proc[w].run])
    BY <1>0, <2>1 DEF TaskShape, Idle
  <2>4. proc' \in [Procs -> Task] /\ ProcShape'
    BY <1>17, <2>2, <2>3, ProcUpdate DEF ExecuteRaises
  <2>5. QED
    BY <1>17, <2>4 DEF ExecuteRaises, TypeInv, TypeOK
<1>18. ASSUME NEW w \in Workers, FinalizeFailedRead(w) PROVE TypeInv'
  <2> DEFINE t == [proc[w] EXCEPT !.pc = "failing"]
  <2>1. proc[w] \in Task /\ TaskShape(w, proc[w]) /\ proc[w].run \in RunIds /\ proc[w].pc = "raised"
    BY <1>18, ProcTask DEF FinalizeFailedRead
  <2>2. runs[proc[w].run].status \in RunStatus
    BY <2>1 DEF TypeInv, TypeOK, Row
  <2>3. t \in Task
    BY <2>1, FailingType
  <2>4. t.pc = "failing" /\ t.run = proc[w].run
    BY <2>1 DEF Task
  <2>5. TaskShape(w, t)
    BY <2>1, <2>4 DEF TaskShape
  <2>6. proc' \in [Procs -> Task] /\ ProcShape'
    BY <1>14, <1>18, <2>1, <2>2, <2>3, <2>5, ProcUpdate DEF FinalizeFailedRead, Returned
  <2>7. QED
    BY <1>18, <2>6 DEF FinalizeFailedRead, TypeInv, TypeOK
<1>19. ASSUME NEW w \in Workers, FinalizeFailedErrors(w) \/ AdvanceStop(w) \/ AdvanceErrors(w)
       PROVE TypeInv'
  <2>1. dropped \subseteq RunIds
    BY DEF TypeInv, TypeOK
  <2>2. CASE AdvanceErrors(w)
    <3>1. proc[w].run \in RunIds
      BY <2>2, ProcTask DEF AdvanceErrors
    <3>2. dropped' = dropped \/ dropped' = dropped \cup {proc[w].run}
      BY <2>2 DEF AdvanceErrors
    <3>3. QED
      BY <1>3, <2>1, <2>2, <3>1, <3>2 DEF AdvanceErrors, TypeInv, TypeOK
  <2>3. CASE FinalizeFailedErrors(w) \/ AdvanceStop(w)
    BY <1>3, <2>3 DEF FinalizeFailedErrors, AdvanceStop, TypeInv, TypeOK
  <2>4. QED
    BY <1>19, <2>2, <2>3
<1>20. ASSUME NEW w \in Workers, AdvanceDispatch(w) PROVE TypeInv'
  <2> DEFINE n == runs[proc[w].run].loop
             t == [Idle EXCEPT !.pc = "checked", !.run = proc[w].run, !.loop = n + 1]
  <2>1. proc[w].run \in RunIds
    BY <1>20, ProcTask DEF AdvanceDispatch
  <2>2. n \in {0} \cup Loops /\ n < 3
    BY <1>20, <2>1 DEF AdvanceDispatch, decide_next, TypeInv, TypeOK, Row
  <2>3. n + 1 \in Loops
    BY <2>2 DEF Loops
  <2>4. t \in Task
    BY <2>1, <2>3, ContinuedType
  <2>5. TaskShape(w, t)
    BY <1>0, <2>1 DEF TaskShape, Idle
  <2>6. proc' \in [Procs -> Task] /\ ProcShape'
    BY <1>20, <2>4, <2>5, ProcUpdate DEF AdvanceDispatch
  <2>7. QED
    BY <1>20, <2>6 DEF AdvanceDispatch, TypeInv, TypeOK
<1>21. ASSUME NEW w \in Workers, Crash(w) PROVE TypeInv'
  <2>1. proc' \in [Procs -> Task] /\ ProcShape'
    BY <1>3, <1>21 DEF Crash
  <2>2. queue' \in [RunIds -> Nat]
    BY <1>21, ProcTask, DeliveryType DEF Crash, Requeued, TypeInv, TypeOK
  <2>3. crashes' \in 0..MaxCrash
    BY <1>21, ConstantsAssumption DEF Crash, TypeInv, TypeOK
  <2>4. QED
    BY <1>21, <2>1, <2>2, <2>3 DEF Crash, TypeInv, TypeOK
<1>22. ASSUME NEW w \in Workers, Redeliver(w) PROVE TypeInv'
  <2>1. queue' \in [RunIds -> Nat]
    BY <1>22, ProcTask, DeliveryType DEF Redeliver, TypeInv, TypeOK
  <2>2. redeliveries' \in 0..MaxRedeliver
    BY <1>22, ConstantsAssumption DEF Redeliver, TypeInv, TypeOK
  <2>3. QED
    BY <1>22, <2>1, <2>2 DEF Redeliver, TypeInv, TypeOK, ProcShape
<1>23. ASSUME NEW r \in RunIds, ReapSelect(r) PROVE TypeInv'
  BY <1>23 DEF ReapSelect, TypeInv, TypeOK, ProcShape
<1>24. CASE ReapFlip
  <2>1. runs' \in [RunIds -> Row]
    BY <1>24, ChangedRowType DEF ReapFlip, TypeInv, TypeOK, RunStatus
  <2>2. QED
    BY <1>24, <2>1 DEF ReapFlip, TypeInv, TypeOK, ProcShape
<1>25. CASE UNCHANGED vars
  BY <1>25 DEF vars, TypeInv, TypeOK, ProcShape
<1>26. QED
  BY <1>1, <1>2, <1>4, <1>5, <1>6, <1>7, <1>8, <1>9, <1>10, <1>11, <1>12, <1>13, <1>15,
     <1>16, <1>17, <1>18, <1>19, <1>20, <1>21, <1>22, <1>23, <1>24, <1>25
     DEF Next, Request, RequestStep, BeginStep, WorkerStep, ReapScan

\* The state of the assessment, its rows, requests, tasks and deliveries stay
\* well typed; in particular a worker that finalizes holds an existing row.
THEOREM TypeCorrect == Spec => []TypeOK
<1>1. TypeInv => TypeOK
  BY DEF TypeInv
<1>2. QED
  BY <1>1, TypeInit, TypeNext, PTL DEF Spec

-----------------------------------------------------------------------------
(* Most steps only move one request or worker on. They are classified once, *)
(* by what the invariants below need to know of the new task.              *)

Exec == {"loop", "flushed", "raised", "failing"}

LocalStep(p, t) ==
    /\ Goto(p, t)
    /\ UNCHANGED <<runs, queue>>
    /\ t.pc # "inserted"
    /\ t.pc = "idle" \/ p \in Clients \/ (proc[p].pc # "idle" /\ t.run = proc[p].run)
    /\ t.pc \in Exec => p \in Workers /\ proc[p].pc \in Exec
    /\ \/ t.demote \subseteq proc[p].demote /\ t.pc \notin {"reusing", "flushed"}
       \/ t.demote \subseteq ActiveRuns(1) /\ t.pc = "reusing"
       \/ /\ t.pc = "flushed"
          /\ \A r \in t.demote : runs[r].active /\ runs[r].loop >= runs[t.run].loop

\* Every step is local, or one of the eight that touch rows or deliveries.
LEMMA StepKinds ==
    ASSUME TypeInv, [Next]_vars
    PROVE  \/ \E p \in Procs, t \in Task : LocalStep(p, t)
           \/ \E p \in Procs : InsertRun(p) \/ Enqueue(p)
           \/ \E c \in Clients : ReuseCommit(c)
           \/ \E w \in Workers : \/ \E r \in RunIds : StartRun(w, r)
                                 \/ CommitOutput(w) \/ CommitFailed(w) \/ FinalizeFailedWrite(w)
                                 \/ Crash(w) \/ Redeliver(w)
           \/ ReapFlip
           \/ UNCHANGED <<proc, runs, queue>>
<1> DEFINE Local == \E p \in Procs, t \in Task : LocalStep(p, t)
<1> USE ProcKinds
<1>0. ASSUME NEW p \in Procs, Goto(p, Idle), UNCHANGED <<runs, queue>> PROVE Local
  <2>1. LocalStep(p, Idle)
    BY <1>0 DEF LocalStep, Idle, Exec
  <2>2. QED
    BY <2>1, DefaultsType
<1>1. ASSUME NEW c \in Clients, NEW n \in Loops, NEW ov \in BOOLEAN, BeginCheck(c, n, ov)
      PROVE Local
  <2> DEFINE t == [Idle EXCEPT !.pc = "checked", !.loop = n, !.over = ov]
  <2>1. t \in Task
    BY CheckedType
  <2>2. LocalStep(c, t)
    BY <1>1 DEF BeginCheck, LocalStep, Idle, Exec
  <2>3. QED
    BY <2>1, <2>2
<1>2. ASSUME NEW c \in Clients, CloseRead(c) PROVE Local
  <2>1. LocalStep(c, [Idle EXCEPT !.pc = "closing"])
    BY <1>2 DEF CloseRead, LocalStep, Idle, Exec
  <2>2. QED
    BY <2>1, ClosingType
<1>3. ASSUME NEW c \in Clients, ReuseFlush(c) PROVE Local
  <2>1. PICK v \in 1..MaxRuns :
          Goto(c, [Idle EXCEPT !.pc = "reusing", !.ver = v, !.cur = state,
                               !.demote = ActiveRuns(1)])
    BY <1>3 DEF ReuseFlush
  <2> DEFINE t == [Idle EXCEPT !.pc = "reusing", !.ver = v, !.cur = state,
                               !.demote = ActiveRuns(1)]
  <2>2. v \in 0..MaxRuns /\ state \in AssessmentState /\ ActiveRuns(1) \in SUBSET RunIds
    BY ConstantsAssumption DEF ActiveRuns, TypeInv, TypeOK
  <2>3. t \in Task
    BY <2>2, ReusingType
  <2>4. t.pc = "reusing" /\ t.demote = ActiveRuns(1)
    BY DEF Idle
  <2>5. LocalStep(c, t)
    BY <1>3, <2>1, <2>4 DEF ReuseFlush, LocalStep, Exec
  <2>6. QED
    BY <2>3, <2>5
<1>4. ASSUME NEW p \in Procs, ReadVersion(p) PROVE Local
  <2>1. PICK v \in 1..MaxRuns : Goto(p, [proc[p] EXCEPT !.pc = "versioned", !.ver = v])
    BY <1>4 DEF ReadVersion
  <2> DEFINE t == [proc[p] EXCEPT !.pc = "versioned", !.ver = v]
  <2>2. v \in 0..MaxRuns
    BY ConstantsAssumption
  <2>3. proc[p] \in Task /\ proc[p].pc = "checked"
    BY <1>4, ProcTask DEF ReadVersion
  <2>4. t \in Task
    BY <2>2, <2>3, VersionedType
  <2>5. t.pc = "versioned" /\ t.run = proc[p].run /\ t.demote = proc[p].demote
    BY <2>3 DEF Task
  <2>6. LocalStep(p, t)
    BY <1>4, <2>1, <2>3, <2>5 DEF ReadVersion, LocalStep, Exec, Procs
  <2>7. QED
    BY <2>4, <2>6
<1>5. ASSUME NEW w \in Workers, NEW out \in RunStatus, FinalizeFlush(w, out) PROVE Local
  <2> DEFINE D == RowsToDemote(runs[proc[w].run].loop, out)
             t == [proc[w] EXCEPT !.pc = "flushed", !.result = out, !.demote = D]
  <2>1. D \in SUBSET RunIds
    BY DEF RowsToDemote, ActiveRuns
  <2>2. proc[w] \in Task /\ proc[w].pc = "loop" /\ proc[w].run \in RunIds
    BY <1>5, ProcTask DEF FinalizeFlush
  <2>3. t \in Task
    BY <2>1, <2>2, FlushedType
  <2>4. t.pc = "flushed" /\ t.run = proc[w].run /\ t.demote = D
    BY <2>2 DEF Task
  <2>5. runs[proc[w].run].loop \in Nat
    BY <2>2 DEF TypeInv, TypeOK, Row, Loops
  <2>6. \A r \in D : runs[r].active /\ runs[r].loop >= runs[proc[w].run].loop
    <3>1. \A m \in Loops : m > runs[proc[w].run].loop => m >= runs[proc[w].run].loop
      BY <2>5 DEF Loops
    <3>2. runs[proc[w].run].loop >= runs[proc[w].run].loop
      BY <2>5
    <3>3. QED
      BY <3>1, <3>2 DEF RowsToDemote, ActiveRuns, states_invalidated_by_rerun
  <2>7. LocalStep(w, t)
    BY <1>5, <2>2, <2>4, <2>6 DEF FinalizeFlush, LocalStep, Exec
  <2>8. QED
    BY <2>3, <2>7
<1>6. ASSUME NEW w \in Workers, ExecuteRaises(w) PROVE Local
  <2> DEFINE t == [Idle EXCEPT !.pc = "raised", !.run = proc[w].run]
  <2>1. t \in Task
    BY <1>6, ProcTask, EndedType DEF ExecuteRaises, RunStatus
  <2>2. t.pc = "raised" /\ t.run = proc[w].run /\ t.demote = {}
    BY DEF Idle
  <2>3. LocalStep(w, t)
    BY <1>6, <2>2 DEF ExecuteRaises, LocalStep, Exec
  <2>4. QED
    BY <2>1, <2>3
<1>7. ASSUME NEW w \in Workers, FinalizeFailedRead(w) PROVE Local
  <2> DEFINE t1 == [proc[w] EXCEPT !.pc = "failing"]
             t2 == [Idle EXCEPT !.pc = "chain", !.run = proc[w].run,
                                !.result = runs[proc[w].run].status]
  <2>1. proc[w] \in Task /\ proc[w].pc = "raised" /\ proc[w].run \in RunIds
    BY <1>7, ProcTask DEF FinalizeFailedRead
  <2>2. runs[proc[w].run].status \in RunStatus
    BY <2>1 DEF TypeInv, TypeOK, Row
  <2>3. t1 \in Task /\ t2 \in Task
    BY <2>1, <2>2, FailingType, EndedType
  <2>4. t1.pc = "failing" /\ t1.run = proc[w].run /\ t1.demote = proc[w].demote
    BY <2>1 DEF Task
  <2>5. t2.pc = "chain" /\ t2.run = proc[w].run /\ t2.demote = {}
    BY DEF Idle
  <2>6. Goto(w, t1) \/ Goto(w, t2)
    BY <1>7 DEF FinalizeFailedRead, Returned
  <2>7. LocalStep(w, t1) \/ LocalStep(w, t2)
    BY <1>7, <2>1, <2>4, <2>5, <2>6 DEF FinalizeFailedRead, LocalStep, Exec
  <2>8. QED
    BY <2>3, <2>7
<1>8. ASSUME NEW w \in Workers, AdvanceDispatch(w) PROVE Local
  <2> DEFINE n == runs[proc[w].run].loop
             t == [Idle EXCEPT !.pc = "checked", !.run = proc[w].run, !.loop = n + 1]
  <2>1. proc[w].run \in RunIds
    BY <1>8, ProcTask DEF AdvanceDispatch
  <2>2. n \in {0} \cup Loops /\ n < 3
    BY <1>8, <2>1 DEF AdvanceDispatch, decide_next, TypeInv, TypeOK, Row
  <2>3. n + 1 \in Loops
    BY <2>2 DEF Loops
  <2>4. t \in Task
    BY <2>1, <2>3, ContinuedType
  <2>5. t.pc = "checked" /\ t.run = proc[w].run /\ t.demote = {}
    BY DEF Idle
  <2>6. LocalStep(w, t)
    BY <1>8, <2>5 DEF AdvanceDispatch, LocalStep, Exec
  <2>7. QED
    BY <2>4, <2>6
<1>9. ASSUME NEW p \in Procs,
             CloseWrite(p) \/ RequestFails(p) \/ BeginFails(p) \/ LoseDispatch(p)
             \/ FinalizeFailedErrors(p) \/ AdvanceStop(p) \/ AdvanceErrors(p)
      PROVE Local
  BY <1>0, <1>9 DEF CloseWrite, RequestFails, BeginFails, LoseDispatch,
                    FinalizeFailedErrors, AdvanceStop, AdvanceErrors
<1>10. ASSUME NEW c \in Clients, set_auto_advance(c) PROVE UNCHANGED <<proc, runs, queue>>
  BY <1>10 DEF set_auto_advance
<1>11. ASSUME NEW r \in RunIds, ReapSelect(r) PROVE UNCHANGED <<proc, runs, queue>>
  BY <1>11 DEF ReapSelect
<1>12. CASE UNCHANGED vars
  BY <1>12 DEF vars
<1>13. QED
  BY <1>1, <1>2, <1>3, <1>4, <1>5, <1>6, <1>7, <1>8, <1>9, <1>10, <1>11, <1>12
     DEF Next, Request, RequestStep, BeginStep, WorkerStep, ReapScan

-----------------------------------------------------------------------------
(* How a step changes rows and tasks, field by field.                      *)

\* A step that replaces the task of one process leaves the others alone.
LEMMA GotoFields ==
    ASSUME TypeInv, NEW p \in Procs, NEW t, Goto(p, t)
    PROVE  /\ proc'[p] = t
           /\ \A q \in Procs : q # p => proc'[q] = proc[q]
  BY DEF TypeInv, TypeOK, Goto

\* Demoting, failing and finalizing a row keep its loop and its version.
LEMMA DemotedFields ==
    ASSUME NEW row \in Row
    PROVE  /\ Demoted(row).loop = row.loop /\ Demoted(row).ver = row.ver
           /\ Demoted(row).status = "superseded" /\ ~Demoted(row).active
  BY DEF Demoted, Row

\* The same for a row that gets a status, and perhaps becomes active.
LEMMA RowFields ==
    ASSUME NEW row \in Row, NEW out
    PROVE  /\ [row EXCEPT !.status = out].loop = row.loop
           /\ [row EXCEPT !.status = out].ver = row.ver
           /\ [row EXCEPT !.status = out].active = row.active
           /\ [row EXCEPT !.status = out].imported = row.imported
           /\ [row EXCEPT !.status = out].status = out
           /\ [row EXCEPT !.active = TRUE, !.status = out].loop = row.loop
           /\ [row EXCEPT !.active = TRUE, !.status = out].ver = row.ver
           /\ [row EXCEPT !.active = TRUE, !.status = out].active
           /\ [row EXCEPT !.active = TRUE, !.status = out].status = out
  BY DEF Row

\* Rows as they are inserted.
LEMMA NewRowFields ==
    ASSUME NEW n, NEW v, NEW ov
    PROVE  /\ NewRun(n, v, ov).loop = n /\ NewRun(n, v, ov).ver = v
           /\ NewRun(n, v, ov).status = "running" /\ ~NewRun(n, v, ov).active
           /\ ImportedRun(v).loop = 1 /\ ImportedRun(v).ver = v
           /\ ImportedRun(v).status = "succeeded" /\ ImportedRun(v).active
           /\ ImportedRun(v).imported
  BY DEF NewRun, ImportedRun, NoRow

RowKept(r) == runs'[r] = runs[r]

RowFailed(r) == /\ runs'[r].loop = runs[r].loop /\ runs'[r].ver = runs[r].ver
                /\ runs'[r].active = runs[r].active /\ runs'[r].status = "failed"
                /\ runs'[r].imported = runs[r].imported

RowDemoted(r) == /\ runs'[r].loop = runs[r].loop /\ runs'[r].ver = runs[r].ver
                 /\ ~runs'[r].active /\ runs'[r].status = "superseded"

\* A begin_run inserts one fresh row, running and inactive.
LEMMA InsertRows ==
    ASSUME TypeInv, NEW p \in Procs, InsertRun(p)
    PROVE  \E r \in RunIds :
              /\ IsFresh(r)
              /\ runs'[r] = NewRun(proc[p].loop, proc[p].ver, proc[p].over)
              /\ \A s \in RunIds : s # r => RowKept(s)
              /\ Goto(p, [proc[p] EXCEPT !.pc = "inserted", !.new = r])
  BY DEF TypeInv, TypeOK, InsertRun, RowKept

\* use_as_start inserts one active row of Loop 1 and demotes those it had
\* read, or does nothing.
LEMMA ReuseRows ==
    ASSUME TypeInv, NEW c \in Clients, ReuseCommit(c)
    PROVE  \/ /\ ~VersionTaken(1, proc[c].ver) /\ ~IndexClash(1, proc[c].demote, NoRun)
              /\ \E new \in RunIds :
                    /\ IsFresh(new)
                    /\ runs'[new] = ImportedRun(proc[c].ver)
                    /\ \A r \in RunIds \ {new} : \/ r \in proc[c].demote /\ RowDemoted(r)
                                                 \/ r \notin proc[c].demote /\ RowKept(r)
           \/ runs' = runs
<1>1. CASE runs' = runs
  BY <1>1
<1>2. CASE runs' # runs
  <2>1. /\ ~VersionTaken(1, proc[c].ver) /\ ~IndexClash(1, proc[c].demote, NoRun)
        /\ \E new \in RunIds :
              /\ IsFresh(new)
              /\ runs' = [r \in RunIds |->
                            CASE r = new -> ImportedRun(proc[c].ver)
                              [] r # new /\ r \in proc[c].demote -> Demoted(runs[r])
                              [] OTHER -> runs[r]]
    BY <1>2 DEF ReuseCommit
  <2>2. PICK new \in RunIds :
              /\ IsFresh(new)
              /\ runs' = [r \in RunIds |->
                            CASE r = new -> ImportedRun(proc[c].ver)
                              [] r # new /\ r \in proc[c].demote -> Demoted(runs[r])
                              [] OTHER -> runs[r]]
    BY <2>1
  <2>3. \A r \in RunIds \ {new} : \/ r \in proc[c].demote /\ runs'[r] = Demoted(runs[r])
                                  \/ r \notin proc[c].demote /\ RowKept(r)
    BY <2>2 DEF RowKept
  <2>4. ASSUME NEW r \in RunIds, runs'[r] = Demoted(runs[r]) PROVE RowDemoted(r)
    <3>1. runs[r] \in Row
      BY DEF TypeInv, TypeOK
    <3>2. QED
      BY <2>4, <3>1, DemotedFields DEF RowDemoted
  <2>5. runs'[new] = ImportedRun(proc[c].ver)
    BY <2>2
  <2>6. QED
    BY <2>1, <2>2, <2>3, <2>4, <2>5
<1>3. QED
  BY <1>1, <1>2

\* A worker's commit activates its row and demotes those it had read.
LEMMA OutputRows ==
    ASSUME TypeInv, NEW w \in Workers, CommitOutput(w)
    PROVE  /\ proc[w].pc = "flushed" /\ proc[w].run \in RunIds
           /\ proc[w].result \in OutputStatus
           /\ ~IndexClash(runs[proc[w].run].loop, proc[w].demote, proc[w].run)
           /\ runs'[proc[w].run].loop = runs[proc[w].run].loop
           /\ runs'[proc[w].run].ver = runs[proc[w].run].ver
           /\ runs'[proc[w].run].active
           /\ runs'[proc[w].run].status = IF proc[w].run \in proc[w].demote
                                          THEN "superseded" ELSE proc[w].result
           /\ \A r \in RunIds \ {proc[w].run} : \/ r \in proc[w].demote /\ RowDemoted(r)
                                                \/ r \notin proc[w].demote /\ RowKept(r)
<1>1. proc[w].run \in RunIds /\ proc[w].pc = "flushed"
  BY ProcTask, ProcKinds DEF CommitOutput
<1>2. runs' = [r \in RunIds |->
                  CASE r = proc[w].run -> FinalizedRow(r, proc[w])
                    [] r # proc[w].run /\ r \in proc[w].demote -> Demoted(runs[r])
                    [] OTHER -> runs[r]]
  BY DEF CommitOutput
<1>3. \A r \in RunIds \ {proc[w].run} :
          \/ r \in proc[w].demote /\ runs'[r] = Demoted(runs[r])
          \/ r \notin proc[w].demote /\ RowKept(r)
  BY <1>2 DEF RowKept
<1>4. ASSUME NEW r \in RunIds, runs'[r] = Demoted(runs[r]) PROVE RowDemoted(r)
  <2>1. runs[r] \in Row
    BY DEF TypeInv, TypeOK
  <2>2. QED
    BY <1>4, <2>1, DemotedFields DEF RowDemoted
<1>5. runs'[proc[w].run] = FinalizedRow(proc[w].run, proc[w])
  BY <1>1, <1>2
<1>6. /\ FinalizedRow(proc[w].run, proc[w]).loop = runs[proc[w].run].loop
      /\ FinalizedRow(proc[w].run, proc[w]).ver = runs[proc[w].run].ver
      /\ FinalizedRow(proc[w].run, proc[w]).active
      /\ FinalizedRow(proc[w].run, proc[w]).status =
            IF proc[w].run \in proc[w].demote THEN "superseded" ELSE proc[w].result
  BY <1>1, RowFields DEF FinalizedRow, TypeInv, TypeOK
<1>7. QED
  BY <1>1, <1>3, <1>4, <1>5, <1>6 DEF CommitOutput

\* A worker that fails its run changes the status of that row only.
LEMMA FailedRows ==
    ASSUME TypeInv, NEW w \in Workers, CommitFailed(w) \/ FinalizeFailedWrite(w)
    PROVE  /\ proc[w].pc \in {"flushed", "failing"} /\ proc[w].run \in RunIds
           /\ RowFailed(proc[w].run)
           /\ \A r \in RunIds \ {proc[w].run} : RowKept(r)
           /\ Goto(w, [Idle EXCEPT !.pc = "chain", !.run = proc[w].run, !.result = "failed"])
           /\ queue' = queue
<1>1. proc[w].run \in RunIds /\ proc[w].pc \in {"flushed", "failing"}
  BY ProcTask, ProcKinds DEF CommitFailed, FinalizeFailedWrite
<1>2. runs' = [runs EXCEPT ![proc[w].run] = [runs[proc[w].run] EXCEPT !.status = "failed"]]
  BY DEF CommitFailed, FinalizeFailedWrite
<1>3. runs'[proc[w].run] = [runs[proc[w].run] EXCEPT !.status = "failed"]
  BY <1>1, <1>2 DEF TypeInv, TypeOK
<1>4. RowFailed(proc[w].run)
  BY <1>1, <1>3, RowFields DEF RowFailed, TypeInv, TypeOK
<1>5. \A r \in RunIds \ {proc[w].run} : RowKept(r)
  BY <1>2 DEF RowKept, TypeInv, TypeOK
<1>6. QED
  BY <1>1, <1>4, <1>5 DEF CommitFailed, FinalizeFailedWrite, Returned

\* The reaper fails one row that is running.
LEMMA ReapRows ==
    ASSUME TypeInv, ReapFlip
    PROVE  \A r \in RunIds : RowKept(r) \/ (runs[r].status = "running" /\ RowFailed(r))
<1>1. CASE runs' = runs
  BY <1>1 DEF RowKept
<1>2. CASE runs' # runs
  <2>1. cand \in RunIds /\ runs[cand].status = "running"
    BY <1>2 DEF ReapFlip, StillRunning, TypeInv, TypeOK
  <2>2. runs' = [runs EXCEPT ![cand] = [runs[cand] EXCEPT !.status = "failed"]]
    BY <1>2 DEF ReapFlip
  <2>3. runs'[cand] = [runs[cand] EXCEPT !.status = "failed"]
    BY <2>1, <2>2 DEF TypeInv, TypeOK
  <2>4. RowFailed(cand)
    BY <2>1, <2>3, RowFields DEF RowFailed, TypeInv, TypeOK
  <2>5. \A r \in RunIds \ {cand} : RowKept(r)
    BY <2>2 DEF RowKept, TypeInv, TypeOK
  <2>6. QED
    BY <2>1, <2>4, <2>5
<1>3. QED
  BY <1>1, <1>2

-----------------------------------------------------------------------------
(* Without redelivery of a task still executing: one delivery per run.     *)

DeliveryInv == TypeInv /\ InFlightInv /\ ActiveHasOutput

\* The initial state.
LEMMA DeliveryInit == Init => DeliveryInv
<1> SUFFICES ASSUME Init PROVE DeliveryInv
  OBVIOUS
<1>1. TypeInv /\ ProcShape
  BY TypeInit DEF TypeInv
<1>2. /\ \A p \in Procs : proc[p] = Idle
      /\ \A r \in RunIds : runs[r] = NoRow /\ queue[r] = 0
  BY DEF Init
<1>3. /\ \A p \in Procs : proc[p].pc = "idle" /\ proc[p].demote = {}
      /\ \A r \in RunIds : ~runs[r].active
  BY <1>2 DEF Idle, NoRow
<1>4. OneDelivery /\ AbsentUnused
  BY <1>2, <1>3, ProcKinds DEF OneDelivery, AbsentUnused, Orphaned, InTask, Inserted
<1>5. ExecutedInactive /\ DemotedHadOutput /\ ActiveHasOutput
  BY <1>3, ProcKinds DEF ExecutedInactive, DemotedHadOutput, ActiveHasOutput
<1>6. QED
  BY <1>1, <1>4, <1>5 DEF DeliveryInv, InFlightInv

\* No worker and no request takes up a row it did not have.
NoNewHolders ==
    /\ \A w \in Workers, r \in RunIds : InTask(w, r)' => InTask(w, r)
    /\ \A p \in Procs, r \in RunIds : Inserted(p, r)' => Inserted(p, r)

\* Such a step keeps deliveries unique and orphans orphaned.
LEMMA HoldersKept ==
    ASSUME OneDelivery, NoNewHolders, queue' = queue
    PROVE  OneDelivery' /\ \A r \in RunIds : Orphaned(r) => Orphaned(r)'
<1>1. OneDelivery'
  BY DEF OneDelivery, NoNewHolders
<1>2. \A r \in RunIds : Orphaned(r) => Orphaned(r)'
  BY DEF Orphaned, NoNewHolders
<1>3. QED
  BY <1>1, <1>2

\* A process that ends, or goes on to the chain with the row it had.
LEMMA NoNewHoldersGoto ==
    ASSUME TypeInv, NEW p \in Procs, NEW t, Goto(p, t), t.pc # "inserted",
           t.pc = "idle" \/ p \in Clients \/ (proc[p].pc # "idle" /\ t.run = proc[p].run)
    PROVE  NoNewHolders
<1>1. proc'[p] = t /\ \A q \in Procs : q # p => proc'[q] = proc[q]
  BY GotoFields
<1>2. QED
  BY <1>1, ProcKinds DEF NoNewHolders, InTask, Inserted

\* A step that moves one request or worker on.
LEMMA DeliveryLocal ==
    ASSUME DeliveryInv, NEW p \in Procs, NEW t \in Task, LocalStep(p, t)
    PROVE  OneDelivery' /\ AbsentUnused' /\ ExecutedInactive' /\ DemotedHadOutput' /\ ActiveHasOutput'
<1>0. TypeInv /\ OneDelivery /\ AbsentUnused /\ ExecutedInactive /\ DemotedHadOutput /\ ActiveHasOutput
  BY DEF DeliveryInv, InFlightInv
<1>1. proc'[p] = t /\ \A q \in Procs : q # p => proc'[q] = proc[q]
  BY <1>0, GotoFields DEF LocalStep
<1>2. NoNewHolders
  BY <1>0, NoNewHoldersGoto DEF LocalStep
<1>3. OneDelivery' /\ \A r \in RunIds : Orphaned(r) => Orphaned(r)'
  BY <1>0, <1>2, HoldersKept DEF LocalStep
<1>4. AbsentUnused' /\ ActiveHasOutput'
  BY <1>0, <1>3 DEF LocalStep, AbsentUnused, ActiveHasOutput
<1>5. ExecutedInactive'
  BY <1>0, <1>1, ProcKinds DEF LocalStep, ExecutedInactive, Exec
<1>6. DemotedHadOutput'
  <2>0. runs' = runs
    BY DEF LocalStep
  <2>1. ASSUME NEW q \in Procs, NEW r \in proc'[q].demote, q # p
        PROVE  /\ runs[r].status \in OutputStatus \cup {"superseded"}
               /\ proc'[q].pc = "reusing" => runs[r].loop = 1
               /\ proc'[q].pc = "flushed" => runs[r].loop >= runs[proc'[q].run].loop
    BY <1>0, <1>1, <2>1 DEF DemotedHadOutput
  <2>2. ASSUME NEW r \in t.demote
        PROVE  /\ runs[r].status \in OutputStatus \cup {"superseded"}
               /\ t.pc = "reusing" => runs[r].loop = 1
               /\ t.pc = "flushed" => runs[r].loop >= runs[t.run].loop
    <3>0. r \in RunIds
      BY TaskFields
    <3>1. CASE t.demote \subseteq proc[p].demote /\ t.pc \notin {"reusing", "flushed"}
      BY <1>0, <3>1 DEF DemotedHadOutput
    <3>2. CASE t.demote \subseteq ActiveRuns(1) /\ t.pc = "reusing"
      BY <1>0, <3>0, <3>2 DEF ActiveRuns, ActiveHasOutput
    <3>3. CASE t.pc = "flushed" /\ \A k \in t.demote : runs[k].active /\ runs[k].loop >= runs[t.run].loop
      BY <1>0, <3>0, <3>3 DEF ActiveHasOutput
    <3>4. QED
      BY <3>1, <3>2, <3>3 DEF LocalStep
  <2>3. QED
    BY <1>1, <2>0, <2>1, <2>2 DEF DemotedHadOutput
<1>7. QED
  BY <1>3, <1>4, <1>5, <1>6

\* Rows in the hands of a worker or about to be demoted exist, and no row is
\* both.
LEMMA RowsApart ==
    ASSUME DeliveryInv
    PROVE  /\ \A w \in Workers : proc[w].pc # "idle" => runs[proc[w].run].status # "absent"
           /\ \A p \in Procs : \A r \in proc[p].demote : runs[r].status # "absent"
           /\ \A w \in Workers, p \in Procs : proc[w].pc \in Exec => proc[w].run \notin proc[p].demote
           /\ \A v, w \in Workers :
                 /\ proc[v].pc # "idle" /\ proc[w].pc # "idle" /\ proc[v].run = proc[w].run
                 => v = w
<1>0. TypeInv /\ OneDelivery /\ AbsentUnused /\ ExecutedInactive /\ DemotedHadOutput
  BY DEF DeliveryInv, InFlightInv
<1>1. \A w \in Workers : proc[w].pc # "idle" => proc[w].run \in RunIds /\ InTask(w, proc[w].run)
  BY <1>0, ProcTask, ProcKinds DEF InTask
<1>2. \A w \in Workers : proc[w].pc # "idle" => runs[proc[w].run].status # "absent"
  BY <1>0, <1>1 DEF AbsentUnused, Orphaned
<1>3. \A p \in Procs : \A r \in proc[p].demote : runs[r].status # "absent"
  BY <1>0 DEF DemotedHadOutput, OutputStatus
<1>4. \A w \in Workers, p \in Procs : proc[w].pc \in Exec => proc[w].run \notin proc[p].demote
  BY <1>0 DEF ExecutedInactive, DemotedHadOutput, Exec, OutputStatus
<1>5. \A v, w \in Workers :
          /\ proc[v].pc # "idle" /\ proc[w].pc # "idle" /\ proc[v].run = proc[w].run
          => v = w
  BY <1>0, <1>1 DEF OneDelivery
<1>6. QED
  BY <1>2, <1>3, <1>4, <1>5

\* A step that ends one transaction: what it may do to the rows.
LEMMA DeliveryRows ==
    ASSUME DeliveryInv, queue' = queue, NoNewHolders,
           \A q \in Procs : \/ proc'[q] = proc[q]
                            \/ proc'[q].pc \notin Exec \cup {"reusing"} /\ proc'[q].demote = {},
           \A r \in RunIds : runs'[r].status = "absent" => RowKept(r),
           \A r \in RunIds : runs'[r].active => RowKept(r) \/ runs'[r].status \in OutputStatus,
           \A w \in Workers : proc'[w].pc \in Exec => RowKept(proc[w].run) \/ RowFailed(proc[w].run),
           \A q \in Procs : \A r \in proc'[q].demote : RowKept(r) \/ RowDemoted(r)
    PROVE  OneDelivery' /\ AbsentUnused' /\ ExecutedInactive' /\ DemotedHadOutput' /\ ActiveHasOutput'
<1>0. /\ TypeInv /\ OneDelivery /\ AbsentUnused /\ ExecutedInactive /\ DemotedHadOutput
      /\ ActiveHasOutput /\ ProcShape
  BY DEF DeliveryInv, InFlightInv
<1>1. OneDelivery' /\ \A r \in RunIds : Orphaned(r) => Orphaned(r)'
  BY <1>0, HoldersKept
<1>2. AbsentUnused'
  BY <1>0, <1>1 DEF AbsentUnused, RowKept
<1>3. ActiveHasOutput'
  BY <1>0 DEF ActiveHasOutput, RowKept
<1>4. ExecutedInactive'
  <2> SUFFICES ASSUME NEW w \in Workers, proc'[w].pc \in Exec
               PROVE  /\ ~runs'[proc'[w].run].active
                      /\ runs'[proc'[w].run].status \in {"running", "failed"}
    BY DEF ExecutedInactive, Exec
  <2>1. proc'[w] = proc[w]
    BY ProcKinds
  <2>2. ~runs[proc[w].run].active /\ runs[proc[w].run].status \in {"running", "failed"}
    BY <1>0, <2>1 DEF ExecutedInactive, Exec
  <2>3. QED
    BY <2>1, <2>2 DEF RowKept, RowFailed
<1>5. DemotedHadOutput'
  <2> SUFFICES ASSUME NEW q \in Procs, NEW r \in proc'[q].demote
               PROVE  /\ runs'[r].status \in OutputStatus \cup {"superseded"}
                      /\ proc'[q].pc = "reusing" => runs'[r].loop = 1
                      /\ proc'[q].pc = "flushed" => runs'[r].loop >= runs'[proc'[q].run].loop
    BY DEF DemotedHadOutput
  <2>1. proc'[q] = proc[q]
    OBVIOUS
  <2>2. /\ runs[r].status \in OutputStatus \cup {"superseded"}
        /\ proc[q].pc = "reusing" => runs[r].loop = 1
        /\ proc[q].pc = "flushed" => runs[r].loop >= runs[proc[q].run].loop
    BY <1>0, <2>1 DEF DemotedHadOutput
  <2>3. proc[q].pc = "flushed" => q \in Workers
    BY <1>0 DEF ProcShape, Procs
  <2>4. proc[q].pc = "flushed" => runs'[proc[q].run].loop = runs[proc[q].run].loop
    BY <2>1, <2>3 DEF Exec, RowKept, RowFailed
  <2>5. runs'[r].loop = runs[r].loop /\ runs'[r].status \in {runs[r].status, "superseded"}
    BY DEF RowKept, RowDemoted
  <2>6. QED
    BY <2>1, <2>2, <2>4, <2>5
<1>6. QED
  BY <1>1, <1>2, <1>3, <1>4, <1>5

\* use_as_start's commit.
LEMMA DeliveryReuse ==
    ASSUME DeliveryInv, NEW c \in Clients, ReuseCommit(c)
    PROVE  OneDelivery' /\ AbsentUnused' /\ ExecutedInactive' /\ DemotedHadOutput' /\ ActiveHasOutput'
<1>0. TypeInv /\ AbsentUnused
  BY DEF DeliveryInv, InFlightInv
<1>1. proc'[c] = Idle /\ \A q \in Procs : q # c => proc'[q] = proc[q]
  BY <1>0, GotoFields, ProcKinds DEF ReuseCommit
<1>2. NoNewHolders
  BY <1>0, NoNewHoldersGoto, ProcKinds DEF ReuseCommit, Idle
<1>3. Idle.pc \notin Exec \cup {"reusing"} /\ Idle.demote = {}
  BY DEF Idle, Exec
<1>4. queue' = queue
  BY DEF ReuseCommit
<1>5. CASE runs' = runs
  <2>1. \A r : RowKept(r)
    BY <1>5 DEF RowKept
  <2>2. QED
    BY <1>1, <1>2, <1>3, <1>4, <2>1, DeliveryRows
<1>6. CASE runs' # runs
  <2>1. PICK new \in RunIds :
              /\ runs[new].status = "absent"
              /\ runs'[new] = ImportedRun(proc[c].ver)
              /\ \A q \in RunIds \ {new} : \/ q \in proc[c].demote /\ RowDemoted(q)
                                           \/ q \notin proc[c].demote /\ RowKept(q)
    BY <1>0, <1>6, ReuseRows DEF IsFresh
  <2>2. runs'[new].status = "succeeded"
    BY <2>1, NewRowFields
  <2>3. \A r \in RunIds : runs'[r].status = "absent" => RowKept(r)
    BY <2>1, <2>2 DEF RowDemoted
  <2>4. \A r \in RunIds : runs'[r].active => RowKept(r) \/ runs'[r].status \in OutputStatus
    BY <2>1, <2>2 DEF RowDemoted, OutputStatus
  <2>5. \A w \in Workers : proc[w].pc \in Exec => RowKept(proc[w].run)
    <3>1. ASSUME NEW w \in Workers, proc[w].pc \in Exec PROVE RowKept(proc[w].run)
      <4>1. proc[w].pc # "idle" /\ proc[w].run \in RunIds
        BY <1>0, <3>1, ProcTask, ProcKinds DEF Exec
      <4>2. runs[proc[w].run].status # "absent" /\ proc[w].run \notin proc[c].demote
        BY <3>1, <4>1, RowsApart, ProcKinds
      <4>3. QED
        BY <2>1, <4>1, <4>2
    <3>2. QED
      BY <3>1
  <2>6. \A q \in Procs : \A r \in proc[q].demote : RowKept(r) \/ RowDemoted(r)
    <3>1. ASSUME NEW q \in Procs, NEW r \in proc[q].demote PROVE RowKept(r) \/ RowDemoted(r)
      <4>1. r \in RunIds
        BY <1>0, ProcTask, TaskFields
      <4>2. r # new
        BY <2>1, RowsApart
      <4>3. QED
        BY <2>1, <4>1, <4>2
    <3>2. QED
      BY <3>1
  <2>7. QED
    BY <1>1, <1>2, <1>3, <1>4, <2>3, <2>4, <2>5, <2>6, ProcKinds, DeliveryRows
<1>7. QED
  BY <1>5, <1>6

\* A worker's commit of an output.
LEMMA DeliveryOutput ==
    ASSUME DeliveryInv, NEW w \in Workers, CommitOutput(w)
    PROVE  OneDelivery' /\ AbsentUnused' /\ ExecutedInactive' /\ DemotedHadOutput' /\ ActiveHasOutput'
<1> DEFINE k == proc[w].run
           t == [Idle EXCEPT !.pc = "chain", !.run = k, !.result = FinalizedRow(k, proc[w]).status]
<1>0. TypeInv
  BY DEF DeliveryInv
<1>1. /\ proc[w].pc = "flushed" /\ k \in RunIds /\ proc[w].result \in OutputStatus
      /\ \A r \in RunIds \ {k} : \/ r \in proc[w].demote /\ RowDemoted(r)
                                 \/ r \notin proc[w].demote /\ RowKept(r)
  BY <1>0, OutputRows
<1>2. k \notin proc[w].demote
  BY <1>1, RowsApart, ProcKinds DEF Exec
<1>3. runs'[k].status \in OutputStatus
  BY <1>0, <1>1, <1>2, OutputRows
<1>4. t.pc = "chain" /\ t.run = k /\ t.demote = {}
  BY DEF Idle
<1>5. Goto(w, t)
  BY DEF CommitOutput, Returned
<1>6. proc'[w] = t /\ \A q \in Procs : q # w => proc'[q] = proc[q]
  BY <1>0, <1>5, GotoFields, ProcKinds
<1>7. NoNewHolders
  BY <1>0, <1>1, <1>4, <1>5, NoNewHoldersGoto, ProcKinds
<1>8. \A v \in Workers : proc'[v].pc \in Exec => RowKept(proc[v].run)
  <2>1. ASSUME NEW v \in Workers, proc'[v].pc \in Exec PROVE RowKept(proc[v].run)
    <3>1. v # w /\ proc[v].pc \in Exec
      BY <1>4, <1>6, <2>1, ProcKinds DEF Exec
    <3>2. proc[v].run \in RunIds
      BY <1>0, <3>1, ProcTask, ProcKinds DEF Exec
    <3>3. proc[v].run # k /\ proc[v].run \notin proc[w].demote
      BY <1>1, <3>1, RowsApart, ProcKinds DEF Exec
    <3>4. QED
      BY <1>1, <3>2, <3>3
  <2>2. QED
    BY <2>1
<1>9. \A q \in Procs : \A r \in proc'[q].demote : RowKept(r) \/ RowDemoted(r)
  <2>1. ASSUME NEW q \in Procs, NEW r \in proc'[q].demote PROVE RowKept(r) \/ RowDemoted(r)
    <3>1. r \in proc[q].demote
      BY <1>4, <1>6
    <3>2. r \in RunIds
      BY <1>0, <3>1, ProcTask, TaskFields
    <3>3. r # k
      BY <1>1, <3>1, RowsApart DEF Exec
    <3>4. QED
      BY <1>1, <3>2, <3>3
  <2>2. QED
    BY <2>1
<1>10. \A r \in RunIds : runs'[r].status = "absent" => RowKept(r)
  BY <1>1, <1>3 DEF RowDemoted, OutputStatus
<1>11. \A r \in RunIds : runs'[r].active => RowKept(r) \/ runs'[r].status \in OutputStatus
  BY <1>1, <1>3 DEF RowDemoted
<1>12. \A q \in Procs : \/ proc'[q] = proc[q]
                        \/ proc'[q].pc \notin Exec \cup {"reusing"} /\ proc'[q].demote = {}
  BY <1>4, <1>6 DEF Exec
<1>13. queue' = queue
  BY DEF CommitOutput
<1>14. QED
  BY <1>7, <1>8, <1>9, <1>10, <1>11, <1>12, <1>13, DeliveryRows

\* A worker that fails its run.
LEMMA DeliveryFailed ==
    ASSUME DeliveryInv, NEW w \in Workers, CommitFailed(w) \/ FinalizeFailedWrite(w)
    PROVE  OneDelivery' /\ AbsentUnused' /\ ExecutedInactive' /\ DemotedHadOutput' /\ ActiveHasOutput'
<1> DEFINE k == proc[w].run
           t == [Idle EXCEPT !.pc = "chain", !.run = k, !.result = "failed"]
<1>0. TypeInv /\ ExecutedInactive
  BY DEF DeliveryInv, InFlightInv
<1>1. /\ proc[w].pc \in {"flushed", "failing"} /\ k \in RunIds /\ RowFailed(k)
      /\ \A r \in RunIds \ {k} : RowKept(r)
      /\ Goto(w, t) /\ queue' = queue
  BY <1>0, FailedRows
<1>2. ~runs'[k].active /\ runs'[k].status = "failed"
  BY <1>0, <1>1 DEF ExecutedInactive, RowFailed
<1>3. t.pc = "chain" /\ t.run = k /\ t.demote = {}
  BY DEF Idle
<1>4. proc'[w] = t /\ \A q \in Procs : q # w => proc'[q] = proc[q]
  BY <1>0, <1>1, GotoFields, ProcKinds
<1>5. NoNewHolders
  BY <1>0, <1>1, <1>3, NoNewHoldersGoto, ProcKinds
<1>6. \A v \in Workers : proc'[v].pc \in Exec => RowKept(proc[v].run) \/ RowFailed(proc[v].run)
  <2>1. ASSUME NEW v \in Workers, proc'[v].pc \in Exec
        PROVE RowKept(proc[v].run) \/ RowFailed(proc[v].run)
    <3>1. v # w /\ proc[v].pc \in Exec
      BY <1>3, <1>4, <2>1, ProcKinds DEF Exec
    <3>2. proc[v].run \in RunIds
      BY <1>0, <3>1, ProcTask, ProcKinds DEF Exec
    <3>3. QED
      BY <1>1, <3>2
  <2>2. QED
    BY <2>1
<1>7. \A q \in Procs : \A r \in proc'[q].demote : RowKept(r) \/ RowDemoted(r)
  <2>1. ASSUME NEW q \in Procs, NEW r \in proc'[q].demote PROVE RowKept(r)
    <3>1. r \in proc[q].demote
      BY <1>3, <1>4
    <3>2. r \in RunIds
      BY <1>0, <3>1, ProcTask, TaskFields
    <3>3. r # k
      BY <1>1, <3>1, RowsApart DEF Exec
    <3>4. QED
      BY <1>1, <3>2, <3>3
  <2>2. QED
    BY <2>1
<1>8. \A r \in RunIds : runs'[r].status = "absent" => RowKept(r)
  BY <1>1, <1>2
<1>9. \A r \in RunIds : runs'[r].active => RowKept(r) \/ runs'[r].status \in OutputStatus
  BY <1>1, <1>2
<1>10. \A q \in Procs : \/ proc'[q] = proc[q]
                        \/ proc'[q].pc \notin Exec \cup {"reusing"} /\ proc'[q].demote = {}
  BY <1>3, <1>4 DEF Exec
<1>11. QED
  BY <1>1, <1>5, <1>6, <1>7, <1>8, <1>9, <1>10, DeliveryRows

\* The reaper's conditional UPDATE.
LEMMA DeliveryReap ==
    ASSUME DeliveryInv, ReapFlip
    PROVE  OneDelivery' /\ AbsentUnused' /\ ExecutedInactive' /\ DemotedHadOutput' /\ ActiveHasOutput'
<1>0. TypeInv /\ ActiveHasOutput /\ DemotedHadOutput
  BY DEF DeliveryInv, InFlightInv
<1>1. \A r \in RunIds : RowKept(r) \/ (runs[r].status = "running" /\ RowFailed(r))
  BY <1>0, ReapRows
<1>2. proc' = proc /\ queue' = queue
  BY DEF ReapFlip
<1>3. NoNewHolders
  BY <1>2 DEF NoNewHolders, InTask, Inserted
<1>4. \A r \in RunIds : runs'[r].status = "absent" => RowKept(r)
  BY <1>1 DEF RowFailed
<1>5. \A r \in RunIds : runs'[r].active => RowKept(r) \/ runs'[r].status \in OutputStatus
  BY <1>0, <1>1 DEF RowFailed, ActiveHasOutput, OutputStatus
<1>6. \A w \in Workers : proc'[w].pc \in Exec => RowKept(proc[w].run) \/ RowFailed(proc[w].run)
  BY <1>0, <1>1, <1>2, ProcTask, ProcKinds DEF Exec
<1>7. \A q \in Procs : \A r \in proc'[q].demote : RowKept(r) \/ RowDemoted(r)
  <2>1. ASSUME NEW q \in Procs, NEW r \in proc[q].demote PROVE RowKept(r)
    <3>1. r \in RunIds
      BY <1>0, ProcTask, TaskFields
    <3>2. runs[r].status # "running"
      BY <1>0 DEF DemotedHadOutput, OutputStatus
    <3>3. QED
      BY <1>1, <3>1, <3>2
  <2>2. QED
    BY <1>2, <2>1
<1>8. \A q \in Procs : proc'[q] = proc[q]
  BY <1>2
<1>9. QED
  BY <1>2, <1>3, <1>4, <1>5, <1>6, <1>7, <1>8, DeliveryRows

\* begin_run's insert: the fresh row is nobody else's.
LEMMA DeliveryInsert ==
    ASSUME DeliveryInv, NEW p \in Procs, InsertRun(p)
    PROVE  OneDelivery' /\ AbsentUnused' /\ ExecutedInactive' /\ DemotedHadOutput' /\ ActiveHasOutput'
<1>0. /\ TypeInv /\ OneDelivery /\ AbsentUnused /\ ExecutedInactive /\ DemotedHadOutput
      /\ ActiveHasOutput /\ ProcShape
  BY DEF DeliveryInv, InFlightInv
<1>1. PICK k \in RunIds :
          /\ runs[k].status = "absent"
          /\ runs'[k] = NewRun(proc[p].loop, proc[p].ver, proc[p].over)
          /\ \A s \in RunIds : s # k => RowKept(s)
          /\ Goto(p, [proc[p] EXCEPT !.pc = "inserted", !.new = k])
  BY <1>0, InsertRows DEF IsFresh
<1> DEFINE t == [proc[p] EXCEPT !.pc = "inserted", !.new = k]
<1>2. runs'[k].status = "running" /\ ~runs'[k].active
  BY <1>1, NewRowFields
<1>3. proc'[p] = t /\ \A q \in Procs : q # p => proc'[q] = proc[q]
  BY <1>0, <1>1, GotoFields
<1>4. t.pc = "inserted" /\ t.new = k /\ t.run = proc[p].run /\ t.demote = proc[p].demote
  <2>1. proc[p] \in Task
    BY <1>0, ProcTask
  <2>2. QED
    BY <2>1 DEF Task
<1>5. proc[p].pc = "versioned" /\ queue' = queue
  BY DEF InsertRun
<1>6. \A v \in Workers, r \in RunIds : InTask(v, r)' <=> InTask(v, r)
  BY <1>3, <1>4, <1>5, ProcKinds DEF InTask
<1>7. \A q \in Procs, r \in RunIds : Inserted(q, r)' <=> (IF q = p THEN r = k ELSE Inserted(q, r))
  BY <1>3, <1>4 DEF Inserted
<1>8. ~Inserted(p, k) /\ Orphaned(k)
  BY <1>0, <1>1, <1>5 DEF Inserted, AbsentUnused
<1>9. OneDelivery'
  <2>1. \A r \in RunIds : queue'[r] <= 1
    BY <1>0, <1>5 DEF OneDelivery
  <2>2. \A r \in RunIds, w \in Workers :
          InTask(w, r)' => queue'[r] = 0 /\ \A v \in Workers : InTask(v, r)' => v = w
    BY <1>0, <1>5, <1>6 DEF OneDelivery
  <2>3. ASSUME NEW r \in RunIds, NEW q \in Procs, Inserted(q, r)'
        PROVE  /\ queue'[r] = 0
               /\ \A w \in Workers : ~InTask(w, r)'
               /\ \A o \in Procs : Inserted(o, r)' => o = q
    <3>1. CASE r = k
      BY <1>5, <1>6, <1>7, <1>8, <2>3, <3>1 DEF Orphaned
    <3>2. CASE r # k
      BY <1>0, <1>5, <1>6, <1>7, <2>3, <3>2 DEF OneDelivery
    <3>3. QED
      BY <3>1, <3>2
  <2>4. QED
    BY <2>1, <2>2, <2>3 DEF OneDelivery
<1>10. AbsentUnused'
  <2> SUFFICES ASSUME NEW r \in RunIds, runs'[r].status = "absent"
               PROVE  ~runs'[r].active /\ Orphaned(r)'
    BY DEF AbsentUnused
  <2>1. r # k /\ runs'[r] = runs[r]
    BY <1>1, <1>2 DEF RowKept
  <2>2. ~runs[r].active /\ Orphaned(r)
    BY <1>0, <2>1 DEF AbsentUnused
  <2>3. QED
    BY <1>5, <1>6, <1>7, <2>1, <2>2 DEF Orphaned
<1>11. ExecutedInactive'
  <2> SUFFICES ASSUME NEW w \in Workers, proc'[w].pc \in Exec
               PROVE  /\ ~runs'[proc'[w].run].active
                      /\ runs'[proc'[w].run].status \in {"running", "failed"}
    BY DEF ExecutedInactive, Exec
  <2>1. proc'[w] = proc[w] /\ proc[w].pc \in Exec
    BY <1>3, <1>4, ProcKinds DEF Exec
  <2>2. proc[w].run \in RunIds /\ proc[w].run # k
    BY <1>0, <1>1, <2>1, ProcTask, RowsApart, ProcKinds DEF Exec
  <2>3. ~runs[proc[w].run].active /\ runs[proc[w].run].status \in {"running", "failed"}
    BY <1>0, <2>1 DEF ExecutedInactive, Exec
  <2>4. QED
    BY <1>1, <2>1, <2>2, <2>3 DEF RowKept
<1>12. DemotedHadOutput'
  <2> SUFFICES ASSUME NEW q \in Procs, NEW r \in proc'[q].demote
               PROVE  /\ runs'[r].status \in OutputStatus \cup {"superseded"}
                      /\ proc'[q].pc = "reusing" => runs'[r].loop = 1
                      /\ proc'[q].pc = "flushed" => runs'[r].loop >= runs'[proc'[q].run].loop
    BY DEF DemotedHadOutput
  <2>1. r \in proc[q].demote
    BY <1>3, <1>4
  <2>2. r \in RunIds /\ r # k
    BY <1>0, <1>1, <2>1, ProcTask, TaskFields, RowsApart
  <2>3. runs'[r] = runs[r]
    BY <1>1, <2>2 DEF RowKept
  <2>4. proc'[q].pc \in {"reusing", "flushed"} => proc'[q] = proc[q]
    BY <1>3, <1>4
  <2>5. ASSUME proc[q].pc = "flushed" PROVE runs'[proc[q].run] = runs[proc[q].run]
    <3>1. q \in Workers
      BY <1>0, <2>5 DEF ProcShape, Procs
    <3>2. proc[q].run \in RunIds /\ proc[q].run # k
      BY <1>0, <1>1, <2>5, <3>1, ProcTask, RowsApart
    <3>3. QED
      BY <1>1, <3>2 DEF RowKept
  <2>6. /\ runs[r].status \in OutputStatus \cup {"superseded"}
        /\ proc[q].pc = "reusing" => runs[r].loop = 1
        /\ proc[q].pc = "flushed" => runs[r].loop >= runs[proc[q].run].loop
    BY <1>0, <2>1 DEF DemotedHadOutput
  <2>7. QED
    BY <2>3, <2>4, <2>5, <2>6
<1>13. ActiveHasOutput'
  BY <1>0, <1>1, <1>2 DEF ActiveHasOutput, RowKept
<1>14. QED
  BY <1>9, <1>10, <1>11, <1>12, <1>13

\* A step that does not write rows, and leaves nobody with rows to demote
\* that he did not have.
LEMMA DeliveryNoRows ==
    ASSUME DeliveryInv, runs' = runs,
           \A q \in Procs : \/ proc'[q] = proc[q]
                            \/ /\ proc'[q].pc \notin {"reusing", "flushed"}
                               /\ proc'[q].demote = {}
    PROVE  DemotedHadOutput' /\ ActiveHasOutput'
  BY DEF DeliveryInv, InFlightInv, DemotedHadOutput, ActiveHasOutput

\* .delay(): the row's only delivery enters the broker.
LEMMA DeliveryEnqueue ==
    ASSUME DeliveryInv, NEW p \in Procs, Enqueue(p)
    PROVE  OneDelivery' /\ AbsentUnused' /\ ExecutedInactive' /\ DemotedHadOutput' /\ ActiveHasOutput'
<1> DEFINE k == proc[p].new
<1>0. /\ TypeInv /\ OneDelivery /\ AbsentUnused /\ ExecutedInactive /\ ProcShape
  BY DEF DeliveryInv, InFlightInv
<1>1. k \in RunIds /\ Inserted(p, k)
  BY <1>0, ProcTask, TaskFields DEF Enqueue, TaskShape, Inserted
<1>2. proc'[p] = Idle /\ \A q \in Procs : q # p => proc'[q] = proc[q]
  BY <1>0, GotoFields DEF Enqueue
<1>3. Idle.pc = "idle" /\ Idle.demote = {}
  BY DEF Idle
<1>4. \A v \in Workers, r \in RunIds : InTask(v, r)' => InTask(v, r)
  BY <1>2, <1>3, ProcKinds DEF InTask
<1>5. \A q \in Procs, r \in RunIds : Inserted(q, r)' => Inserted(q, r) /\ q # p
  BY <1>2, <1>3 DEF Inserted
<1>6. queue'[k] = queue[k] + 1 /\ \A r \in RunIds \ {k} : queue'[r] = queue[r]
  BY <1>0, <1>1 DEF Enqueue, TypeInv, TypeOK
<1>7. /\ queue[k] = 0 /\ \A w \in Workers : ~InTask(w, k)
      /\ \A q \in Procs : Inserted(q, k) => q = p
  BY <1>0, <1>1 DEF OneDelivery
<1>8. OneDelivery'
  <2>1. \A r \in RunIds : queue'[r] <= 1
    BY <1>0, <1>6, <1>7 DEF OneDelivery
  <2>2. \A r \in RunIds, w \in Workers :
          InTask(w, r)' => queue'[r] = 0 /\ \A v \in Workers : InTask(v, r)' => v = w
    BY <1>0, <1>4, <1>6, <1>7 DEF OneDelivery
  <2>3. \A r \in RunIds, q \in Procs :
          Inserted(q, r)' => /\ queue'[r] = 0
                             /\ \A w \in Workers : ~InTask(w, r)'
                             /\ \A o \in Procs : Inserted(o, r)' => o = q
    BY <1>0, <1>4, <1>5, <1>6, <1>7 DEF OneDelivery
  <2>4. QED
    BY <2>1, <2>2, <2>3 DEF OneDelivery
<1>9. runs' = runs
  BY DEF Enqueue
<1>10. AbsentUnused'
  <2> SUFFICES ASSUME NEW r \in RunIds, runs[r].status = "absent"
               PROVE  ~runs[r].active /\ Orphaned(r)'
    BY <1>9 DEF AbsentUnused
  <2>1. ~runs[r].active /\ Orphaned(r)
    BY <1>0 DEF AbsentUnused
  <2>2. r # k
    BY <1>1, <2>1 DEF Orphaned
  <2>3. QED
    BY <1>4, <1>5, <1>6, <2>1, <2>2 DEF Orphaned
<1>11. ExecutedInactive'
  BY <1>0, <1>2, <1>3, <1>9, ProcKinds DEF ExecutedInactive
<1>12. DemotedHadOutput' /\ ActiveHasOutput'
  BY <1>2, <1>3, <1>9, DeliveryNoRows
<1>13. QED
  BY <1>8, <1>10, <1>11, <1>12

\* A worker takes the row's only delivery.
LEMMA DeliveryStart ==
    ASSUME DeliveryInv, NEW w \in Workers, NEW k \in RunIds, StartRun(w, k)
    PROVE  OneDelivery' /\ AbsentUnused' /\ ExecutedInactive' /\ DemotedHadOutput' /\ ActiveHasOutput'
<1> DEFINE t1 == [Idle EXCEPT !.pc = "loop", !.run = k, !.cur = state,
                              !.ready = HasInput(runs[k].loop)]
           t2 == [Idle EXCEPT !.pc = "chain", !.run = k, !.result = runs[k].status]
<1>0. /\ TypeInv /\ OneDelivery /\ AbsentUnused /\ ExecutedInactive /\ ActiveHasOutput
  BY DEF DeliveryInv, InFlightInv
<1>1. (runs[k].status = "running" /\ Goto(w, t1)) \/ Goto(w, t2)
  BY DEF StartRun, Executable
<1>2. \A q \in Procs : q # w => proc'[q] = proc[q]
  BY <1>0, <1>1, GotoFields, ProcKinds
<1>3. /\ proc'[w].run = k /\ proc'[w].demote = {}
      /\ proc'[w].pc = "chain" \/ (proc'[w].pc = "loop" /\ runs[k].status = "running")
  <2>1. t1.pc = "loop" /\ t1.run = k /\ t1.demote = {} /\ t2.pc = "chain" /\ t2.run = k /\ t2.demote = {}
    BY DEF Idle
  <2>2. (proc'[w] = t1 /\ runs[k].status = "running") \/ proc'[w] = t2
    BY <1>0, <1>1, GotoFields, ProcKinds
  <2>3. QED
    BY <2>1, <2>2
<1>4. proc[w].pc = "idle" /\ queue[k] > 0 /\ runs' = runs
  BY DEF StartRun
<1>5. queue[k] = 1 /\ queue'[k] = 0 /\ \A r \in RunIds \ {k} : queue'[r] = queue[r]
  BY <1>0, <1>4 DEF StartRun, TypeInv, TypeOK, OneDelivery
<1>6. \A v \in Workers, r \in RunIds : InTask(v, r)' => IF v = w THEN r = k ELSE InTask(v, r)
  BY <1>2, <1>3, ProcKinds DEF InTask
<1>7. \A q \in Procs, r \in RunIds : Inserted(q, r)' => Inserted(q, r)
  BY <1>2, <1>3 DEF Inserted
<1>8. (\A v \in Workers : ~InTask(v, k)) /\ (\A q \in Procs : ~Inserted(q, k))
  BY <1>0, <1>5 DEF OneDelivery
<1>9. OneDelivery'
  <2>1. \A r \in RunIds : queue'[r] <= 1
    BY <1>0, <1>5 DEF OneDelivery
  <2>2. \A r \in RunIds, u \in Workers :
          InTask(u, r)' => queue'[r] = 0 /\ \A v \in Workers : InTask(v, r)' => v = u
    BY <1>0, <1>5, <1>6, <1>8 DEF OneDelivery
  <2>3. \A r \in RunIds, q \in Procs :
          Inserted(q, r)' => /\ queue'[r] = 0
                             /\ \A v \in Workers : ~InTask(v, r)'
                             /\ \A o \in Procs : Inserted(o, r)' => o = q
    BY <1>0, <1>5, <1>6, <1>7, <1>8 DEF OneDelivery
  <2>4. QED
    BY <2>1, <2>2, <2>3 DEF OneDelivery
<1>10. AbsentUnused'
  <2> SUFFICES ASSUME NEW r \in RunIds, runs[r].status = "absent"
               PROVE  ~runs[r].active /\ Orphaned(r)'
    BY <1>4 DEF AbsentUnused
  <2>1. ~runs[r].active /\ Orphaned(r)
    BY <1>0 DEF AbsentUnused
  <2>2. r # k
    BY <1>5, <2>1 DEF Orphaned
  <2>3. QED
    BY <1>5, <1>6, <1>7, <2>1, <2>2 DEF Orphaned
<1>11. ExecutedInactive'
  <2>1. runs[k].status = "running" => ~runs[k].active
    BY <1>0 DEF ActiveHasOutput, OutputStatus
  <2>2. \A v \in Workers : v # w => proc'[v] = proc[v]
    BY <1>2, ProcKinds
  <2>3. QED
    BY <1>0, <1>3, <1>4, <2>1, <2>2 DEF ExecutedInactive
<1>12. DemotedHadOutput' /\ ActiveHasOutput'
  BY <1>2, <1>3, <1>4, DeliveryNoRows
<1>13. QED
  BY <1>9, <1>10, <1>11, <1>12

\* A worker is lost: the delivery it held is the only one and returns.
LEMMA DeliveryCrash ==
    ASSUME DeliveryInv, NEW w \in Workers, Crash(w)
    PROVE  OneDelivery' /\ AbsentUnused' /\ ExecutedInactive' /\ DemotedHadOutput' /\ ActiveHasOutput'
<1> DEFINE k == proc[w].run
<1>0. TypeInv /\ OneDelivery /\ AbsentUnused /\ ExecutedInactive
  BY DEF DeliveryInv, InFlightInv
<1>1. k \in RunIds /\ InTask(w, k) /\ runs' = runs
  BY <1>0, ProcTask, ProcKinds DEF Crash, InTask
<1>2. proc'[w] = Idle /\ \A q \in Procs : q # w => proc'[q] = proc[q]
  BY <1>0, GotoFields, ProcKinds DEF Crash
<1>3. Idle.pc = "idle" /\ Idle.demote = {}
  BY DEF Idle
<1>4. \A v \in Workers, r \in RunIds : InTask(v, r)' => InTask(v, r) /\ v # w
  BY <1>2, <1>3, ProcKinds DEF InTask
<1>5. \A q \in Procs, r \in RunIds : Inserted(q, r)' => Inserted(q, r)
  BY <1>2, <1>3 DEF Inserted
<1>6. queue'[k] = queue[k] + 1 /\ \A r \in RunIds \ {k} : queue'[r] = queue[r]
  BY <1>0, <1>1 DEF Crash, Requeued, TypeInv, TypeOK
<1>7. /\ queue[k] = 0 /\ \A v \in Workers : InTask(v, k) => v = w
      /\ \A q \in Procs : ~Inserted(q, k)
  BY <1>0, <1>1 DEF OneDelivery
<1>8. OneDelivery'
  <2>1. \A r \in RunIds : queue'[r] <= 1
    BY <1>0, <1>6, <1>7 DEF OneDelivery
  <2>2. \A r \in RunIds, u \in Workers :
          InTask(u, r)' => queue'[r] = 0 /\ \A v \in Workers : InTask(v, r)' => v = u
    BY <1>0, <1>4, <1>6, <1>7 DEF OneDelivery
  <2>3. \A r \in RunIds, q \in Procs :
          Inserted(q, r)' => /\ queue'[r] = 0
                             /\ \A v \in Workers : ~InTask(v, r)'
                             /\ \A o \in Procs : Inserted(o, r)' => o = q
    BY <1>0, <1>4, <1>5, <1>6, <1>7 DEF OneDelivery
  <2>4. QED
    BY <2>1, <2>2, <2>3 DEF OneDelivery
<1>9. AbsentUnused'
  <2> SUFFICES ASSUME NEW r \in RunIds, runs[r].status = "absent"
               PROVE  ~runs[r].active /\ Orphaned(r)'
    BY <1>1 DEF AbsentUnused
  <2>1. ~runs[r].active /\ Orphaned(r)
    BY <1>0 DEF AbsentUnused
  <2>2. r # k
    BY <1>1, <2>1 DEF Orphaned
  <2>3. QED
    BY <1>4, <1>5, <1>6, <2>1, <2>2 DEF Orphaned
<1>10. ExecutedInactive'
  BY <1>0, <1>1, <1>2, <1>3, ProcKinds DEF ExecutedInactive
<1>11. DemotedHadOutput' /\ ActiveHasOutput'
  BY <1>1, <1>2, <1>3, DeliveryNoRows
<1>12. QED
  BY <1>8, <1>9, <1>10, <1>11

\* Every step of a system that does not redeliver executing tasks.
LEMMA DeliveryNext ==
    ASSUME MaxRedeliver = 0
    PROVE  DeliveryInv /\ [Next]_vars => DeliveryInv'
<1> SUFFICES ASSUME DeliveryInv, [Next]_vars PROVE DeliveryInv'
  OBVIOUS
<1> DEFINE Kept == OneDelivery' /\ AbsentUnused' /\ ExecutedInactive' /\ DemotedHadOutput' /\ ActiveHasOutput'
<1>1. TypeInv /\ TypeInv' /\ ProcShape'
  <2>1. TypeInv
    BY DEF DeliveryInv
  <2>2. TypeInv'
    BY <2>1, TypeNext
  <2>3. QED
    BY <2>1, <2>2 DEF TypeInv
<1>2. \A w \in Workers : ~Redeliver(w)
  BY <1>1 DEF Redeliver, TypeInv, TypeOK
<1>3. ASSUME UNCHANGED <<proc, runs, queue>> PROVE Kept
  <2>1. NoNewHolders /\ queue' = queue
    BY <1>3 DEF NoNewHolders, InTask, Inserted
  <2>2. (\A r : RowKept(r)) /\ \A q \in Procs : proc'[q] = proc[q]
    BY <1>3 DEF RowKept
  <2>3. QED
    BY <2>1, <2>2, DeliveryRows
<1>4. Kept
  <2>1. ASSUME NEW p \in Procs, NEW t \in Task, LocalStep(p, t) PROVE Kept
    BY <2>1, DeliveryLocal
  <2>2. ASSUME NEW p \in Procs, InsertRun(p) \/ Enqueue(p) PROVE Kept
    BY <2>2, DeliveryInsert, DeliveryEnqueue
  <2>3. ASSUME NEW c \in Clients, ReuseCommit(c) PROVE Kept
    BY <2>3, DeliveryReuse
  <2>4. ASSUME NEW w \in Workers, NEW r \in RunIds, StartRun(w, r) PROVE Kept
    BY <2>4, DeliveryStart
  <2>5. ASSUME NEW w \in Workers,
               CommitOutput(w) \/ CommitFailed(w) \/ FinalizeFailedWrite(w) \/ Crash(w)
        PROVE Kept
    BY <2>5, DeliveryOutput, DeliveryFailed, DeliveryCrash
  <2>6. CASE ReapFlip
    BY <2>6, DeliveryReap
  <2> HIDE DEF Kept
  <2>7. QED
    BY <1>1, <1>2, <1>3, <2>1, <2>2, <2>3, <2>4, <2>5, <2>6, StepKinds
<1>5. QED
  BY <1>1, <1>4 DEF DeliveryInv, InFlightInv

\* If no executing task is redelivered, every run has at most one delivery and
\* one executor, and the rows of different transactions do not collide, for
\* any number of requests, workers, runs and worker crashes.
THEOREM OneExecutor ==
    ASSUME MaxRedeliver = 0
    PROVE  Spec => []InFlightInv
<1>1. DeliveryInv => InFlightInv
  BY DEF DeliveryInv
<1>2. QED
  BY <1>1, DeliveryInit, DeliveryNext, PTL DEF Spec

\* ... and then the active row of a loop always has output.
THEOREM ActiveOutput ==
    ASSUME MaxRedeliver = 0
    PROVE  Spec => []ActiveHasOutput
<1>1. DeliveryInv => ActiveHasOutput
  BY DEF DeliveryInv
<1>2. QED
  BY <1>1, DeliveryInit, DeliveryNext, PTL DEF Spec

-----------------------------------------------------------------------------
(* The action property.                                                    *)

Kept(n) == ActiveRuns(n) # {} /\ ActiveRuns(n)' = {}
           => \E r \in RunIds : ~runs[r].active /\ runs'[r].active /\ runs'[r].loop < n

\* A step that keeps what is active, and the loop it is of, loses no output.
LEMMA ActiveSame ==
    ASSUME \A r \in RunIds : runs'[r].active = runs[r].active /\ runs'[r].loop = runs[r].loop,
           NEW n
    PROVE  Kept(n)
  BY DEF Kept, ActiveRuns

\* What every step does to the output of loop n.
LEMMA KeptNext ==
    ASSUME DeliveryInv, [Next]_vars, NEW n \in Loops
    PROVE  Kept(n)
<1>0. /\ TypeInv /\ AbsentUnused /\ ExecutedInactive /\ DemotedHadOutput
  BY DEF DeliveryInv, InFlightInv
<1>1. CASE runs' = runs
  BY <1>1, ActiveSame
<1>2. ASSUME NEW p \in Procs, InsertRun(p) PROVE Kept(n)
  <2>1. PICK k \in RunIds : runs[k].status = "absent" /\ \A s \in RunIds : s # k => RowKept(s)
    BY <1>0, <1>2, InsertRows DEF IsFresh
  <2>2. ~runs[k].active
    BY <1>0, <2>1 DEF AbsentUnused
  <2>3. ActiveRuns(n) \subseteq ActiveRuns(n)'
    BY <2>1, <2>2 DEF ActiveRuns, RowKept
  <2>4. QED
    BY <2>3 DEF Kept
<1>3. ASSUME NEW c \in Clients, ReuseCommit(c), runs' # runs PROVE Kept(n)
  <2>1. PICK new \in RunIds :
              /\ runs[new].status = "absent"
              /\ runs'[new] = ImportedRun(proc[c].ver)
              /\ \A q \in RunIds \ {new} : \/ q \in proc[c].demote /\ RowDemoted(q)
                                           \/ q \notin proc[c].demote /\ RowKept(q)
    BY <1>0, <1>3, ReuseRows DEF IsFresh
  <2>2. ~runs[new].active /\ runs'[new].active /\ runs'[new].loop = 1
    BY <1>0, <2>1, NewRowFields DEF AbsentUnused
  <2>3. \A r \in proc[c].demote : runs[r].loop = 1
    BY <1>0, <1>3, ProcKinds DEF ReuseCommit, DemotedHadOutput
  <2>4. CASE n = 1
    BY <2>2, <2>4 DEF Kept, ActiveRuns
  <2>5. CASE n # 1
    <3>1. ActiveRuns(n) \subseteq ActiveRuns(n)'
      BY <2>1, <2>2, <2>3, <2>5 DEF ActiveRuns, RowKept
    <3>2. QED
      BY <3>1 DEF Kept
  <2>6. QED
    BY <2>4, <2>5
<1>4. ASSUME NEW w \in Workers, CommitOutput(w) PROVE Kept(n)
  <2> DEFINE k == proc[w].run
  <2> SUFFICES ASSUME NEW s \in ActiveRuns(n), ActiveRuns(n)' = {}
               PROVE  \E r \in RunIds : ~runs[r].active /\ runs'[r].active /\ runs'[r].loop < n
    BY DEF Kept
  <2>1. /\ proc[w].pc = "flushed" /\ k \in RunIds
        /\ runs'[k].active /\ runs'[k].loop = runs[k].loop
        /\ \A r \in RunIds \ {k} : \/ r \in proc[w].demote /\ RowDemoted(r)
                                   \/ r \notin proc[w].demote /\ RowKept(r)
    BY <1>0, <1>4, OutputRows
  <2>2. ~runs[k].active
    BY <1>0, <2>1 DEF ExecutedInactive
  <2>3. s \in RunIds /\ runs[s].active /\ runs[s].loop = n /\ s # k
    BY <2>2 DEF ActiveRuns
  <2>4. s \in proc[w].demote
    BY <2>1, <2>3 DEF ActiveRuns, RowKept
  <2>5. n >= runs[k].loop
    BY <1>0, <2>1, <2>3, <2>4, ProcKinds DEF DemotedHadOutput
  <2>6. runs[k].loop # n
    BY <2>1 DEF ActiveRuns
  <2>7. n \in Nat /\ runs[k].loop \in Nat
    <3>1. runs[k] \in Row
      BY <1>0, <2>1 DEF TypeInv, TypeOK
    <3>2. QED
      BY <3>1 DEF Row, Loops
  <2>8. runs[k].loop < n
    BY <2>5, <2>6, <2>7
  <2>9. QED
    BY <2>1, <2>2, <2>8
<1>5. ASSUME NEW w \in Workers, CommitFailed(w) \/ FinalizeFailedWrite(w) PROVE Kept(n)
  BY <1>0, <1>5, FailedRows, ActiveSame DEF RowFailed, RowKept
<1>6. CASE ReapFlip
  BY <1>0, <1>6, ReapRows, ActiveSame DEF RowFailed, RowKept
<1>7. QED
  BY <1>0, <1>1, <1>2, <1>3, <1>4, <1>5, <1>6, StepKinds
     DEF LocalStep, Enqueue, StartRun, Crash, Redeliver

\* A failed, raised, reaped or crashed run takes no output away: a loop loses
\* its active row only when an earlier loop gets a new one.
THEOREM OutputKept ==
    ASSUME MaxRedeliver = 0
    PROVE  Spec => OutputNeverLost
<1>1. DeliveryInv /\ [Next]_vars =>
        [\A n \in Loops :
          ActiveRuns(n) # {} /\ ActiveRuns(n)' = {}
          => \E r \in RunIds : ~runs[r].active /\ runs'[r].active /\ runs'[r].loop < n]_vars
  BY KeptNext DEF Kept
<1>2. QED
  BY <1>1, DeliveryInit, DeliveryNext, PTL DEF Spec, OutputNeverLost

-----------------------------------------------------------------------------
(* Operations that do not overlap: one actor, one row in flight. Crashes,  *)
(* lost dispatches and a reaper that meets a slow run included.            *)

NoneRunning == \A s \in RunIds : runs[s].status # "running"
OnlyRunning(r) == \A s \in RunIds : runs[s].status = "running" => s = r
OnlyAfter(r) == \A s \in RunIds : runs[s].status = "running" => runs[s].loop = runs[r].loop + 1

\* Loop n may be executed: the loops before it have output.
ReadyFor(n) ==
    /\ n \in Loops /\ state # "completed"
    /\ \A m \in Loops : m < n => m \in LoopsDone

\* At most one process is busy, and then no delivery waits; at most one waits.
SoleActor ==
    /\ \A p, q \in Procs : proc[p].pc # "idle" /\ proc[q].pc # "idle" => p = q
    /\ \A p \in Procs : proc[p].pc # "idle" => \A r \in RunIds : queue[r] = 0
    /\ \A r, s \in RunIds : queue[r] > 0 /\ queue[s] > 0 => r = s

\* What the sole actor knows at each of its steps.
TaskFits(t) ==
    /\ t.pc \in {"checked", "versioned"} =>
          /\ NoneRunning /\ ReadyFor(t.loop)
          /\ t.run # NoRun => t.loop = runs[t.run].loop + 1
    /\ t.pc = "inserted" => OnlyRunning(t.new) /\ (t.run # NoRun => OnlyAfter(t.run))
    /\ t.pc = "closing" => NoneRunning /\ can_close(state)
    /\ t.pc \in Exec => OnlyRunning(t.run)
    /\ t.pc \in {"loop", "flushed"} => ReadyFor(runs[t.run].loop) /\ t.cur = state
    /\ t.pc = "flushed" /\ t.result \in OutputStatus =>
          \A r \in RunIds : runs[r].active /\ runs[r].loop >= runs[t.run].loop => r \in t.demote
    /\ t.pc = "chain" => OnlyAfter(t.run)
    /\ t.pc = "reusing" =>
          /\ NoneRunning /\ t.cur = state
          /\ \A r \in RunIds : runs[r].active /\ runs[r].loop = 1 => r \in t.demote

\* A waiting delivery is that of the row in flight, or of the row before it.
DeliveryFits == \A r \in RunIds : queue[r] > 0 => OnlyRunning(r) \/ OnlyAfter(r)

RunningReady == \A s \in RunIds : runs[s].status = "running" => ReadyFor(runs[s].loop)

TasksFit == \A p \in Procs : \A t : t = proc[p] => TaskFits(t)

TurnParts == SoleActor /\ DeliveryFits /\ RunningReady /\ StateMatchesOutputs /\ TasksFit

SerialInv == DeliveryInv /\ TurnParts

\* The initial state.
LEMMA SerialInit == Init => SerialInv
<1> SUFFICES ASSUME Init PROVE SerialInv
  OBVIOUS
<1>1. /\ \A p \in Procs : proc[p].pc = "idle"
      /\ \A r \in RunIds : runs[r].status = "absent" /\ ~runs[r].active /\ queue[r] = 0
      /\ state = "created"
  BY DEF Init, Idle, NoRow
<1>2. SoleActor /\ DeliveryFits /\ RunningReady
  BY <1>1 DEF SoleActor, DeliveryFits, RunningReady
<1>3. StateMatchesOutputs
  BY <1>1 DEF StateMatchesOutputs, LoopsDone, ImportedStart, ActiveRuns
<1>4. TasksFit
  BY <1>1 DEF TasksFit, TaskFits, Exec
<1>5. QED
  BY <1>2, <1>3, <1>4, DeliveryInit DEF SerialInv, TurnParts

\* A step that neither activates nor demotes a row keeps the loops' output.
LEMMA SameOutput ==
    ASSUME \A r \in RunIds : /\ runs'[r].active = runs[r].active /\ runs'[r].loop = runs[r].loop
                             /\ runs'[r].imported = runs[r].imported
    PROVE  LoopsDone' = LoopsDone /\ ImportedStart' = ImportedStart
<1>1. \A n : ActiveRuns(n)' = ActiveRuns(n)
  BY DEF ActiveRuns
<1>2. \A r \in ActiveRuns(1) : r \in RunIds
  BY DEF ActiveRuns
<1>3. QED
  BY <1>1, <1>2 DEF LoopsDone, ImportedStart

\* An idle process claims nothing.
LEMMA IdleFits == TaskFits(Idle)
  BY DEF TaskFits, Idle, Exec

\* One actor moves on, or the first one starts in a quiet system; it writes
\* nothing yet.
LEMMA SerialMove ==
    ASSUME TypeInv, TurnParts, NEW p \in Procs, NEW t, Goto(p, t), TaskFits(t),
           proc[p].pc # "idle" \/ Quiet,
           UNCHANGED <<state, runs, queue>>
    PROVE  TurnParts'
<1>1. proc'[p] = t /\ \A q \in Procs : q # p => proc'[q] = proc[q]
  BY GotoFields
<1>2. \A q \in Procs : q # p => proc[q].pc = "idle"
  BY DEF TurnParts, SoleActor, Quiet
<1>3. \A r \in RunIds : queue[r] = 0
  BY DEF TurnParts, SoleActor, Quiet
<1>4. SoleActor' /\ DeliveryFits'
  BY <1>1, <1>2, <1>3 DEF SoleActor, DeliveryFits
<1>5. RunningReady' /\ StateMatchesOutputs'
  BY DEF TurnParts, RunningReady, ReadyFor, StateMatchesOutputs, LoopsDone, ImportedStart, ActiveRuns
<1>6. \A u : TaskFits(u) => TaskFits(u)'
  BY DEF TaskFits, NoneRunning, OnlyRunning, OnlyAfter, ReadyFor, LoopsDone, ActiveRuns
<1>7. TasksFit'
  BY <1>1, <1>6 DEF TurnParts, TasksFit
<1>8. QED
  BY <1>4, <1>5, <1>7 DEF TurnParts

\* The guard of begin_run implies that the loops before n have output.
LEMMA GuardReady ==
    ASSUME TypeInv, StateMatchesOutputs, NEW n, can_run_loop(state, n)
    PROVE  ReadyFor(n)
<1>1. state \in AssessmentState
  BY DEF TypeInv, TypeOK
<1>2. n \in RUNNABLE[state]
  BY DEF can_run_loop
<1>3. \/ state = "created" /\ n = 1
      \/ state = "loop1_done" /\ n \in {1, 2}
      \/ state \in {"loop2_done", "loop3_done"} /\ n \in {1, 2, 3}
  BY <1>1, <1>2 DEF RUNNABLE, AssessmentState, Loops
<1>4. QED
  BY <1>3 DEF ReadyFor, StateMatchesOutputs, Loops

\* The steps of a request that write no row.
LEMMA SerialRequest ==
    ASSUME OneAtATime, TypeInv, TurnParts, NEW c \in Clients,
           \/ \E n \in Loops, ov \in BOOLEAN : BeginCheck(c, n, ov)
           \/ CloseRead(c)
           \/ ReuseFlush(c)
           \/ RequestFails(c)
    PROVE  TurnParts'
<1>0. c \in Procs /\ StateMatchesOutputs
  BY ProcKinds DEF TurnParts
<1>1. ASSUME NEW n \in Loops, NEW ov \in BOOLEAN, BeginCheck(c, n, ov) PROVE TurnParts'
  <2> DEFINE t == [Idle EXCEPT !.pc = "checked", !.loop = n, !.over = ov]
  <2>1. Quiet /\ NoneRunning
    BY <1>1 DEF BeginCheck, MayAct, Quiet, NoneRunning
  <2>2. ReadyFor(n)
    BY <1>0, <1>1, GuardReady DEF BeginCheck, BeginGuard
  <2>3. t.pc = "checked" /\ t.run = NoRun /\ t.loop = n
    BY DEF Idle
  <2>4. Goto(c, t) /\ UNCHANGED <<state, runs, queue>>
    BY <1>1 DEF BeginCheck
  <2> HIDE DEF t
  <2>5. TaskFits(t)
    BY <2>1, <2>2, <2>3 DEF TaskFits, Exec
  <2>6. QED
    BY <1>0, <2>1, <2>4, <2>5, SerialMove
<1>2. ASSUME CloseRead(c) PROVE TurnParts'
  <2> DEFINE t == [Idle EXCEPT !.pc = "closing"]
  <2>1. Quiet /\ NoneRunning /\ can_close(state)
    BY <1>2 DEF CloseRead, MayAct, Quiet, NoneRunning
  <2>2. t.pc = "closing"
    BY DEF Idle
  <2>3. Goto(c, t) /\ UNCHANGED <<state, runs, queue>>
    BY <1>2 DEF CloseRead
  <2> HIDE DEF t
  <2>4. TaskFits(t)
    BY <2>1, <2>2 DEF TaskFits, Exec
  <2>5. QED
    BY <1>0, <2>1, <2>3, <2>4, SerialMove
<1>3. ASSUME ReuseFlush(c) PROVE TurnParts'
  <2>1. PICK v \in 1..MaxRuns :
          Goto(c, [Idle EXCEPT !.pc = "reusing", !.ver = v, !.cur = state,
                               !.demote = ActiveRuns(1)])
    BY <1>3 DEF ReuseFlush
  <2> DEFINE t == [Idle EXCEPT !.pc = "reusing", !.ver = v, !.cur = state,
                               !.demote = ActiveRuns(1)]
  <2>2. Quiet /\ NoneRunning
    BY <1>3 DEF ReuseFlush, MayAct, Quiet, NoneRunning
  <2>3. t.pc = "reusing" /\ t.cur = state /\ t.demote = ActiveRuns(1)
    BY DEF Idle
  <2>4. Goto(c, t) /\ UNCHANGED <<state, runs, queue>>
    BY <1>3, <2>1 DEF ReuseFlush
  <2> HIDE DEF t
  <2>5. TaskFits(t)
    BY <2>2, <2>3 DEF TaskFits, Exec, ActiveRuns
  <2>6. QED
    BY <1>0, <2>2, <2>4, <2>5, SerialMove
<1>4. ASSUME RequestFails(c) PROVE TurnParts'
  BY <1>0, <1>4, IdleFits, SerialMove DEF RequestFails
<1>5. QED
  BY <1>1, <1>2, <1>3, <1>4

\* The steps of a dispatch that write no row.
LEMMA SerialBegin ==
    ASSUME TypeInv, TurnParts, NEW p \in Procs,
           ReadVersion(p) \/ BeginFails(p) \/ LoseDispatch(p)
    PROVE  TurnParts'
<1>1. ASSUME ReadVersion(p) PROVE TurnParts'
  <2>1. PICK v \in 1..MaxRuns : Goto(p, [proc[p] EXCEPT !.pc = "versioned", !.ver = v])
    BY <1>1 DEF ReadVersion
  <2> DEFINE t == [proc[p] EXCEPT !.pc = "versioned", !.ver = v]
  <2>2. t.pc = "versioned" /\ t.run = proc[p].run /\ t.loop = proc[p].loop
    <3>1. proc[p] \in Task
      BY ProcTask
    <3>2. QED
      BY <3>1 DEF Task
  <2>3. proc[p].pc = "checked" /\ UNCHANGED <<state, runs, queue>>
    BY <1>1 DEF ReadVersion
  <2>4. TaskFits(proc[p])
    BY DEF TurnParts, TasksFit
  <2>5. Goto(p, t)
    BY <2>1
  <2> HIDE DEF t
  <2>6. TaskFits(t)
    BY <2>2, <2>3, <2>4 DEF TaskFits, Exec
  <2>7. QED
    BY <2>3, <2>5, <2>6, SerialMove
<1>2. ASSUME BeginFails(p) \/ LoseDispatch(p) PROVE TurnParts'
  BY <1>2, IdleFits, SerialMove DEF BeginFails, LoseDispatch
<1>3. QED
  BY <1>1, <1>2

\* A row the loops after it are demoted with.
LEMMA DemoteAll ==
    ASSUME TypeInv, NEW n \in Loops, NEW out \in OutputStatus, NEW r \in RunIds,
           runs[r].active, runs[r].loop >= n
    PROVE  r \in RowsToDemote(n, out)
<1>1. runs[r].loop \in {0} \cup Loops
  BY DEF TypeInv, TypeOK, Row
<1>2. runs[r].loop \in {n} \cup states_invalidated_by_rerun(n)
  BY <1>1 DEF states_invalidated_by_rerun, Loops
<1>3. r \in ActiveRuns(runs[r].loop)
  BY DEF ActiveRuns
<1>4. QED
  BY <1>2, <1>3 DEF RowsToDemote

\* The steps of a worker that write no row.
LEMMA SerialWorker ==
    ASSUME TypeInv, TurnParts, NEW w \in Workers,
           \/ \E out \in RunStatus : FinalizeFlush(w, out)
           \/ ExecuteRaises(w) \/ FinalizeFailedRead(w) \/ FinalizeFailedErrors(w)
           \/ AdvanceDispatch(w) \/ AdvanceStop(w) \/ AdvanceErrors(w)
    PROVE  TurnParts'
<1> DEFINE k == proc[w].run
<1>0. /\ w \in Procs /\ StateMatchesOutputs /\ TaskFits(proc[w]) /\ proc[w] \in Task
      /\ proc[w].pc # "idle" => k \in RunIds
  BY ProcKinds, ProcTask DEF TurnParts, TasksFit
<1>1. ASSUME NEW out \in RunStatus, FinalizeFlush(w, out) PROVE TurnParts'
  <2> DEFINE D == RowsToDemote(runs[k].loop, out)
             t == [proc[w] EXCEPT !.pc = "flushed", !.result = out, !.demote = D]
  <2>1. /\ proc[w].pc = "loop" /\ UNCHANGED <<state, runs, queue>> /\ Goto(w, t)
    BY <1>1 DEF FinalizeFlush
  <2>2. t.pc = "flushed" /\ t.run = k /\ t.cur = proc[w].cur /\ t.result = out /\ t.demote = D
    BY <1>0 DEF Task
  <2>3. OnlyRunning(k) /\ ReadyFor(runs[k].loop) /\ proc[w].cur = state
    BY <1>0, <2>1 DEF TaskFits, Exec
  <2>4. out \in OutputStatus =>
          \A r \in RunIds : runs[r].active /\ runs[r].loop >= runs[k].loop => r \in D
    BY <2>3, DemoteAll DEF ReadyFor
  <2> HIDE DEF t, D
  <2>5. TaskFits(t)
    BY <2>2, <2>3, <2>4 DEF TaskFits, Exec
  <2>6. QED
    BY <1>0, <2>1, <2>5, SerialMove
<1>2. ASSUME ExecuteRaises(w) PROVE TurnParts'
  <2> DEFINE t == [Idle EXCEPT !.pc = "raised", !.run = k]
  <2>1. /\ proc[w].pc \in {"loop", "flushed"} /\ UNCHANGED <<state, runs, queue>> /\ Goto(w, t)
    BY <1>2 DEF ExecuteRaises
  <2>2. t.pc = "raised" /\ t.run = k
    BY DEF Idle
  <2>3. OnlyRunning(k)
    BY <1>0, <2>1 DEF TaskFits, Exec
  <2> HIDE DEF t
  <2>4. TaskFits(t)
    BY <2>2, <2>3 DEF TaskFits, Exec
  <2>5. QED
    BY <1>0, <2>1, <2>4, SerialMove
<1>3. ASSUME FinalizeFailedRead(w) PROVE TurnParts'
  <2> DEFINE t1 == [proc[w] EXCEPT !.pc = "failing"]
             t2 == [Idle EXCEPT !.pc = "chain", !.run = k, !.result = runs[k].status]
  <2>1. /\ proc[w].pc = "raised" /\ UNCHANGED <<state, runs, queue>>
        /\ Goto(w, t1) \/ (runs[k].status # "running" /\ Goto(w, t2))
    BY <1>3 DEF FinalizeFailedRead, Returned
  <2>2. t1.pc = "failing" /\ t1.run = k /\ t2.pc = "chain" /\ t2.run = k
    BY <1>0 DEF Task, Idle
  <2>3. OnlyRunning(k)
    BY <1>0, <2>1 DEF TaskFits, Exec
  <2> HIDE DEF t1, t2
  <2>4. TaskFits(t1)
    BY <2>2, <2>3 DEF TaskFits, Exec
  <2>5. runs[k].status # "running" => TaskFits(t2)
    BY <2>2, <2>3 DEF TaskFits, Exec, OnlyRunning, OnlyAfter
  <2>6. QED
    BY <1>0, <2>1, <2>4, <2>5, SerialMove
<1>4. ASSUME FinalizeFailedErrors(w) \/ AdvanceStop(w) \/ AdvanceErrors(w) PROVE TurnParts'
  BY <1>0, <1>4, IdleFits, SerialMove DEF FinalizeFailedErrors, AdvanceStop, AdvanceErrors
<1>5. ASSUME AdvanceDispatch(w) PROVE TurnParts'
  <2> DEFINE n == runs[k].loop
             t == [Idle EXCEPT !.pc = "checked", !.run = k, !.loop = n + 1]
  <2>1. /\ proc[w].pc = "chain" /\ UNCHANGED <<state, runs, queue>> /\ Goto(w, t)
        /\ can_run_loop(state, n + 1) /\ NotAlreadyRunning(n + 1)
    BY <1>5 DEF AdvanceDispatch, BeginGuard
  <2>2. t.pc = "checked" /\ t.run = k /\ t.loop = n + 1
    BY DEF Idle
  <2>3. OnlyAfter(k)
    BY <1>0, <2>1 DEF TaskFits, Exec
  <2>4. NoneRunning
    BY <2>1, <2>3 DEF NotAlreadyRunning, RunningRuns, OnlyAfter, NoneRunning
  <2>5. ReadyFor(n + 1)
    BY <1>0, <2>1, GuardReady
  <2> HIDE DEF t
  <2>6. TaskFits(t)
    BY <2>2, <2>4, <2>5 DEF TaskFits, Exec
  <2>7. QED
    BY <1>0, <2>1, <2>6, SerialMove
<1>6. QED
  BY <1>1, <1>2, <1>3, <1>4, <1>5

\* A step that only fails rows: fewer run, and no output changes.
LEMMA SerialFewer ==
    ASSUME TypeInv, TurnParts, UNCHANGED <<state, queue>>,
           \A r \in RunIds : RowKept(r) \/ RowFailed(r),
           \A q \in Procs : \/ proc'[q] = proc[q]
                            \/ proc[q].pc # "idle" /\ \A t : t = proc'[q] => TaskFits(t)'
    PROVE  TurnParts'
<1>1. \A r \in RunIds : /\ runs'[r].active = runs[r].active /\ runs'[r].loop = runs[r].loop
                        /\ runs'[r].imported = runs[r].imported
                        /\ runs'[r].status = "running" => runs[r].status = "running"
  BY DEF RowKept, RowFailed
<1>2. LoopsDone' = LoopsDone /\ ImportedStart' = ImportedStart
  BY <1>1, SameOutput
<1>3. \A n : ReadyFor(n) => ReadyFor(n)'
  BY <1>2 DEF ReadyFor
<1>4. SoleActor'
  BY DEF TurnParts, SoleActor
<1>5. /\ \A r : OnlyRunning(r) => OnlyRunning(r)'
      /\ \A r \in RunIds : OnlyAfter(r) => OnlyAfter(r)'
      /\ NoneRunning => NoneRunning'
  BY <1>1 DEF OnlyRunning, OnlyAfter, NoneRunning
<1>6. DeliveryFits'
  BY <1>5 DEF TurnParts, DeliveryFits
<1>7. RunningReady' /\ StateMatchesOutputs'
  BY <1>1, <1>2, <1>3 DEF TurnParts, RunningReady, StateMatchesOutputs
<1>8. ASSUME NEW q \in Procs, NEW t, t = proc[q] PROVE TaskFits(t)'
  <2>1. /\ TaskFits(t) /\ t.run \in RunIds \cup {NoRun}
        /\ t.pc \in Exec \cup {"chain"} => t.run \in RunIds
    <3>1. t.pc \in Exec \cup {"chain"} => q \in Workers
      BY <1>8 DEF TypeInv, ProcShape, Exec, Procs
    <3>2. QED
      BY <1>8, <3>1, ProcTask, TaskFields DEF TurnParts, TasksFit, Exec
  <2>2. t.pc \in {"loop", "flushed"} => t.pc \in Exec
    BY DEF Exec
  <2>3. QED
    BY <1>1, <1>3, <1>5, <2>1, <2>2 DEF TaskFits
<1>9. TasksFit'
  BY <1>8 DEF TasksFit
<1>10. QED
  BY <1>4, <1>6, <1>7, <1>9 DEF TurnParts

\* A worker that fails its run, and the reaper.
LEMMA SerialFailed ==
    ASSUME TypeInv, TurnParts,
           ReapFlip \/ \E w \in Workers : CommitFailed(w) \/ FinalizeFailedWrite(w)
    PROVE  TurnParts'
<1>1. CASE ReapFlip
  <2>1. \A r \in RunIds : RowKept(r) \/ RowFailed(r)
    BY <1>1, ReapRows
  <2>2. UNCHANGED <<state, queue>> /\ proc' = proc
    BY <1>1 DEF ReapFlip
  <2>3. QED
    BY <2>1, <2>2, SerialFewer
<1>2. ASSUME NEW w \in Workers, CommitFailed(w) \/ FinalizeFailedWrite(w) PROVE TurnParts'
  <2> DEFINE k == proc[w].run
             t == [Idle EXCEPT !.pc = "chain", !.run = k, !.result = "failed"]
  <2>1. /\ proc[w].pc \in {"flushed", "failing"} /\ k \in RunIds /\ RowFailed(k)
        /\ \A r \in RunIds \ {k} : RowKept(r)
        /\ Goto(w, t) /\ queue' = queue
    BY <1>2, FailedRows
  <2>2. state' = state
    BY <1>2 DEF CommitFailed, FinalizeFailedWrite
  <2>3. OnlyRunning(k)
    BY <2>1, ProcKinds DEF TurnParts, TasksFit, TaskFits, Exec
  <2>4. NoneRunning'
    BY <2>1, <2>3 DEF OnlyRunning, NoneRunning, RowKept, RowFailed
  <2>5. t.pc = "chain" /\ t.run = k
    BY DEF Idle
  <2>6. proc'[w] = t /\ \A q \in Procs : q # w => proc'[q] = proc[q]
    BY <2>1, GotoFields, ProcKinds
  <2> HIDE DEF t
  <2>7. \A u : u = proc'[w] => TaskFits(u)'
    BY <2>4, <2>5, <2>6 DEF TaskFits, Exec, OnlyAfter, NoneRunning
  <2>8. QED
    BY <2>1, <2>2, <2>6, <2>7, SerialFewer
<1>3. QED
  BY <1>1, <1>2

\* close commits: nothing is running, Loop 2 has output.
LEMMA SerialClose ==
    ASSUME TypeInv, TurnParts, NEW c \in Clients, CloseWrite(c)
    PROVE  TurnParts'
<1>1. /\ proc[c].pc = "closing" /\ state' = "completed" /\ runs' = runs /\ queue' = queue
      /\ Goto(c, Idle) /\ c \in Procs
  BY ProcKinds DEF CloseWrite
<1>2. NoneRunning /\ can_close(state)
  BY <1>1 DEF TurnParts, TasksFit, TaskFits
<1>3. \A q \in Procs : proc'[q].pc = "idle"
  BY <1>1, GotoFields DEF TurnParts, SoleActor, Idle
<1>4. \A r \in RunIds : queue[r] = 0
  BY <1>1 DEF TurnParts, SoleActor
<1>5. SoleActor' /\ DeliveryFits' /\ RunningReady'
  BY <1>1, <1>2, <1>3, <1>4 DEF SoleActor, DeliveryFits, RunningReady, NoneRunning
<1>6. StateMatchesOutputs'
  <2>1. LoopsDone' = LoopsDone
    BY <1>1 DEF LoopsDone, ActiveRuns
  <2>2. {1, 2} \subseteq LoopsDone
    BY <1>2 DEF TurnParts, StateMatchesOutputs, can_close
  <2>3. QED
    BY <1>1, <2>1, <2>2 DEF StateMatchesOutputs
<1>7. TasksFit'
  BY <1>3 DEF TasksFit, TaskFits, Exec
<1>8. QED
  BY <1>5, <1>6, <1>7 DEF TurnParts

\* .delay(): the delivery of the row in flight.
LEMMA SerialEnqueue ==
    ASSUME TypeInv, TurnParts, NEW p \in Procs, Enqueue(p)
    PROVE  TurnParts'
<1> DEFINE k == proc[p].new
<1>1. /\ proc[p].pc = "inserted" /\ state' = state /\ runs' = runs /\ Goto(p, Idle)
      /\ k \in RunIds
  BY ProcTask, TaskFields DEF Enqueue, TaskShape
<1>2. OnlyRunning(k)
  BY <1>1 DEF TurnParts, TasksFit, TaskFits
<1>3. \A q \in Procs : proc'[q].pc = "idle"
  BY <1>1, GotoFields DEF TurnParts, SoleActor, Idle
<1>4. \A r \in RunIds : r # k => queue'[r] = 0
  BY <1>1 DEF Enqueue, TurnParts, SoleActor, TypeInv, TypeOK
<1>5. SoleActor' /\ DeliveryFits'
  BY <1>1, <1>2, <1>3, <1>4 DEF SoleActor, DeliveryFits, OnlyRunning
<1>6. RunningReady' /\ StateMatchesOutputs'
  BY <1>1 DEF TurnParts, RunningReady, ReadyFor, StateMatchesOutputs, LoopsDone, ImportedStart, ActiveRuns
<1>7. TasksFit'
  BY <1>3 DEF TasksFit, TaskFits, Exec
<1>8. QED
  BY <1>5, <1>6, <1>7 DEF TurnParts

\* A worker takes the only delivery.
LEMMA SerialStart ==
    ASSUME DeliveryInv, TurnParts, NEW w \in Workers, NEW k \in RunIds, StartRun(w, k)
    PROVE  TurnParts'
<1> DEFINE t1 == [Idle EXCEPT !.pc = "loop", !.run = k, !.cur = state,
                              !.ready = HasInput(runs[k].loop)]
           t2 == [Idle EXCEPT !.pc = "chain", !.run = k, !.result = runs[k].status]
<1>0. TypeInv /\ OneDelivery /\ w \in Procs
  BY ProcKinds DEF DeliveryInv, InFlightInv
<1>1. /\ queue[k] > 0 /\ state' = state /\ runs' = runs
      /\ (runs[k].status = "running" /\ Goto(w, t1)) \/ (runs[k].status # "running" /\ Goto(w, t2))
  BY DEF StartRun, Executable
<1>2. /\ t1.pc = "loop" /\ t1.run = k /\ t1.cur = state
      /\ t2.pc = "chain" /\ t2.run = k
  BY DEF Idle
<1>3. \A q \in Procs : proc[q].pc = "idle"
  BY <1>1 DEF TurnParts, SoleActor
<1>4. \A r \in RunIds : queue'[r] = 0
  <2>1. queue' = [queue EXCEPT ![k] = queue[k] - 1]
    BY DEF StartRun
  <2>2. queue[k] = 1 /\ queue \in [RunIds -> Nat]
    BY <1>0, <1>1 DEF OneDelivery, TypeInv, TypeOK
  <2>3. \A r \in RunIds : r # k => queue[r] = 0
    BY <1>1, <2>2 DEF TurnParts, SoleActor
  <2>4. QED
    BY <2>1, <2>2, <2>3
<1>5. \/ runs[k].status = "running" /\ proc'[w] = t1
      \/ runs[k].status # "running" /\ proc'[w] = t2
  BY <1>0, <1>1, GotoFields
<1>6. \A q \in Procs : q # w => proc'[q] = proc[q]
  BY <1>0, <1>1, GotoFields
<1>7. SoleActor' /\ DeliveryFits'
  BY <1>3, <1>4, <1>6 DEF SoleActor, DeliveryFits
<1>8. RunningReady' /\ StateMatchesOutputs'
  BY <1>1 DEF TurnParts, RunningReady, ReadyFor, StateMatchesOutputs, LoopsDone, ImportedStart, ActiveRuns
<1>9. OnlyRunning(k) \/ OnlyAfter(k)
  BY <1>1 DEF TurnParts, DeliveryFits
<1>10. runs[k].loop \in Nat
  BY <1>0 DEF TypeInv, TypeOK, Row, Loops
<1>11. \A u : TaskFits(u) => TaskFits(u)'
  BY <1>1 DEF TaskFits, NoneRunning, OnlyRunning, OnlyAfter, ReadyFor, LoopsDone, ActiveRuns
<1> HIDE DEF t1, t2
<1>12. ASSUME runs[k].status = "running" PROVE TaskFits(t1)
  <2>1. OnlyRunning(k)
    BY <1>9, <1>10, <1>12 DEF OnlyAfter
  <2>2. ReadyFor(runs[k].loop)
    BY <1>12 DEF TurnParts, RunningReady
  <2>3. QED
    BY <1>2, <2>1, <2>2 DEF TaskFits, Exec
<1>13. ASSUME runs[k].status # "running" PROVE TaskFits(t2)
  <2>1. OnlyAfter(k)
    BY <1>9, <1>13 DEF OnlyAfter, OnlyRunning
  <2>2. QED
    BY <1>2, <2>1 DEF TaskFits, Exec
<1>14. TasksFit'
  BY <1>5, <1>6, <1>11, <1>12, <1>13 DEF TurnParts, TasksFit
<1>15. QED
  BY <1>7, <1>8, <1>14 DEF TurnParts

\* The sole actor is lost: its delivery waits again.
LEMMA SerialCrash ==
    ASSUME DeliveryInv, TurnParts, NEW w \in Workers, Crash(w)
    PROVE  TurnParts'
<1> DEFINE k == proc[w].run
<1>0. TypeInv /\ w \in Procs
  BY ProcKinds DEF DeliveryInv
<1>1. proc[w].pc # "idle" /\ state' = state /\ runs' = runs /\ Goto(w, Idle) /\ k \in RunIds
  BY <1>0, ProcTask DEF Crash
<1>2. \A q \in Procs : proc'[q].pc = "idle"
  BY <1>0, <1>1, GotoFields DEF TurnParts, SoleActor, Idle
<1>3. \A r \in RunIds : r # k => queue'[r] = 0
  BY <1>0, <1>1 DEF Crash, Requeued, TurnParts, SoleActor, TypeInv, TypeOK
<1>4. OnlyRunning(k) \/ OnlyAfter(k)
  <2>1. TaskFits(proc[w]) /\ k # NoRun
    BY <1>0, <1>1 DEF TurnParts, TasksFit, TypeInv, ProcShape
  <2>2. proc[w].pc \in {"checked", "versioned", "inserted", "chain"} \cup Exec
    BY <1>0, <1>1, ProcTask, TaskFields DEF Pcs, TypeInv, ProcShape, Exec
  <2>3. QED
    BY <2>1, <2>2 DEF TaskFits, NoneRunning, OnlyRunning
<1>5. SoleActor' /\ DeliveryFits'
  BY <1>1, <1>2, <1>3, <1>4 DEF SoleActor, DeliveryFits, OnlyRunning, OnlyAfter
<1>6. RunningReady' /\ StateMatchesOutputs'
  BY <1>1 DEF TurnParts, RunningReady, ReadyFor, StateMatchesOutputs, LoopsDone, ImportedStart, ActiveRuns
<1>7. TasksFit'
  BY <1>2 DEF TasksFit, TaskFits, Exec
<1>8. QED
  BY <1>5, <1>6, <1>7 DEF TurnParts

\* begin_run's insert: the new row is the only one in flight.
LEMMA SerialInsert ==
    ASSUME DeliveryInv, TurnParts, NEW p \in Procs, InsertRun(p)
    PROVE  TurnParts'
<1>0. TypeInv /\ AbsentUnused
  BY DEF DeliveryInv, InFlightInv
<1>1. PICK k \in RunIds :
          /\ runs[k].status = "absent"
          /\ runs'[k] = NewRun(proc[p].loop, proc[p].ver, proc[p].over)
          /\ \A s \in RunIds : s # k => RowKept(s)
          /\ Goto(p, [proc[p] EXCEPT !.pc = "inserted", !.new = k])
  BY <1>0, InsertRows DEF IsFresh
<1> DEFINE t == [proc[p] EXCEPT !.pc = "inserted", !.new = k]
<1>2. runs'[k].status = "running" /\ ~runs'[k].active /\ runs'[k].loop = proc[p].loop
  BY <1>1, NewRowFields
<1>3. proc[p].pc = "versioned" /\ queue' = queue /\ state' = state
  BY DEF InsertRun
<1>4. proc'[p] = t /\ \A q \in Procs : q # p => proc'[q] = proc[q]
  BY <1>0, <1>1, GotoFields
<1>5. t.pc = "inserted" /\ t.new = k /\ t.run = proc[p].run
  <2>1. proc[p] \in Task
    BY <1>0, ProcTask
  <2>2. QED
    BY <2>1 DEF Task
<1>6. /\ NoneRunning /\ ReadyFor(proc[p].loop)
      /\ proc[p].run # NoRun => proc[p].loop = runs[proc[p].run].loop + 1
  BY <1>3 DEF TurnParts, TasksFit, TaskFits
<1> HIDE DEF t
<1>7. (\A q \in Procs : q # p => proc[q].pc = "idle") /\ (\A r \in RunIds : queue[r] = 0)
  BY <1>3 DEF TurnParts, SoleActor
<1>8. SoleActor' /\ DeliveryFits'
  BY <1>3, <1>4, <1>7 DEF SoleActor, DeliveryFits
<1>9. LoopsDone' = LoopsDone /\ ImportedStart' = ImportedStart
  <2>1. ~runs[k].active
    BY <1>0, <1>1 DEF AbsentUnused
  <2>2. \A n : ActiveRuns(n)' = ActiveRuns(n)
    BY <1>1, <1>2, <2>1 DEF ActiveRuns, RowKept
  <2>3. \A r \in ActiveRuns(1) : runs'[r] = runs[r]
    BY <1>1, <2>1 DEF ActiveRuns, RowKept
  <2>4. QED
    BY <2>2, <2>3 DEF LoopsDone, ImportedStart
<1>10. StateMatchesOutputs' /\ RunningReady'
  <2>1. StateMatchesOutputs'
    BY <1>3, <1>9 DEF TurnParts, StateMatchesOutputs
  <2>2. \A n : ReadyFor(n) => ReadyFor(n)'
    BY <1>3, <1>9 DEF ReadyFor
  <2>3. RunningReady'
    BY <1>1, <1>2, <1>6, <2>2 DEF RunningReady, NoneRunning, RowKept
  <2>4. QED
    BY <2>1, <2>3
<1>11. OnlyRunning(k)'
  BY <1>1, <1>6 DEF OnlyRunning, NoneRunning, RowKept
<1>12. ASSUME t.run # NoRun PROVE \A r : r = t.run => OnlyAfter(r)'
  <2>1. t.run \in RunIds /\ t.run # k
    <3>1. p \in Workers
      BY <1>0, <1>5, <1>12 DEF TypeInv, ProcShape, Procs
    <3>2. QED
      BY <1>0, <1>1, <1>3, <1>5, <3>1, ProcTask, RowsApart
  <2>2. runs'[t.run].loop = runs[t.run].loop
    BY <1>1, <2>1 DEF RowKept
  <2>3. QED
    BY <1>2, <1>5, <1>6, <1>11, <1>12, <2>2 DEF OnlyAfter, OnlyRunning
<1>13. \A u : u = t => TaskFits(u)'
  BY <1>5, <1>11, <1>12 DEF TaskFits, Exec
<1>14. TasksFit'
  BY <1>4, <1>7, <1>13 DEF TasksFit, TaskFits, Exec
<1>15. QED
  BY <1>8, <1>10, <1>14 DEF TurnParts

\* A commit of loop n leaves exactly the loops up to n with output.
LEMMA OutputLoops ==
    ASSUME DeliveryInv, TurnParts, NEW w \in Workers, CommitOutput(w)
    PROVE  /\ runs[proc[w].run].loop \in Loops
           /\ LoopsDone' = {m \in Loops : m <= runs[proc[w].run].loop}
<1> DEFINE k == proc[w].run
           n == runs[k].loop
<1>0. /\ TypeInv /\ ExecutedInactive /\ DemotedHadOutput /\ w \in Procs
      /\ proc[w].pc = "flushed" /\ k \in RunIds /\ proc[w].result \in OutputStatus
      /\ runs'[k].active /\ runs'[k].loop = n
      /\ \A r \in RunIds \ {k} : \/ r \in proc[w].demote /\ RowDemoted(r)
                                 \/ r \notin proc[w].demote /\ RowKept(r)
  BY ProcKinds, OutputRows DEF DeliveryInv, InFlightInv
<1>1. /\ ReadyFor(n)
      /\ \A r \in RunIds : runs[r].active /\ runs[r].loop >= n => r \in proc[w].demote
  BY <1>0 DEF TurnParts, TasksFit, TaskFits
<1>2. n \in Loops
  BY <1>1 DEF ReadyFor
<1>3. ~runs[k].active
  BY <1>0 DEF ExecutedInactive
<1>4. \A r \in proc[w].demote : runs[r].loop >= n
  BY <1>0 DEF DemotedHadOutput
<1> HIDE DEF n
<1>5. ASSUME NEW m \in Loops, m < n PROVE m \in LoopsDone'
  <2>1. PICK r \in RunIds : runs[r].loop = m /\ runs[r].active
    BY <1>1, <1>5 DEF ReadyFor, LoopsDone, ActiveRuns
  <2>2. r # k /\ r \notin proc[w].demote
    BY <1>2, <1>3, <1>4, <1>5, <2>1 DEF Loops
  <2>3. runs'[r].loop = m /\ runs'[r].active
    BY <1>0, <2>1, <2>2 DEF RowKept
  <2>4. QED
    BY <2>3 DEF LoopsDone, ActiveRuns
<1>6. n \in LoopsDone'
  BY <1>0, <1>2 DEF LoopsDone, ActiveRuns
<1>7. ASSUME NEW m \in LoopsDone' PROVE m \in Loops /\ m <= n
  <2>1. m \in Loops /\ \E r \in RunIds : runs'[r].loop = m /\ runs'[r].active
    BY <1>7 DEF LoopsDone, ActiveRuns
  <2>2. PICK r \in RunIds : runs'[r].loop = m /\ runs'[r].active
    BY <2>1
  <2>3. CASE r = k
    BY <1>0, <1>2, <2>1, <2>2, <2>3 DEF Loops
  <2>4. CASE r # k
    <3>1. r \notin proc[w].demote /\ runs[r].loop = m /\ runs[r].active
      BY <1>0, <2>2, <2>4 DEF RowDemoted, RowKept
    <3>2. ~(m >= n)
      BY <1>1, <3>1
    <3>3. QED
      BY <1>2, <2>1, <3>2 DEF Loops
  <2>5. QED
    BY <2>3, <2>4
<1>8. \A m \in Loops : m <= n => m < n \/ m = n
  BY <1>2 DEF Loops
<1>9. LoopsDone' = {m \in Loops : m <= n}
  BY <1>5, <1>6, <1>7, <1>8
<1>10. QED
  BY <1>2, <1>9 DEF n

\* A worker's commit of an output: the state follows the rows.
LEMMA SerialOutput ==
    ASSUME DeliveryInv, TurnParts, NEW w \in Workers, CommitOutput(w)
    PROVE  TurnParts' /\ state # "completed"
<1> DEFINE k == proc[w].run
           n == runs[k].loop
           t == [Idle EXCEPT !.pc = "chain", !.run = k, !.result = FinalizedRow(k, proc[w]).status]
<1>0. /\ TypeInv /\ w \in Procs
      /\ proc[w].pc = "flushed" /\ k \in RunIds /\ proc[w].result \in OutputStatus
      /\ \A r \in RunIds \ {k} : \/ r \in proc[w].demote /\ RowDemoted(r)
                                 \/ r \notin proc[w].demote /\ RowKept(r)
  BY ProcKinds, OutputRows DEF DeliveryInv
<1>1. OnlyRunning(k) /\ ReadyFor(n) /\ proc[w].cur = state
  BY <1>0 DEF TurnParts, TasksFit, TaskFits, Exec
<1>2. runs'[k].status \in OutputStatus
  <2>1. k \notin proc[w].demote
    BY <1>0, RowsApart DEF Exec
  <2>2. QED
    BY <1>0, <2>1, OutputRows
<1>3. NoneRunning'
  BY <1>0, <1>1, <1>2 DEF NoneRunning, OnlyRunning, RowDemoted, RowKept, OutputStatus
<1>4. queue' = queue /\ Goto(w, t) /\ state' = StateAfter(proc[w], n)
  BY DEF CommitOutput, Returned
<1>5. t.pc = "chain" /\ t.run = k
  BY DEF Idle
<1>6. proc'[w] = t /\ \A q \in Procs : q # w => proc'[q] = proc[q]
  BY <1>0, <1>4, GotoFields
<1> HIDE DEF t
<1>7. (\A q \in Procs : q # w => proc[q].pc = "idle") /\ (\A r \in RunIds : queue[r] = 0)
  BY <1>0 DEF TurnParts, SoleActor
<1>8. SoleActor' /\ DeliveryFits' /\ RunningReady'
  BY <1>3, <1>4, <1>6, <1>7 DEF SoleActor, DeliveryFits, RunningReady, NoneRunning
<1>9. state' = next_state_after_loop(n)
  BY <1>1, <1>4 DEF StateAfter
<1>10. StateMatchesOutputs'
  <2>1. n \in Loops /\ LoopsDone' = {m \in Loops : m <= n}
    BY OutputLoops
  <2> HIDE DEF n
  <2>2. CASE n = 1
    <3>1. state' = "loop1_done" /\ LoopsDone' = {1}
      BY <1>9, <2>1, <2>2 DEF next_state_after_loop, Loops
    <3>2. QED
      BY <3>1 DEF StateMatchesOutputs
  <2>3. CASE n = 2
    <3>1. state' = "loop2_done" /\ LoopsDone' = {1, 2}
      BY <1>9, <2>1, <2>3 DEF next_state_after_loop, Loops
    <3>2. QED
      BY <3>1 DEF StateMatchesOutputs
  <2>4. CASE n = 3
    <3>1. state' = "loop3_done" /\ LoopsDone' = {1, 2, 3}
      BY <1>9, <2>1, <2>4 DEF next_state_after_loop, Loops
    <3>2. QED
      BY <3>1 DEF StateMatchesOutputs
  <2>5. QED
    BY <2>1, <2>2, <2>3, <2>4 DEF Loops
<1>11. \A u : u = t => TaskFits(u)'
  BY <1>3, <1>5 DEF TaskFits, Exec, OnlyAfter, NoneRunning
<1>12. TasksFit'
  BY <1>6, <1>7, <1>11 DEF TasksFit, TaskFits, Exec
<1>13. QED
  BY <1>1, <1>8, <1>10, <1>12 DEF TurnParts, ReadyFor

\* A step that takes the assessment out of 'completed' imports a chain.
LeftByReuse ==
    state = "completed" /\ state' # "completed" =>
        /\ state' = "loop1_done"
        /\ \E r \in RunIds : ~runs[r].active /\ runs'[r].active /\ runs'[r].imported

\* use_as_start's commit: the imported chain is Loop 1's output, the state
\* reverts to 'loop1_done', and the later loops keep their rows.
LEMMA SerialReuse ==
    ASSUME DeliveryInv, TurnParts, NEW c \in Clients, ReuseCommit(c)
    PROVE  TurnParts' /\ LeftByReuse
<1>0. TypeInv /\ AbsentUnused /\ c \in Procs
  BY ProcKinds DEF DeliveryInv, InFlightInv
<1>1. proc[c].pc = "reusing" /\ queue' = queue /\ Goto(c, Idle)
  BY DEF ReuseCommit
<1>2. /\ NoneRunning /\ proc[c].cur = state
      /\ \A r \in RunIds : runs[r].active /\ runs[r].loop = 1 => r \in proc[c].demote
  BY <1>0, <1>1 DEF TurnParts, TasksFit, TaskFits
<1>3. \A q \in Procs : proc'[q].pc = "idle"
  BY <1>0, <1>1, GotoFields DEF TurnParts, SoleActor, Idle
<1>4. \A r \in RunIds : queue[r] = 0
  BY <1>0, <1>1 DEF TurnParts, SoleActor
<1>5. SoleActor' /\ DeliveryFits' /\ TasksFit'
  BY <1>1, <1>3, <1>4 DEF SoleActor, DeliveryFits, TasksFit, TaskFits, Exec
<1>6. CASE UNCHANGED <<state, runs>>
  <2>1. RunningReady' /\ StateMatchesOutputs'
    BY <1>6 DEF TurnParts, RunningReady, ReadyFor, StateMatchesOutputs, LoopsDone, ImportedStart,
       ActiveRuns
  <2>2. QED
    BY <1>5, <1>6, <2>1 DEF TurnParts, LeftByReuse
<1>7. ASSUME ~UNCHANGED <<state, runs>> PROVE TurnParts' /\ LeftByReuse
  <2>1. /\ state' = IF proc[c].cur # "loop1_done" THEN "loop1_done" ELSE state
        /\ \E new \in RunIds : IsFresh(new) /\ runs'[new] = ImportedRun(proc[c].ver)
    BY <1>0, <1>7 DEF ReuseCommit, TypeInv, TypeOK
  <2>2. PICK k \in RunIds : IsFresh(k) /\ runs'[k] = ImportedRun(proc[c].ver)
    BY <2>1
  <2>3. runs'[k] # runs[k]
    BY <2>2, NewRowFields DEF IsFresh
  <2>4. PICK new \in RunIds :
              /\ IsFresh(new)
              /\ runs'[new] = ImportedRun(proc[c].ver)
              /\ \A r \in RunIds \ {new} : \/ r \in proc[c].demote /\ RowDemoted(r)
                                           \/ r \notin proc[c].demote /\ RowKept(r)
    BY <1>0, <2>3, ReuseRows
  <2>5. /\ ~runs[new].active
        /\ runs'[new].active /\ runs'[new].imported /\ runs'[new].loop = 1
        /\ runs'[new].status = "succeeded"
    BY <1>0, <2>4, NewRowFields DEF AbsentUnused, IsFresh
  <2>6. state' = "loop1_done"
    BY <1>2, <2>1
  <2>7. NoneRunning'
    BY <1>2, <2>4, <2>5 DEF NoneRunning, RowDemoted, RowKept
  <2>8. 1 \in LoopsDone' /\ ImportedStart'
    BY <2>5 DEF LoopsDone, ImportedStart, ActiveRuns, Loops
  <2>9. RunningReady' /\ StateMatchesOutputs'
    BY <2>6, <2>7, <2>8 DEF RunningReady, NoneRunning, StateMatchesOutputs
  <2>10. LeftByReuse
    BY <2>5, <2>6 DEF LeftByReuse
  <2>11. QED
    BY <1>5, <2>9, <2>10 DEF TurnParts
<1>8. QED
  BY <1>6, <1>7

\* Every step of operations that do not overlap; only an import leaves
\* 'completed'.
LEMMA SerialNext ==
    ASSUME OneAtATime, MaxRedeliver = 0
    PROVE  SerialInv /\ [Next]_vars => SerialInv' /\ LeftByReuse
<1> SUFFICES ASSUME SerialInv, [Next]_vars PROVE SerialInv' /\ LeftByReuse
  OBVIOUS
<1>0. state' = state \/ state # "completed" => LeftByReuse
  BY DEF LeftByReuse
<1>1. DeliveryInv /\ DeliveryInv' /\ TypeInv /\ TurnParts
  <2>1. DeliveryInv /\ TurnParts
    BY DEF SerialInv
  <2>2. DeliveryInv'
    BY <2>1, DeliveryNext
  <2>3. QED
    BY <2>1, <2>2 DEF DeliveryInv
<1>2. ASSUME NEW c \in Clients, Request(c) PROVE TurnParts' /\ LeftByReuse
  <2>1. CASE set_auto_advance(c)
    BY <1>0, <1>1, <2>1 DEF set_auto_advance, TurnParts, SoleActor, DeliveryFits, RunningReady,
       StateMatchesOutputs, TasksFit, TaskFits, NoneRunning, OnlyRunning, OnlyAfter, ReadyFor,
       LoopsDone, ImportedStart, ActiveRuns
  <2>2. CASE \E n \in Loops, ov \in BOOLEAN : BeginCheck(c, n, ov)
    BY <1>0, <1>1, <2>2, SerialRequest DEF BeginCheck
  <2>3. CASE CloseRead(c) \/ ReuseFlush(c)
    BY <1>0, <1>1, <2>3, SerialRequest DEF CloseRead, ReuseFlush
  <2>4. QED
    BY <1>2, <2>1, <2>2, <2>3 DEF Request
<1>3. ASSUME NEW c \in Clients, RequestStep(c) PROVE TurnParts' /\ LeftByReuse
  <2>1. CASE CloseWrite(c)
    BY <1>1, <2>1, SerialClose DEF CloseWrite, LeftByReuse
  <2>2. CASE RequestFails(c)
    BY <1>0, <1>1, <2>2, SerialRequest DEF RequestFails
  <2>3. CASE ReuseCommit(c)
    BY <1>1, <2>3, SerialReuse
  <2>4. QED
    BY <1>3, <2>1, <2>2, <2>3 DEF RequestStep
<1>4. ASSUME NEW p \in Procs, BeginStep(p) \/ LoseDispatch(p) PROVE TurnParts' /\ LeftByReuse
  <2>1. state' = state
    BY <1>4 DEF BeginStep, ReadVersion, InsertRun, BeginFails, Enqueue, LoseDispatch
  <2>2. TurnParts'
    BY <1>1, <1>4, SerialBegin, SerialInsert, SerialEnqueue DEF BeginStep
  <2>3. QED
    BY <1>0, <2>1, <2>2
<1>5. ASSUME NEW w \in Workers, WorkerStep(w) PROVE TurnParts' /\ LeftByReuse
  <2>1. CASE CommitOutput(w)
    BY <1>0, <1>1, <2>1, SerialOutput
  <2>2. CASE \E r \in RunIds : StartRun(w, r)
    BY <1>0, <1>1, <2>2, SerialStart DEF StartRun
  <2>3. CASE CommitFailed(w) \/ FinalizeFailedWrite(w)
    BY <1>0, <1>1, <2>3, SerialFailed DEF CommitFailed, FinalizeFailedWrite
  <2>4. CASE \/ \E out \in RunStatus : FinalizeFlush(w, out)
             \/ ExecuteRaises(w) \/ FinalizeFailedRead(w) \/ FinalizeFailedErrors(w)
             \/ AdvanceDispatch(w) \/ AdvanceStop(w) \/ AdvanceErrors(w)
    <3>1. state' = state
      BY <2>4 DEF FinalizeFlush, ExecuteRaises, FinalizeFailedRead, FinalizeFailedErrors,
                  AdvanceDispatch, AdvanceStop, AdvanceErrors
    <3>2. TurnParts'
      BY <1>1, <2>4, SerialWorker
    <3>3. QED
      BY <1>0, <3>1, <3>2
  <2>5. QED
    BY <1>5, <2>1, <2>2, <2>3, <2>4 DEF WorkerStep
<1>6. ASSUME NEW w \in Workers, Crash(w) \/ Redeliver(w) PROVE TurnParts' /\ LeftByReuse
  <2>1. ~Redeliver(w)
    BY <1>1 DEF Redeliver, TypeInv, TypeOK
  <2>2. QED
    BY <1>0, <1>1, <1>6, <2>1, SerialCrash DEF Crash
<1>7. ASSUME ReapFlip PROVE TurnParts' /\ LeftByReuse
  BY <1>0, <1>1, <1>7, SerialFailed DEF ReapFlip
<1>8. ASSUME ReapScan \/ UNCHANGED vars PROVE TurnParts' /\ LeftByReuse
  <2>1. UNCHANGED <<state, runs, proc, queue>>
    BY <1>8 DEF ReapScan, ReapSelect, vars
  <2>2. QED
    BY <1>0, <1>1, <2>1 DEF TurnParts, SoleActor, DeliveryFits, RunningReady,
       StateMatchesOutputs, TasksFit, TaskFits, NoneRunning, OnlyRunning, OnlyAfter, ReadyFor,
       LoopsDone, ImportedStart, ActiveRuns
<1>9. TurnParts' /\ LeftByReuse
  BY <1>2, <1>3, <1>4, <1>5, <1>6, <1>7, <1>8 DEF Next
<1>10. QED
  BY <1>1, <1>9 DEF SerialInv

\* Without overlap there is one actor and one row in flight, and that row's
\* loop stays ready for it, through any crashes, lost dispatches and reaps.
THEOREM SerialInvariant ==
    ASSUME OneAtATime, MaxRedeliver = 0
    PROVE  Spec => []SerialInv
<1>1. SerialInv /\ [Next]_vars => SerialInv'
  BY SerialNext
<1>2. QED
  BY <1>1, SerialInit, PTL DEF Spec

\* An analyst who waits between operations always finds the state that the
\* active rows have (CoverageAssessment.state, _finalize_run), for any number
\* of re-runs, crashes and slow runs.
THEOREM StateMatchesOutputsAlways ==
    ASSUME OneAtATime, MaxRedeliver = 0
    PROVE  Spec => []StateMatchesOutputs
<1>1. SerialInv => StateMatchesOutputs
  BY DEF SerialInv, TurnParts
<1>2. QED
  BY <1>1, SerialInvariant, PTL

\* ... and a closed assessment is reopened by use_as_start alone.
THEOREM CompletedLeftByReuseAlways ==
    ASSUME OneAtATime, MaxRedeliver = 0
    PROVE  Spec => CompletedLeftByReuse
<1>1. SerialInv /\ [Next]_vars =>
        [state = "completed" /\ state' # "completed" =>
          /\ state' = "loop1_done"
          /\ \E r \in RunIds : ~runs[r].active /\ runs'[r].active /\ runs'[r].imported]_vars
  BY SerialNext DEF LeftByReuse
<1>2. SerialInv /\ [Next]_vars => SerialInv'
  BY SerialNext
<1>3. QED
  BY <1>1, <1>2, SerialInit, PTL DEF Spec, CompletedLeftByReuse

=============================================================================
