--------------------------- MODULE LiveFeed_proofs ---------------------------
(***************************************************************************)
(* Proofs about LiveFeed for any number of CVEs, workers, requests,        *)
(* retries and faults, and any setting of the limits.                      *)
(***************************************************************************)
EXTENDS LiveFeed, TLAPS

-----------------------------------------------------------------------------
(* The inductive invariant.  A worker's program counter says which work    *)
(* for its CVE has already been committed, and that the CVE it carries may *)
(* be processed.                                                           *)

\* Somebody approved it, or it needs no approval.
Cleared(c) == cves[c].mode # "historical" \/ cves[c].approved \/ c \in forced

\* What a worker past a stage relies on.
WorkFacts(w) ==
    /\ wk[w].pc \in {"synth_send", "synth_mark", "map_run", "map_mark", "map_send",
                      "rules_run", "rules_write", "rules_mark"}
         => CveOf(w) \in chains
    /\ wk[w].pc \in {"map_mark", "map_send", "rules_write", "rules_mark"}
         => CveOf(w) \in mapped
    /\ wk[w].pc = "rules_mark" => CveOf(w) \in ruled
    /\ wk[w].pc \notin {"idle", "ingest", "ingest_send"}
         => Exists(CveOf(w)) /\ Cleared(CveOf(w))

\* What a row's status says.  A failed row counts as processed: a webhook or a
\* poll puts it back to 'pending'.
RowFacts(c) ==
    /\ cves[c].status \in {"mapping", "generating", "complete"} => c \in chains
    /\ cves[c].status = "generating" => (c \in mapped \/ c \in forced)
    /\ cves[c].status = "complete" => (c \in mapped /\ c \in ruled)
    /\ cves[c].status \in InPipeline \cup {"failed"} => Cleared(c)

\* A row an import pass loaded is still there.
SeenExist ==
    import.pc = "staging" =>
      \A c \in Catalog : import.seen[c] # Absent => Exists(c)

FeedInv ==
    /\ TypeOK
    /\ \A w \in Workers : WorkFacts(w)
    /\ \A c \in Cves : RowFacts(c)
    /\ SeenExist

-----------------------------------------------------------------------------
(* What every step does: the histories only grow, and a row that exists    *)
(* keeps its mode and its approval.                                        *)

Grows == /\ chains \subseteq chains' /\ mapped \subseteq mapped'
         /\ ruled \subseteq ruled' /\ forced \subseteq forced'

RowKept(c) ==
    Exists(c) => /\ Exists(c)'
                 /\ cves'[c].mode = cves[c].mode
                 /\ cves[c].approved => cves'[c].approved

LEMMA BusyIsWork ==
    ASSUME TypeOK, NEW w \in Workers, wk[w].pc # "idle"
    PROVE  wk[w] \in Work /\ CveOf(w) \in Cves
  BY DEF TypeOK, Work, Idle, CveOf, Message

LEMMA WorkerFrame ==
    ASSUME FeedInv, Grows, \A c \in Cves : RowKept(c),
           NEW w \in Workers, wk'[w] = wk[w]
    PROVE  WorkFacts(w)'
  <1>1. CASE wk[w].pc = "idle"
    BY <1>1 DEF WorkFacts
  <1>2. CASE wk[w].pc # "idle"
    <2>1. CveOf(w) \in Cves /\ CveOf(w)' = CveOf(w)
      BY <1>2, BusyIsWork DEF FeedInv, CveOf
    <2>2. WorkFacts(w)
      BY DEF FeedInv
    <2>3. Exists(CveOf(w)) /\ Cleared(CveOf(w)) => (Exists(CveOf(w)) /\ Cleared(CveOf(w)))'
      BY <2>1 DEF RowKept, Cleared, Grows, Exists
    <2>4. QED
      BY <2>1, <2>2, <2>3 DEF WorkFacts, Grows
  <1>3. QED
    BY <1>1, <1>2

LEMMA RowFrame ==
    ASSUME FeedInv, Grows, NEW c \in Cves, cves'[c] = cves[c]
    PROVE  RowFacts(c)' /\ RowKept(c)
  BY DEF FeedInv, RowFacts, RowKept, Cleared, Grows, Exists

LEMMA SeenFrame ==
    ASSUME FeedInv, \A c \in Cves : RowKept(c), import' = import
    PROVE  SeenExist'
  BY FeedAssumption DEF FeedInv, SeenExist, RowKept

\* A step that writes the status of one row, and nothing else of it.
LEMMA StatusWrite ==
    ASSUME FeedInv, Grows, NEW c \in Cves, NEW s \in PROCESSING_STAGES,
           set_processing_stage(c, s),
           s \in {"mapping", "generating", "complete"} => c \in chains',
           s = "generating" => (c \in mapped' \/ c \in forced'),
           s = "complete" => (c \in mapped' /\ c \in ruled'),
           s \in InPipeline \cup {"failed"} => Cleared(c) \/ c \in forced'
    PROVE  /\ cves' \in [Cves -> Row]
           /\ \A d \in Cves : RowFacts(d)' /\ RowKept(d)
  <1>1. cves \in [Cves -> Row]
    BY DEF FeedInv, TypeOK
  <1>2. cves' \in [Cves -> Row]
    BY <1>1 DEF set_processing_stage, Row
  <1>3. /\ cves'[c].status = s /\ cves'[c].mode = cves[c].mode
        /\ cves'[c].approved = cves[c].approved
    BY <1>1 DEF set_processing_stage, Row
  <1>4. \A d \in Cves : d # c => cves'[d] = cves[d]
    BY <1>1 DEF set_processing_stage
  <1>5. RowFacts(c)' /\ RowKept(c)
    BY <1>3 DEF RowFacts, RowKept, Cleared, Grows, Exists, PROCESSING_STAGES, Absent
  <1>6. \A d \in Cves : d # c => RowFacts(d)' /\ RowKept(d)
    BY <1>4, RowFrame
  <1>7. QED
    BY <1>2, <1>5, <1>6

-----------------------------------------------------------------------------
(* Messages and workers.                                                   *)

LEMMA MsgType ==
    ASSUME NEW t \in TaskNames, NEW c \in Cves
    PROVE  Msg(t, c) \in Message
  BY FeedAssumption DEF Msg, Message

LEMMA RetryType ==
    ASSUME NEW m \in Message
    PROVE  Retry(m) \subseteq Message
  BY FeedAssumption DEF Retry, Message

LEMMA DispatchType ==
    ASSUME TypeOK, NEW M, M \subseteq Message, Dispatch(M)
    PROVE  tasks' \subseteq Message
  BY DEF TypeOK, Dispatch

LEMMA NextPcStep ==
    ASSUME TypeOK, NEW w \in Workers, wk[w].pc # "idle", NEW p \in WorkPcs,
           NextPc(w, p)
    PROVE  /\ wk' \in [Workers -> {Idle} \cup Work]
           /\ wk'[w].pc = p /\ CveOf(w)' = CveOf(w)
           /\ \A v \in Workers : v # w => wk'[v] = wk[v]
  <1>1. wk \in [Workers -> {Idle} \cup Work] /\ wk[w] \in Work
    BY BusyIsWork DEF TypeOK
  <1>2. wk' = [wk EXCEPT ![w] = [wk[w] EXCEPT !.pc = p]]
    BY DEF NextPc
  <1>3. [wk[w] EXCEPT !.pc = p] \in Work
    BY <1>1 DEF Work
  <1>4. wk'[w] = [wk[w] EXCEPT !.pc = p]
    BY <1>1, <1>2
  <1>5. wk'[w].pc = p /\ wk'[w].msg = wk[w].msg
    BY <1>1, <1>4 DEF Work
  <1>6. QED
    BY <1>1, <1>2, <1>3, <1>5 DEF CveOf

LEMMA DoneStep ==
    ASSUME TypeOK, NEW w \in Workers, Done(w)
    PROVE  /\ wk' \in [Workers -> {Idle} \cup Work]
           /\ WorkFacts(w)'
           /\ \A v \in Workers : v # w => wk'[v] = wk[v]
  <1>1. wk \in [Workers -> {Idle} \cup Work]
    BY DEF TypeOK
  <1>2. wk'[w].pc = "idle"
    BY <1>1 DEF Done, Idle
  <1>3. WorkFacts(w)'
    BY <1>2 DEF WorkFacts
  <1>4. QED
    BY <1>1, <1>3 DEF Done

LEMMA RowsUnchanged ==
    ASSUME FeedInv, Grows, cves' = cves
    PROVE  \A c \in Cves : RowFacts(c)' /\ RowKept(c)
  BY RowFrame

-----------------------------------------------------------------------------
(* Putting the parts of the invariant together.                            *)

\* The type invariant of what worker steps may change.
LEMMA Assemble ==
    ASSUME FeedInv, Grows, TypeOK', import' = import,
           \A c \in Cves : RowFacts(c)' /\ RowKept(c),
           \A w \in Workers : wk'[w] = wk[w] \/ WorkFacts(w)'
    PROVE  FeedInv'
  <1>1. \A w \in Workers : WorkFacts(w)'
    BY WorkerFrame
  <1>2. SeenExist'
    BY SeenFrame
  <1>3. QED
    BY <1>1, <1>2 DEF FeedInv

\* A request that moves no worker and writes no row.
LEMMA QuietStep ==
    ASSUME FeedInv, Grows, TypeOK',
           cves' = cves, wk' = wk, import' = import
    PROVE  FeedInv'
  BY RowsUnchanged, Assemble

-----------------------------------------------------------------------------
(* Ways a CVE enters.                                                      *)

LEMMA WebhookInv ==
    ASSUME FeedInv, NEW c \in Streamed, Webhook(c)
    PROVE  FeedInv'
  <1>1. {Msg("ingest", c)} \subseteq Message
    BY MsgType, FeedAssumption DEF TaskNames
  <1>2. tasks' \subseteq Message
    BY <1>1, DispatchType DEF Webhook, FeedInv
  <1>3. TypeOK'
    BY <1>2 DEF Webhook, FeedInv, TypeOK, Tables, Windows
  <1>4. Grows
    BY DEF Webhook, Grows, Tables
  <1>5. QED
    BY <1>3, <1>4, QuietStep DEF Webhook

\* An upserted row is one that exists and may be processed.
LEMMA UpsertedRow ==
    ASSUME FeedInv, Grows, NEW c \in Cves,
           cves'[c] = Upserted(cves[c], "live", "pending", FALSE)
    PROVE  cves'[c] \in Row /\ RowFacts(c)' /\ RowKept(c)
  <1>1. cves[c] \in Row /\ RowFacts(c)
    BY DEF FeedInv, TypeOK
  <1>2. CASE cves[c].status = Absent
    <2> DEFINE new == [status |-> "pending", mode |-> "live", job |-> FALSE,
                       approved |-> FALSE]
    <2>1. cves'[c] = new
      BY <1>2 DEF Upserted, Absent
    <2>2. new \in Row /\ new.status = "pending" /\ new.mode = "live"
      BY DEF Row, PROCESSING_STAGES, Modes
    <2> HIDE DEF new
    <2>3. RowFacts(c)' /\ RowKept(c)
      BY <1>2, <2>1, <2>2 DEF RowFacts, RowKept, Exists, Cleared
    <2>4. QED
      BY <2>1, <2>2, <2>3
  <1>3. CASE cves[c].status = "failed"
    <2>1. cves'[c] = [cves[c] EXCEPT !.status = "pending"]
      BY <1>3 DEF Upserted, Absent
    <2>2. cves'[c] \in Row /\ cves'[c].status = "pending"
          /\ cves'[c].mode = cves[c].mode /\ cves'[c].approved = cves[c].approved
      BY <2>1, <1>1 DEF Row, PROCESSING_STAGES
    <2>3. Cleared(c) /\ Cleared(c)'
      BY <1>1, <1>3, <2>2 DEF RowFacts, Cleared, Grows
    <2>4. QED
      BY <2>2, <2>3, <1>3 DEF RowFacts, RowKept, Exists, Absent
  <1>4. CASE cves[c].status # Absent /\ cves[c].status # "failed"
    BY <1>1, <1>4, RowFrame DEF Upserted
  <1>5. QED
    BY <1>2, <1>3, <1>4

LEMMA PollTickInv ==
    ASSUME FeedInv, NEW S \in SUBSET Streamed, PollTick(S)
    PROVE  FeedInv'
  <1>1. Grows
    BY DEF PollTick, Grows, Tables
  <1>2. ASSUME NEW c \in Cves
        PROVE  cves'[c] \in Row /\ RowFacts(c)' /\ RowKept(c)
    <2>1. CASE c \in S
      BY <1>1, <2>1, UpsertedRow DEF PollTick
    <2>2. CASE c \notin S
      BY <1>1, <2>2, RowFrame DEF PollTick, FeedInv, TypeOK
    <2>3. QED
      BY <2>1, <2>2
  <1>3. cves' \in [Cves -> Row]
    BY <1>2 DEF PollTick
  <1>4. TypeOK'
    BY <1>3, FeedAssumption DEF PollTick, FeedInv, TypeOK, Tables
  <1>5. QED
    BY <1>1, <1>2, <1>4, Assemble DEF PollTick

LEMMA CreateManualInv ==
    ASSUME FeedInv, NEW c \in Cves, CreateManual(c)
    PROVE  FeedInv'
  <1>1. Grows
    BY DEF CreateManual, Grows, Tables
  <1>2. tasks' \subseteq Message
    BY MsgType, DispatchType DEF CreateManual, FeedInv, TaskNames
  <1>3. cves \in [Cves -> Row]
    BY DEF FeedInv, TypeOK
  <1>4. /\ cves'[c] = [status |-> "synthesizing", mode |-> "manual", job |-> FALSE,
                       approved |-> FALSE]
        /\ \A d \in Cves : d # c => cves'[d] = cves[d]
    BY <1>3 DEF CreateManual, NoRow
  <1>5. cves' \in [Cves -> Row]
    BY <1>3 DEF CreateManual, NoRow, Row, PROCESSING_STAGES, Modes
  <1>6. cves'[c].status = "synthesizing" /\ cves'[c].mode = "manual"
    BY <1>4
  <1>7. RowFacts(c)' /\ RowKept(c)
    BY <1>6 DEF RowFacts, RowKept, Cleared, CreateManual
  <1>8. TypeOK'
    BY <1>2, <1>5 DEF CreateManual, FeedInv, TypeOK, Tables, Windows
  <1>9. QED
    BY <1>1, <1>4, <1>7, <1>8, RowFrame, Assemble DEF CreateManual

-----------------------------------------------------------------------------
(* The historical import.  A pass replaces import, so SeenExist is argued  *)
(* for each of its steps.                                                  *)

LEMMA AssembleImport ==
    ASSUME FeedInv, Grows, TypeOK', SeenExist',
           \A c \in Cves : RowFacts(c)' /\ RowKept(c), wk' = wk
    PROVE  FeedInv'
  <1>1. \A w \in Workers : WorkFacts(w)'
    BY WorkerFrame
  <1>2. QED
    BY <1>1 DEF FeedInv

LEMMA NoImportType == NoImport \in ImportPass
  BY DEF NoImport, ImportPass, Status

LEMMA StartImportInv ==
    ASSUME FeedInv, StartImport
    PROVE  FeedInv'
  <1>1. Grows
    BY DEF StartImport, Grows, Tables
  <1>2. import \in ImportPass
    BY DEF FeedInv, TypeOK
  <1>3. import' \in ImportPass /\ import'.pc # "staging"
    BY <1>2 DEF StartImport, ImportPass
  <1>4. TypeOK'
    BY <1>3 DEF StartImport, FeedInv, TypeOK, Tables, Windows
  <1>5. SeenExist'
    BY <1>3 DEF SeenExist
  <1>6. QED
    BY <1>1, <1>4, <1>5, RowsUnchanged, AssembleImport DEF StartImport

LEMMA StageReadInv ==
    ASSUME FeedInv, NEW P \in SUBSET Catalog, NEW K \in SUBSET Kev,
           StageRead(P, K)
    PROVE  FeedInv'
  <1>1. Grows
    BY DEF StageRead, Grows, Tables
  <1>2. [c \in Catalog |-> cves[c].status] \in [Catalog -> Status]
    BY FeedAssumption DEF FeedInv, TypeOK, Row, Status
  <1>3. import' \in ImportPass
    BY <1>2 DEF StageRead, ImportPass
  <1>4. TypeOK'
    BY <1>3 DEF StageRead, FeedInv, TypeOK, Tables, Windows
  <1>5. SeenExist'
    BY DEF SeenExist, StageRead, Exists
  <1>6. QED
    BY <1>1, <1>4, <1>5, RowsUnchanged, AssembleImport DEF StageRead

LEMMA DecisionType ==
    ASSUME NEW c
    PROVE  /\ StageDecision(c) \in {"skipped", "pending", "staged"}
           /\ StageDecision(c) = "pending" => c \in AutoApproved
  BY DEF StageDecision, AutoApproved

\* The row a pass writes for a record nobody inserted meanwhile.
LEMMA StagedRowFacts ==
    ASSUME FeedInv, Grows, NEW c \in Catalog, import.pc = "staging", Raced = {},
           cves'[c] = StagedRow(c)
    PROVE  cves'[c] \in Row /\ RowFacts(c)' /\ RowKept(c)
  <1> DEFINE d == StageDecision(c)
             fresh == [NoRow EXCEPT !.mode = "historical", !.job = TRUE]
             base == IF import.seen[c] = Absent THEN fresh ELSE cves[c]
             st == IF import.seen[c] = d THEN base.status ELSE d
             app == base.approved \/ c \in AutoApproved
  <1>1. c \in Cves /\ cves[c] \in Row /\ RowFacts(c)
    BY FeedAssumption DEF FeedInv, TypeOK
  <1>2. fresh \in Row /\ fresh.status = Absent
    BY DEF NoRow, Row, Modes
  <1>3. base \in Row
    BY <1>1, <1>2
  <1>4. cves'[c] = [base EXCEPT !.status = st, !.approved = app]
    BY DEF StagedRow
  <1>5. d \in {"skipped", "pending", "staged"} /\ (d = "pending" => c \in AutoApproved)
    BY DecisionType
  <1> HIDE DEF d, fresh
  <1>6. base.status \in Status /\ base.approved \in BOOLEAN
    BY <1>3 DEF Row, Status
  <1>7. st \in Status /\ app \in BOOLEAN
    BY <1>5, <1>6 DEF Status, PROCESSING_STAGES
  <1> HIDE DEF st, app, base
  <1>8. cves'[c] \in Row /\ cves'[c].status = st /\ cves'[c].mode = base.mode
        /\ cves'[c].approved = app
    BY <1>3, <1>4, <1>7 DEF Row, Status
  <1>9. CASE import.seen[c] = Absent
    <2>1. ~Exists(c)
      BY <1>9 DEF Raced
    <2>2. st = d
      BY <1>9, <1>5 DEF st, Absent
    <2>3. st = "pending" => app
      BY <2>2, <1>5 DEF app
    <2>4. QED
      BY <1>5, <1>8, <2>1, <2>2, <2>3
      DEF RowFacts, RowKept, Cleared, InPipeline
  <1>10. CASE import.seen[c] # Absent
    <2>1. Exists(c)
      BY <1>10 DEF FeedInv, SeenExist
    <2>2. base = cves[c]
      BY <1>10 DEF base
    <2>3. RowKept(c)
      BY <1>5, <1>8, <2>1, <2>2 DEF RowKept, Exists, st, app, Absent
    <2>4. CASE import.seen[c] = d
      <3>1. cves'[c].status = cves[c].status /\ cves'[c].mode = cves[c].mode
            /\ (cves[c].approved => cves'[c].approved)
        BY <1>8, <2>2, <2>4 DEF st, app
      <3>2. RowFacts(c)'
        BY <1>1, <3>1 DEF RowFacts, Cleared, Grows
      <3>3. QED
        BY <1>8, <2>3, <3>2
    <2>5. CASE import.seen[c] # d
      <3>1. st = d /\ (st = "pending" => app)
        BY <1>5, <2>5 DEF st, app
      <3>2. RowFacts(c)'
        BY <1>5, <1>8, <3>1 DEF RowFacts, Cleared, InPipeline
      <3>3. QED
        BY <1>8, <2>3, <3>2
    <2>6. QED
      BY <2>4, <2>5
  <1>11. QED
    BY <1>9, <1>10

LEMMA AutoApprovedType ==
    ASSUME FeedInv
    PROVE  AutoApproved \subseteq Cves
  BY FeedAssumption DEF FeedInv, TypeOK, ImportPass, AutoApproved

LEMMA StageCommitInv ==
    ASSUME FeedInv, StageCommit
    PROVE  FeedInv'
  <1>1. Grows
    BY DEF StageCommit, Grows, Tables
  <1>2. ASSUME NEW c \in Cves
        PROVE  cves'[c] \in Row /\ RowFacts(c)' /\ RowKept(c)
    <2>1. CASE c \in Catalog
      BY <1>1, <2>1, StagedRowFacts DEF StageCommit
    <2>2. CASE c \notin Catalog
      BY <1>1, <2>2, RowFrame DEF StageCommit, FeedInv, TypeOK
    <2>3. QED
      BY <2>1, <2>2
  <1>3. cves' \in [Cves -> Row]
    BY <1>2 DEF StageCommit
  <1>4. TypeOK'
    BY <1>3, NoImportType, AutoApprovedType DEF StageCommit, FeedInv, TypeOK, Tables
  <1>5. SeenExist'
    BY DEF StageCommit, SeenExist, NoImport
  <1>6. QED
    BY <1>1, <1>2, <1>4, <1>5, AssembleImport DEF StageCommit

LEMMA StageRacedInv ==
    ASSUME FeedInv, NEW c \in Catalog, StageRaced(c)
    PROVE  FeedInv'
  <1>1. Grows
    BY DEF StageRaced, Grows, Tables
  <1>2. cves \in [Cves -> Row] /\ c \in Cves /\ Exists(c)
    BY FeedAssumption DEF FeedInv, TypeOK, StageRaced, Raced
  <1>3. /\ cves' \in [Cves -> Row] /\ today' \subseteq Cves
        /\ \A d \in Cves : RowFacts(d)' /\ RowKept(d)
    <2>1. CASE UNCHANGED <<cves, today>>
      BY <1>1, <2>1, RowsUnchanged DEF FeedInv, TypeOK
    <2>2. CASE /\ cves' = [cves EXCEPT ![c].status = StageDecision(c),
                                       ![c].approved = @ \/ c \in AutoApproved]
               /\ today' = today \cup (AutoApproved \cap {c})
      <3> DEFINE d == StageDecision(c)
                 app == cves[c].approved \/ c \in AutoApproved
      <3>1. d \in {"skipped", "pending", "staged"} /\ (d = "pending" => app)
        BY DecisionType
      <3>2. app \in BOOLEAN
        BY <1>2 DEF Row
      <3>3. cves' = [cves EXCEPT ![c] = [cves[c] EXCEPT !.status = d, !.approved = app]]
        BY <1>2, <2>2
      <3>4. cves[c].approved => app
        OBVIOUS
      <3> HIDE DEF d, app
      <3>5. [cves[c] EXCEPT !.status = d, !.approved = app] \in Row
        BY <1>2, <3>1, <3>2 DEF Row, PROCESSING_STAGES
      <3>6. /\ cves' \in [Cves -> Row]
            /\ cves'[c] = [cves[c] EXCEPT !.status = d, !.approved = app]
            /\ \A e \in Cves : e # c => cves'[e] = cves[e]
        BY <1>2, <3>3, <3>5
      <3>7. cves'[c].status = d /\ cves'[c].approved = app
            /\ cves'[c].mode = cves[c].mode
        BY <1>2, <3>6 DEF Row
      <3>8. RowFacts(c)' /\ RowKept(c)
        BY <3>1, <3>4, <3>7 DEF RowFacts, RowKept, Cleared, Exists, InPipeline, Absent
      <3>9. today' \subseteq Cves
        BY <1>2, <2>2 DEF FeedInv, TypeOK
      <3>10. QED
        BY <1>1, <3>6, <3>8, <3>9, RowFrame
    <2>3. QED
      BY <2>1, <2>2 DEF StageRaced
  <1>4. TypeOK'
    BY <1>3, NoImportType DEF StageRaced, FeedInv, TypeOK, Tables
  <1>5. SeenExist'
    BY DEF StageRaced, SeenExist, NoImport
  <1>6. QED
    BY <1>1, <1>3, <1>4, <1>5, AssembleImport DEF StageRaced

-----------------------------------------------------------------------------
(* Approval, and the operator's requests.                                  *)

LEMMA MsgsType ==
    ASSUME NEW t \in TaskNames, NEW S, S \subseteq Cves
    PROVE  {Msg(t, c) : c \in S} \subseteq Message
  BY MsgType

LEMMA ApproveSendInv ==
    ASSUME FeedInv, NEW S \in SUBSET Cves, ApproveSend(S)
    PROVE  FeedInv'
  <1>1. tasks' \subseteq Message
    BY MsgsType, DispatchType DEF ApproveSend, FeedInv, TaskNames
  <1>2. TypeOK' /\ Grows
    BY <1>1 DEF ApproveSend, FeedInv, TypeOK, Tables, Windows, Grows
  <1>3. QED
    BY <1>2, QuietStep DEF ApproveSend

LEMMA ApproveCommitInv ==
    ASSUME FeedInv, ApproveCommit
    PROVE  FeedInv'
  <1>1. Grows
    BY DEF ApproveCommit, Grows, Tables
  <1>2. ASSUME NEW c \in Cves
        PROVE  cves'[c] \in Row /\ RowFacts(c)' /\ RowKept(c)
    <2>1. cves[c] \in Row
      BY DEF FeedInv, TypeOK
    <2>2. CASE c \in approving
      <3>1. cves'[c] = [cves[c] EXCEPT !.status = "pending", !.approved = TRUE]
        BY <2>2 DEF ApproveCommit
      <3>2. /\ cves'[c] \in Row /\ cves'[c].status = "pending"
            /\ cves'[c].approved /\ cves'[c].mode = cves[c].mode
        BY <2>1, <3>1 DEF Row, PROCESSING_STAGES
      <3>3. QED
        BY <3>2 DEF RowFacts, RowKept, Cleared, Exists, Absent
    <2>3. CASE c \notin approving
      BY <1>1, <2>1, <2>3, RowFrame DEF ApproveCommit
    <2>4. QED
      BY <2>2, <2>3
  <1>3. cves' \in [Cves -> Row]
    BY <1>2 DEF ApproveCommit
  <1>4. TypeOK'
    BY <1>3 DEF ApproveCommit, FeedInv, TypeOK, Tables
  <1>5. QED
    BY <1>1, <1>2, <1>4, Assemble DEF ApproveCommit

LEMMA ApproveAbortsInv ==
    ASSUME FeedInv, ApproveAborts
    PROVE  FeedInv'
  <1>1. TypeOK' /\ Grows
    BY DEF ApproveAborts, FeedInv, TypeOK, Tables, Windows, Grows
  <1>2. QED
    BY <1>1, QuietStep DEF ApproveAborts

LEMMA SkipCvesInv ==
    ASSUME FeedInv, NEW S \in SUBSET Cves, SkipCves(S)
    PROVE  FeedInv'
  <1>1. Grows
    BY DEF SkipCves, Grows, Tables
  <1>2. ASSUME NEW c \in Cves
        PROVE  cves'[c] \in Row /\ RowFacts(c)' /\ RowKept(c)
    <2>1. cves[c] \in Row
      BY DEF FeedInv, TypeOK
    <2>2. CASE c \in S
      <3>1. cves'[c] = [cves[c] EXCEPT !.status = "skipped"]
        BY <2>2 DEF SkipCves
      <3>2. /\ cves'[c] \in Row /\ cves'[c].status = "skipped"
            /\ cves'[c].approved = cves[c].approved /\ cves'[c].mode = cves[c].mode
        BY <2>1, <3>1 DEF Row, PROCESSING_STAGES
      <3>3. QED
        BY <3>2 DEF RowFacts, RowKept, Exists, Absent, InPipeline
    <2>3. CASE c \notin S
      BY <1>1, <2>1, <2>3, RowFrame DEF SkipCves
    <2>4. QED
      BY <2>2, <2>3
  <1>3. cves' \in [Cves -> Row]
    BY <1>2 DEF SkipCves
  <1>4. TypeOK'
    BY <1>3 DEF SkipCves, FeedInv, TypeOK, Tables, Windows
  <1>5. QED
    BY <1>1, <1>2, <1>4, Assemble DEF SkipCves

LEMMA DeleteJobInv ==
    ASSUME FeedInv, DeleteJob
    PROVE  FeedInv'
  <1>1. Grows
    BY DEF DeleteJob, Grows, Tables
  <1>2. ASSUME NEW c \in Cves
        PROVE  cves'[c] \in Row /\ RowFacts(c)' /\ RowKept(c)
    <2>1. cves[c] \in Row /\ RowFacts(c)
      BY DEF FeedInv, TypeOK
    <2>2. cves'[c] = [cves[c] EXCEPT !.job = FALSE]
      BY DEF DeleteJob
    <2>3. /\ cves'[c] \in Row /\ cves'[c].status = cves[c].status
          /\ cves'[c].approved = cves[c].approved /\ cves'[c].mode = cves[c].mode
      BY <2>1, <2>2 DEF Row
    <2>4. QED
      BY <1>1, <2>1, <2>3 DEF RowFacts, RowKept, Exists, Cleared, Grows
  <1>3. cves' \in [Cves -> Row]
    BY <1>2 DEF DeleteJob
  <1>4. TypeOK'
    BY <1>3 DEF DeleteJob, FeedInv, TypeOK, Tables, Windows
  <1>5. QED
    BY <1>1, <1>2, <1>4, Assemble DEF DeleteJob

\* Each of these puts the CVE among the forced ones, so any status is cleared.
LEMMA RequeueInv ==
    ASSUME FeedInv, NEW c \in Cves,
           Reprocess(c) \/ Resynthesize(c) \/ Regenerate(c)
    PROVE  FeedInv'
  <1>1. Grows /\ c \in forced' /\ chains' = chains /\ wk' = wk /\ import' = import
    BY DEF Reprocess, Resynthesize, Regenerate, Grows, Tables
  <1>2. PICK t \in TaskNames : Dispatch({Msg(t, c)})
    BY DEF Reprocess, Resynthesize, Regenerate, TaskNames
  <1>3. tasks' \subseteq Message
    BY <1>2, MsgType, DispatchType DEF FeedInv
  <1>4. PICK s \in {"pending", "synthesizing", "generating"} :
          set_processing_stage(c, s) /\ (s = "generating" => c \in chains)
    BY DEF Reprocess, Resynthesize, Regenerate
  <1>5. /\ cves' \in [Cves -> Row]
        /\ \A d \in Cves : RowFacts(d)' /\ RowKept(d)
    BY <1>1, <1>4, StatusWrite DEF PROCESSING_STAGES
  <1>6. TypeOK'
    BY <1>3, <1>5 DEF Reprocess, Resynthesize, Regenerate, FeedInv, TypeOK, Tables,
                      Windows
  <1>7. QED
    BY <1>1, <1>5, <1>6, Assemble

LEMMA RecomputeInv ==
    ASSUME FeedInv, NEW c \in Cves,
           RecomputeChain(c) \/ AssessmentChain(c)
    PROVE  FeedInv'
  <1>1. TypeOK' /\ Grows
    BY DEF RecomputeChain, AssessmentChain, FeedInv, TypeOK, Windows, Grows
  <1>2. QED
    BY <1>1, QuietStep DEF RecomputeChain, AssessmentChain

LEMMA CoverageDispatchInv ==
    ASSUME FeedInv, NEW c \in Cves, CoverageDispatch(c)
    PROVE  FeedInv'
  <1>1. tasks' \subseteq Message
    BY MsgType, DispatchType DEF CoverageDispatch, FeedInv, TaskNames
  <1>2. TypeOK' /\ Grows
    BY <1>1 DEF CoverageDispatch, FeedInv, TypeOK, Tables, Windows, Grows
  <1>3. QED
    BY <1>2, QuietStep DEF CoverageDispatch

LEMMA RecomputeAllInv ==
    ASSUME FeedInv, RecomputeAll
    PROVE  FeedInv'
  <1>1. tasks' \subseteq Message
    BY MsgsType, DispatchType DEF RecomputeAll, FeedInv, TypeOK, TaskNames
  <1>2. TypeOK' /\ Grows
    BY <1>1 DEF RecomputeAll, FeedInv, TypeOK, Tables, Windows, Grows
  <1>3. QED
    BY <1>2, QuietStep DEF RecomputeAll

LEMMA GenerateForTechniqueInv ==
    ASSUME FeedInv, NEW C \in SUBSET Cves, GenerateForTechnique(C)
    PROVE  FeedInv'
  <1>1. tasks' \subseteq Message
    BY MsgsType, DispatchType DEF GenerateForTechnique, FeedInv, TaskNames
  <1>2. TypeOK' /\ Grows
    BY <1>1 DEF GenerateForTechnique, FeedInv, TypeOK, Tables, Windows, Grows
  <1>3. QED
    BY <1>2, QuietStep DEF GenerateForTechnique

-----------------------------------------------------------------------------
(* The periodic drain, and the windows.                                    *)

LEMMA EnforceBudgetInv ==
    ASSUME FeedInv, NEW S \in SUBSET Cves, EnforceBudget(S)
    PROVE  FeedInv'
  <1>1. S \subseteq Cves
    OBVIOUS
  <1>2. tasks' \subseteq Message
    BY <1>1, MsgsType, DispatchType DEF EnforceBudget, FeedInv, TaskNames
  <1>3. TypeOK' /\ Grows
    BY <1>2 DEF EnforceBudget, FeedInv, TypeOK, Tables, Windows, Requests, Grows
  <1>4. QED
    BY <1>3, QuietStep DEF EnforceBudget, Requests

LEMMA WindowInv ==
    ASSUME FeedInv, NEW c \in Cves, HourPasses(c) \/ DayPasses(c)
    PROVE  FeedInv'
  <1>1. TypeOK' /\ Grows
    BY DEF HourPasses, DayPasses, FeedInv, TypeOK, Tables, Requests, Grows
  <1>2. QED
    BY <1>1, QuietStep DEF HourPasses, DayPasses, Requests

-----------------------------------------------------------------------------
(* A worker takes a message.                                               *)

LEMMA BusyType ==
    ASSUME TypeOK, NEW w \in Workers, NEW p \in WorkPcs, NEW m \in Message,
           NEW s \in Status, wk' = [wk EXCEPT ![w] = Busy(p, m, s)]
    PROVE  /\ wk' \in [Workers -> {Idle} \cup Work]
           /\ wk'[w].pc = p /\ CveOf(w)' = m.cve
           /\ \A v \in Workers : v # w => wk'[v] = wk[v]
  <1>1. wk \in [Workers -> {Idle} \cup Work]
    BY DEF TypeOK
  <1>2. Busy(p, m, s) \in Work
    BY DEF Busy, Work
  <1>3. wk'[w] = Busy(p, m, s)
    BY <1>1
  <1>4. wk'[w].pc = p /\ wk'[w].msg = m
    BY <1>3 DEF Busy
  <1>5. QED
    BY <1>1, <1>2, <1>4 DEF CveOf

LEMMA IngestTakeInv ==
    ASSUME FeedInv, NEW w \in Workers, NEW m \in tasks,
           IngestLimited(w, m) \/ IngestCheck(w, m)
    PROVE  FeedInv'
  <1>1. m \in Message
    BY DEF FeedInv, TypeOK
  <1>2. tasks' \subseteq Message
    BY <1>1, RetryType DEF FeedInv, TypeOK, IngestLimited, IngestCheck
  <1>3. Grows
    BY DEF IngestLimited, IngestCheck, Tables, Requests, Grows
  <1>4. CASE IngestLimited(w, m)
    <2>1. TypeOK'
      BY <1>2, <1>4 DEF IngestLimited, FeedInv, TypeOK, Tables, Windows, Requests
    <2>2. QED
      BY <1>3, <1>4, <2>1, QuietStep DEF IngestLimited, Requests
  <1>5. CASE IngestCheck(w, m)
    <2>1. /\ wk' \in [Workers -> {Idle} \cup Work]
          /\ wk'[w].pc = "ingest"
          /\ \A v \in Workers : v # w => wk'[v] = wk[v]
      BY <1>1, <1>5, BusyType DEF IngestCheck, FeedInv, WorkPcs, Status
    <2>2. WorkFacts(w)'
      BY <2>1 DEF WorkFacts
    <2>3. TypeOK'
      BY <1>2, <1>5, <2>1 DEF IngestCheck, FeedInv, TypeOK, Tables, Windows, Requests
    <2>4. QED
      BY <1>3, <1>5, <2>1, <2>2, <2>3, RowsUnchanged, Assemble DEF IngestCheck, Requests
  <1>6. QED
    BY <1>4, <1>5

\* What the status a task accepts promises to the worker.
LEMMA LoadInv ==
    ASSUME FeedInv, NEW w \in Workers, NEW m \in tasks,
           NEW acc \in SUBSET InPipeline, NEW p \in WorkPcs, Load(w, m, acc, p),
           p \in {"enrich_mark", "synth_run", "map_run", "rules_run"},
           p \in {"map_run", "rules_run"}
             => acc \subseteq {"mapping", "generating", "complete"}
    PROVE  FeedInv'
  <1>1. m \in Message /\ m.cve \in Cves
    BY DEF FeedInv, TypeOK, Message
  <1>2. Grows /\ tasks' \subseteq Message
    BY DEF Load, Tables, Requests, Grows, FeedInv, TypeOK
  <1>3. CASE cves[m.cve].status \in acc
    <2>1. cves[m.cve].status \in Status
      BY <1>1 DEF FeedInv, TypeOK, Row, Status
    <2>2. /\ wk' \in [Workers -> {Idle} \cup Work]
          /\ wk'[w].pc = p /\ CveOf(w)' = m.cve
          /\ \A v \in Workers : v # w => wk'[v] = wk[v]
      BY <1>1, <1>3, <2>1, BusyType DEF Load, FeedInv
    <2>3. RowFacts(m.cve) /\ Cleared(m.cve) /\ Exists(m.cve)
      BY <1>1, <1>3 DEF FeedInv, RowFacts, InPipeline, Exists, Absent
    <2>4. p \in {"map_run", "rules_run"} => m.cve \in chains
      BY <1>3, <2>3 DEF RowFacts
    <2>5. (Exists(m.cve) /\ Cleared(m.cve))' /\ chains' = chains
      BY <2>3 DEF Load, Tables, Requests, Exists, Cleared
    <2>6. (Exists(CveOf(w)) /\ Cleared(CveOf(w)))'
      BY <2>2, <2>5 DEF Exists, Cleared
    <2>7. WorkFacts(w)'
      BY <2>2, <2>4, <2>5, <2>6 DEF WorkFacts
    <2>8. TypeOK'
      BY <1>2, <2>2 DEF Load, FeedInv, TypeOK, Tables, Windows, Requests
    <2>9. QED
      BY <1>2, <2>2, <2>7, <2>8, RowsUnchanged, Assemble DEF Load, Requests
  <1>4. CASE cves[m.cve].status \notin acc
    <2>1. TypeOK'
      BY <1>2, <1>4 DEF Load, FeedInv, TypeOK, Tables, Windows, Requests
    <2>2. QED
      BY <1>2, <1>4, <2>1, QuietStep DEF Load, Requests
  <1>5. QED
    BY <1>3, <1>4

LEMMA TakeInv ==
    ASSUME FeedInv, NEW w \in Workers, NEW m \in tasks, Take(w, m)
    PROVE  FeedInv'
  <1>1. CASE EnrichLoad(w, m)
    BY <1>1, LoadInv DEF EnrichLoad, InPipeline, WorkPcs
  <1>2. CASE SynthLoad(w, m)
    BY <1>2, LoadInv DEF SynthLoad, InPipeline, WorkPcs
  <1>3. CASE MapLoad(w, m)
    BY <1>3, LoadInv DEF MapLoad, InPipeline, WorkPcs
  <1>4. CASE RulesLoad(w, m)
    BY <1>4, LoadInv DEF RulesLoad, InPipeline, WorkPcs
  <1>5. QED
    BY <1>1, <1>2, <1>3, <1>4, IngestTakeInv DEF Take

-----------------------------------------------------------------------------
(* A worker works.                                                         *)

ChainPcs == {"synth_send", "synth_mark", "map_run", "map_mark", "map_send",
             "rules_run", "rules_write", "rules_mark"}
MappedPcs == {"map_mark", "map_send", "rules_write", "rules_mark"}
Working(w) == wk[w].pc \notin {"idle", "ingest", "ingest_send"}

\* A worker that moves on keeps its CVE, and what it needs is what the new
\* program counter asks for.
LEMMA MovedFacts ==
    ASSUME FeedInv, Grows, \A c \in Cves : RowKept(c), NEW w \in Workers,
           Working(w), NEW p \in WorkPcs, NextPc(w, p),
           p \in ChainPcs => CveOf(w) \in chains',
           p \in MappedPcs => CveOf(w) \in mapped',
           p = "rules_mark" => CveOf(w) \in ruled'
    PROVE  /\ wk' \in [Workers -> {Idle} \cup Work]
           /\ WorkFacts(w)'
           /\ \A v \in Workers : v # w => wk'[v] = wk[v]
  <1>1. wk[w].pc # "idle" /\ TypeOK /\ WorkFacts(w)
    BY DEF Working, FeedInv
  <1>2. /\ wk' \in [Workers -> {Idle} \cup Work]
        /\ wk'[w].pc = p /\ CveOf(w)' = CveOf(w)
        /\ \A v \in Workers : v # w => wk'[v] = wk[v]
    BY <1>1, NextPcStep
  <1>3. CveOf(w) \in Cves
    BY <1>1, BusyIsWork
  <1>4. Exists(CveOf(w)) /\ Cleared(CveOf(w))
    BY <1>1 DEF WorkFacts, Working
  <1>5. (Exists(CveOf(w)) /\ Cleared(CveOf(w)))'
    BY <1>2, <1>3, <1>4 DEF RowKept, Cleared, Grows, Exists
  <1>6. WorkFacts(w)'
    BY <1>2, <1>5 DEF WorkFacts, ChainPcs, MappedPcs
  <1>7. QED
    BY <1>2, <1>6

\* A step that writes the status of the CVE at hand.
LEMMA MarkInv ==
    ASSUME FeedInv, NEW w \in Workers, Working(w), NEW s \in PROCESSING_STAGES,
           NEW p \in WorkPcs \cup {"idle"}, Mark(w, s, p),
           s \in {"mapping", "generating", "complete"} => CveOf(w) \in chains,
           s = "generating" => CveOf(w) \in mapped,
           s = "complete" => (CveOf(w) \in mapped /\ CveOf(w) \in ruled),
           p \in ChainPcs => CveOf(w) \in chains,
           p \in MappedPcs => CveOf(w) \in mapped,
           p # "rules_mark"
    PROVE  FeedInv'
  <1>1. CveOf(w) \in Cves /\ Cleared(CveOf(w))
    BY BusyIsWork DEF FeedInv, WorkFacts, Working
  <1>2. Grows /\ chains' = chains /\ mapped' = mapped /\ ruled' = ruled
        /\ forced' = forced
    BY DEF Mark, Tables, Requests, Grows
  <1>3. /\ cves' \in [Cves -> Row]
        /\ \A d \in Cves : RowFacts(d)' /\ RowKept(d)
    BY <1>1, <1>2, StatusWrite DEF Mark
  <1>4. /\ wk' \in [Workers -> {Idle} \cup Work]
        /\ WorkFacts(w)'
        /\ \A v \in Workers : v # w => wk'[v] = wk[v]
    <2>1. CASE p = "idle"
      BY <2>1, DoneStep DEF Mark, FeedInv
    <2>2. CASE p # "idle"
      BY <2>2, <1>2, <1>3, MovedFacts DEF Mark
    <2>3. QED
      BY <2>1, <2>2
  <1>5. TypeOK'
    BY <1>3, <1>4 DEF Mark, FeedInv, TypeOK, Tables, Windows, Requests
  <1>6. QED
    BY <1>2, <1>3, <1>4, <1>5, Assemble DEF Mark, Requests

LEMMA MarkFailedInv ==
    ASSUME FeedInv, NEW w \in Workers, Working(w), MarkFailed(w)
    PROVE  FeedInv'
  <1>1. CveOf(w) \in Cves /\ Cleared(CveOf(w))
    BY BusyIsWork DEF FeedInv, WorkFacts, Working
  <1>2. Grows
    BY DEF MarkFailed, Tables, Requests, Grows
  <1>3. /\ cves' \in [Cves -> Row]
        /\ \A d \in Cves : RowFacts(d)' /\ RowKept(d)
    BY <1>1, <1>2, StatusWrite
    DEF MarkFailed, set_processing_failed, PROCESSING_STAGES
  <1>4. /\ wk' \in [Workers -> {Idle} \cup Work]
        /\ WorkFacts(w)'
        /\ \A v \in Workers : v # w => wk'[v] = wk[v]
    BY DoneStep DEF MarkFailed, FeedInv
  <1>5. TypeOK'
    BY <1>3, <1>4 DEF MarkFailed, FeedInv, TypeOK, Tables, Windows, Requests
  <1>6. QED
    BY <1>2, <1>3, <1>4, <1>5, Assemble DEF MarkFailed, Requests

LEMMA SendInv ==
    ASSUME FeedInv, NEW w \in Workers, Working(w), NEW t \in TaskNames,
           NEW p \in WorkPcs \cup {"idle"}, Send(w, t, p),
           p \in ChainPcs => CveOf(w) \in chains, p \notin MappedPcs
    PROVE  FeedInv'
  <1>1. CveOf(w) \in Cves
    BY BusyIsWork DEF FeedInv, Working
  <1>2. Grows /\ chains' = chains
    BY DEF Send, Tables, Requests, Grows
  <1>3. tasks' \subseteq Message
    BY <1>1, MsgType, DispatchType DEF Send, FeedInv
  <1>4. \A d \in Cves : RowFacts(d)' /\ RowKept(d)
    BY <1>2, RowsUnchanged DEF Send
  <1>5. /\ wk' \in [Workers -> {Idle} \cup Work]
        /\ WorkFacts(w)'
        /\ \A v \in Workers : v # w => wk'[v] = wk[v]
    <2>1. CASE p = "idle"
      BY <2>1, DoneStep DEF Send, FeedInv
    <2>2. CASE p # "idle"
      BY <2>2, <1>2, <1>4, MovedFacts DEF Send, MappedPcs
    <2>3. QED
      BY <2>1, <2>2
  <1>6. TypeOK'
    BY <1>3, <1>5 DEF Send, FeedInv, TypeOK, Tables, Windows, Requests
  <1>7. QED
    BY <1>2, <1>4, <1>5, <1>6, Assemble DEF Send, Requests

\* A step that commits work: the tables grow, no row is written.
LEMMA CommitInv ==
    ASSUME FeedInv, NEW w \in Workers, Working(w), NEW p \in WorkPcs,
           NextPc(w, p), Grows,
           chains' \subseteq Cves, active' \subseteq chains',
           mapped' \subseteq Cves, ruled' \subseteq Cves,
           UNCHANGED <<cves, Windows, tasks, Requests, faults>>,
           p \in ChainPcs => CveOf(w) \in chains',
           p \in MappedPcs => CveOf(w) \in mapped',
           p = "rules_mark" => CveOf(w) \in ruled'
    PROVE  FeedInv'
  <1>1. \A d \in Cves : RowFacts(d)' /\ RowKept(d)
    BY RowsUnchanged
  <1>2. /\ wk' \in [Workers -> {Idle} \cup Work]
        /\ WorkFacts(w)'
        /\ \A v \in Workers : v # w => wk'[v] = wk[v]
    BY <1>1, MovedFacts
  <1>3. TypeOK'
    BY <1>2 DEF FeedInv, TypeOK, Windows, Requests
  <1>4. QED
    BY <1>1, <1>2, <1>3, Assemble DEF Requests

\* A worker that stops without touching a row.
LEMMA StopInv ==
    ASSUME FeedInv, NEW w \in Workers, Done(w), tasks' \subseteq Message,
           UNCHANGED <<cves, Tables, Windows, Requests>>
    PROVE  FeedInv'
  <1>1. Grows
    BY DEF Tables, Requests, Grows
  <1>2. /\ wk' \in [Workers -> {Idle} \cup Work]
        /\ WorkFacts(w)'
        /\ \A v \in Workers : v # w => wk'[v] = wk[v]
    BY DoneStep DEF FeedInv
  <1>3. TypeOK'
    BY <1>2 DEF FeedInv, TypeOK, Tables, Windows, Requests
  <1>4. QED
    BY <1>1, <1>2, <1>3, RowsUnchanged, Assemble DEF Requests

LEMMA IngestStepInv ==
    ASSUME FeedInv, NEW w \in Workers,
           IngestCommit(w) \/ IngestNotFound(w) \/ IngestSend(w)
    PROVE  FeedInv'
  <1>1. wk[w].pc # "idle" /\ CveOf(w) \in Cves
    BY BusyIsWork DEF IngestCommit, IngestNotFound, IngestSend, At, FeedInv
  <1>2. CASE IngestCommit(w)
    <2> PICK c \in Cves : c = CveOf(w)
      BY <1>1
    <2>1. Grows
      BY <1>2 DEF IngestCommit, Tables, Requests, Grows
    <2>2. cves \in [Cves -> Row]
      BY DEF FeedInv, TypeOK
    <2>3. /\ cves'[c] = Upserted(cves[c], "live", "pending", FALSE)
          /\ \A d \in Cves : d # c => cves'[d] = cves[d]
          /\ DOMAIN cves' = Cves
          /\ cves' = [d \in DOMAIN cves' |-> cves'[d]]
      BY <1>1, <1>2, <2>2 DEF IngestCommit
    <2>4. cves'[c] \in Row /\ RowFacts(c)' /\ RowKept(c)
      BY <1>1, <2>1, <2>3, UpsertedRow
    <2>5. \A d \in Cves : d # c => cves'[d] \in Row /\ RowFacts(d)' /\ RowKept(d)
      BY <2>1, <2>2, <2>3, RowFrame
    <2>6. cves' \in [Cves -> Row]
      BY <2>3, <2>4, <2>5
    <2>7. /\ wk' \in [Workers -> {Idle} \cup Work]
          /\ wk'[w].pc = "ingest_send"
          /\ \A v \in Workers : v # w => wk'[v] = wk[v]
      BY <1>1, <1>2, NextPcStep DEF IngestCommit, FeedInv, WorkPcs
    <2>8. WorkFacts(w)'
      BY <2>7 DEF WorkFacts
    <2>9. TypeOK'
      BY <1>1, <1>2, <2>6, <2>7 DEF IngestCommit, FeedInv, TypeOK, Tables, Requests
    <2>10. QED
      BY <1>2, <2>1, <2>4, <2>5, <2>7, <2>8, <2>9, Assemble DEF IngestCommit, Requests
  <1>3. CASE IngestNotFound(w)
    BY <1>3, StopInv DEF IngestNotFound, FeedInv, TypeOK
  <1>4. CASE IngestSend(w)
    <2>1. tasks' \subseteq Message
      BY <1>1, <1>4, MsgType, DispatchType DEF IngestSend, FeedInv, TaskNames
    <2>2. QED
      BY <1>4, <2>1, StopInv DEF IngestSend
  <1>5. QED
    BY <1>2, <1>3, <1>4

LEMMA EnrichStepInv ==
    ASSUME FeedInv, NEW w \in Workers,
           EnrichMark(w) \/ EnrichDone(w) \/ EnrichFail(w) \/ EnrichSend(w)
    PROVE  FeedInv'
  <1>1. Working(w)
    BY DEF Working, EnrichMark, EnrichDone, EnrichFail, EnrichSend, At
  <1>2. CASE EnrichMark(w)
    BY <1>1, <1>2, MarkInv
    DEF EnrichMark, PROCESSING_STAGES, WorkPcs, ChainPcs, MappedPcs
  <1>3. CASE EnrichDone(w)
    BY <1>1, <1>3, MarkInv
    DEF EnrichDone, PROCESSING_STAGES, WorkPcs, ChainPcs, MappedPcs
  <1>4. CASE EnrichFail(w)
    BY <1>1, <1>4, MarkFailedInv DEF EnrichFail
  <1>5. CASE EnrichSend(w)
    BY <1>1, <1>5, SendInv DEF EnrichSend, TaskNames, ChainPcs, MappedPcs
  <1>6. QED
    BY <1>2, <1>3, <1>4, <1>5

LEMMA SynthStepInv ==
    ASSUME FeedInv, NEW w \in Workers,
           SynthFail(w) \/ InsertChain(w) \/ SynthSend(w) \/ SynthMark(w)
    PROVE  FeedInv'
  <1>1. Working(w) /\ CveOf(w) \in Cves
    BY BusyIsWork DEF Working, SynthFail, InsertChain, SynthSend, SynthMark, At, FeedInv
  <1>2. CASE SynthFail(w)
    BY <1>1, <1>2, MarkFailedInv DEF SynthFail
  <1>3. CASE InsertChain(w)
    <2>1. CASE CveOf(w) \in active
      <3>1. chains' = chains /\ active' = active
        BY <1>3, <2>1 DEF InsertChain, FeedInv, TypeOK
      <3>2. QED
        BY <1>3, <2>1, <3>1, StopInv DEF InsertChain, FeedInv, TypeOK, Tables
    <2>2. CASE CveOf(w) \notin active
      <3>1. /\ Grows /\ chains' \subseteq Cves /\ active' \subseteq chains'
            /\ mapped' \subseteq Cves
            /\ ruled' \subseteq Cves
        BY <1>1, <1>3 DEF InsertChain, Requests, Grows, FeedInv, TypeOK
      <3>2. QED
        BY <1>1, <1>3, <2>2, <3>1, CommitInv DEF InsertChain, WorkPcs, MappedPcs
    <2>3. QED
      BY <2>1, <2>2
  <1>4. CASE SynthSend(w)
    <2>1. CveOf(w) \in chains
      BY <1>4 DEF SynthSend, At, FeedInv, WorkFacts
    <2>2. QED
      BY <1>1, <1>4, <2>1, SendInv DEF SynthSend, TaskNames, WorkPcs, MappedPcs
  <1>5. CASE SynthMark(w)
    <2>1. CveOf(w) \in chains
      BY <1>5 DEF SynthMark, At, FeedInv, WorkFacts
    <2>2. QED
      BY <1>1, <1>5, <2>1, MarkInv
      DEF SynthMark, PROCESSING_STAGES, ChainPcs, MappedPcs
  <1>6. QED
    BY <1>2, <1>3, <1>4, <1>5

LEMMA MapStepInv ==
    ASSUME FeedInv, NEW w \in Workers,
           MapFail(w) \/ MapCommit(w) \/ MapMark(w) \/ MapSend(w)
    PROVE  FeedInv'
  <1>1. Working(w) /\ CveOf(w) \in Cves /\ CveOf(w) \in chains
    BY BusyIsWork DEF Working, MapFail, MapCommit, MapMark, MapSend, At, FeedInv,
                      WorkFacts
  <1>2. CASE MapFail(w)
    BY <1>1, <1>2, MarkFailedInv DEF MapFail
  <1>3. CASE MapCommit(w)
    <2>1. /\ Grows /\ chains' \subseteq Cves /\ active' \subseteq chains'
          /\ mapped' \subseteq Cves
          /\ ruled' \subseteq Cves /\ CveOf(w) \in chains'
      BY <1>1, <1>3 DEF MapCommit, Requests, Grows, FeedInv, TypeOK
    <2>2. QED
      BY <1>1, <1>3, <2>1, CommitInv DEF MapCommit, WorkPcs
  <1>4. CASE MapMark(w)
    <2>1. CveOf(w) \in mapped
      BY <1>4 DEF MapMark, At, FeedInv, WorkFacts
    <2>2. CASE wk[w].seen = "mapping"
      BY <1>1, <1>4, <2>1, <2>2, MarkInv DEF MapMark, PROCESSING_STAGES, WorkPcs
    <2>3. CASE wk[w].seen # "mapping"
      <3>1. /\ Grows /\ chains' \subseteq Cves /\ active' \subseteq chains'
            /\ mapped' \subseteq Cves
            /\ ruled' \subseteq Cves /\ CveOf(w) \in chains' /\ CveOf(w) \in mapped'
        BY <1>1, <1>4, <2>1, <2>3 DEF MapMark, Tables, Requests, Grows, FeedInv, TypeOK
      <3>2. QED
        BY <1>1, <1>4, <2>3, <3>1, CommitInv DEF MapMark, WorkPcs
    <2>4. QED
      BY <2>2, <2>3
  <1>5. CASE MapSend(w)
    BY <1>1, <1>5, SendInv DEF MapSend, TaskNames, MappedPcs
  <1>6. QED
    BY <1>2, <1>3, <1>4, <1>5

LEMMA RulesStepInv ==
    ASSUME FeedInv, NEW w \in Workers,
           RulesFail(w) \/ RulesMap(w) \/ RulesCommit(w) \/ RulesMark(w)
    PROVE  FeedInv'
  <1>1. Working(w) /\ CveOf(w) \in Cves /\ CveOf(w) \in chains
    BY BusyIsWork DEF Working, RulesFail, RulesMap, RulesCommit, RulesMark, At, FeedInv,
                      WorkFacts
  <1>2. CASE RulesFail(w)
    BY <1>1, <1>2, MarkFailedInv DEF RulesFail
  <1>3. CASE RulesMap(w)
    <2>1. /\ Grows /\ chains' \subseteq Cves /\ active' \subseteq chains'
          /\ mapped' \subseteq Cves
          /\ ruled' \subseteq Cves /\ CveOf(w) \in chains'
      BY <1>1, <1>3 DEF RulesMap, Requests, Grows, FeedInv, TypeOK
    <2>2. QED
      BY <1>1, <1>3, <2>1, CommitInv DEF RulesMap, WorkPcs
  <1>4. CASE RulesCommit(w)
    <2>1. CveOf(w) \in mapped
      BY <1>4 DEF RulesCommit, At, FeedInv, WorkFacts
    <2>2. /\ Grows /\ chains' \subseteq Cves /\ active' \subseteq chains'
          /\ mapped' \subseteq Cves
          /\ ruled' \subseteq Cves /\ CveOf(w) \in chains' /\ CveOf(w) \in mapped'
          /\ CveOf(w) \in ruled'
      BY <1>1, <1>4, <2>1 DEF RulesCommit, Requests, Grows, FeedInv, TypeOK
    <2>3. QED
      BY <1>1, <1>4, <2>2, CommitInv DEF RulesCommit, WorkPcs
  <1>5. CASE RulesMark(w)
    <2>1. CveOf(w) \in mapped /\ CveOf(w) \in ruled
      BY <1>5 DEF RulesMark, At, FeedInv, WorkFacts
    <2>2. CASE wk[w].seen = "generating"
      BY <1>1, <1>5, <2>1, <2>2, MarkInv
      DEF RulesMark, PROCESSING_STAGES, ChainPcs, MappedPcs
    <2>3. CASE wk[w].seen # "generating"
      BY <1>5, <2>3, StopInv DEF RulesMark, FeedInv, TypeOK
    <2>4. QED
      BY <2>2, <2>3
  <1>6. QED
    BY <1>2, <1>3, <1>4, <1>5

LEMMA FaultInv ==
    ASSUME FeedInv, NEW w \in Workers, TaskErrors(w) \/ WorkerLost(w)
    PROVE  FeedInv'
  <1>1. wk[w].msg \in Message
    BY BusyIsWork DEF TaskErrors, WorkerLost, At, FeedInv, Work
  <1>2. tasks' \subseteq Message
    BY <1>1, RetryType DEF TaskErrors, WorkerLost, FeedInv, TypeOK
  <1>3. QED
    BY <1>2, StopInv DEF TaskErrors, WorkerLost

-----------------------------------------------------------------------------
(* The theorems.                                                           *)

LEMMA FeedInvInit == Init => FeedInv
  <1> SUFFICES ASSUME Init PROVE FeedInv
    OBVIOUS
  <1>1. NoRow \in Row
    BY DEF NoRow, Row, Modes
  <1>2. \A c \in Cves : cves[c].status = Absent
    BY DEF Init, NoRow
  <1>3. TypeOK
    BY <1>1, NoImportType DEF Init, TypeOK
  <1>4. \A w \in Workers : wk[w].pc = "idle"
    BY DEF Init, Idle
  <1>5. \A w \in Workers : WorkFacts(w)
    BY <1>4 DEF WorkFacts
  <1>6. \A c \in Cves : RowFacts(c)
    BY <1>2 DEF RowFacts, InPipeline, Absent
  <1>7. SeenExist
    BY DEF Init, NoImport, SeenExist
  <1>8. QED
    BY <1>3, <1>5, <1>6, <1>7 DEF FeedInv

LEMMA FeedInvNext == FeedInv /\ [Next]_vars => FeedInv'
  <1> SUFFICES ASSUME FeedInv, [Next]_vars PROVE FeedInv'
    OBVIOUS
  <1>1. CASE Entry
    BY <1>1, WebhookInv, CreateManualInv, PollTickInv, StartImportInv, StageReadInv,
       StageCommitInv, StageRacedInv DEF Entry
  <1>2. CASE Operator
    BY <1>2, ApproveSendInv, SkipCvesInv, ApproveCommitInv, ApproveAbortsInv,
       DeleteJobInv, RequeueInv, RecomputeInv, CoverageDispatchInv, RecomputeAllInv,
       GenerateForTechniqueInv DEF Operator
  <1>3. CASE Tick
    BY <1>3, EnforceBudgetInv, WindowInv DEF Tick
  <1>4. ASSUME NEW w \in Workers, \E m \in tasks : Take(w, m)
        PROVE  FeedInv'
    BY <1>4, TakeInv
  <1>5. ASSUME NEW w \in Workers, Step(w)
        PROVE  FeedInv'
    BY <1>5, IngestStepInv, EnrichStepInv, SynthStepInv, MapStepInv, RulesStepInv
    DEF Step
  <1>6. ASSUME NEW w \in Workers, TaskErrors(w) \/ WorkerLost(w)
        PROVE  FeedInv'
    BY <1>6, FaultInv
  <1>7. CASE UNCHANGED vars
    BY <1>7 DEF vars, FeedInv, TypeOK, WorkFacts, RowFacts, SeenExist, Cleared, Exists,
                CveOf
  <1>8. QED
    BY <1>1, <1>2, <1>3, <1>4, <1>5, <1>6, <1>7 DEF Next

\* The inductive invariant holds in every reachable state: what a worker has
\* committed, what a status promises, and the rows an import pass relies on.
THEOREM FeedInvariant == Spec => []FeedInv
  BY FeedInvInit, FeedInvNext, PTL DEF Spec

\* Rows, messages, workers and the import pass are always of their type, for
\* every interleaving of tasks, requests and faults.
THEOREM TypeCorrect == Spec => []TypeOK
  <1>1. FeedInv => TypeOK
    BY DEF FeedInv
  <1>2. QED
    BY <1>1, FeedInvariant, PTL

\* cves.processing_status never runs ahead of the work: for every number of
\* workers and every overlap of their tasks, a CVE being mapped has a chain,
\* one whose rules are generated is mapped (or was forced), and a complete one
\* has rules.
THEOREM StagesBackedAlways == Spec => []StagesBacked
  <1>1. FeedInv => StagesBacked
    BY DEF FeedInv, RowFacts, StagesBacked
  <1>2. QED
    BY <1>1, FeedInvariant, PTL

\* No historical CVE is processed without an approval or an operator's request,
\* although approve queues its message before it commits and a failed CVE goes
\* back to pending on any webhook.
THEOREM HistoricalIsApprovedAlways == Spec => []HistoricalIsApproved
  <1>1. FeedInv => HistoricalIsApproved
    BY DEF FeedInv, RowFacts, Cleared, HistoricalIsApproved
  <1>2. QED
    BY <1>1, FeedInvariant, PTL
=============================================================================
