--------------------------- MODULE Coverage_proofs ---------------------------
(***************************************************************************)
(* Proofs about Coverage for any number of mappers, chains, techniques and *)
(* rules, any library, and any answers of the verify calls.                *)
(***************************************************************************)
EXTENDS Coverage, FiniteSetTheorems, TLAPS

-----------------------------------------------------------------------------
(* The inductive invariant.  A mapper merges into a row it read some time  *)
(* ago; what it may still rely on is that rows only fill up.               *)

Verdicts == {"covered", "partial", "gap"}

Counted(row) == IsFiniteSet(row.cves) /\ row.count = Cardinality(row.cves)

\* The row was once the content of t's cell.
Seen(t, row) ==
    /\ Counted(row)
    /\ row.status \in Verdicts => cells[t].status \in Verdicts
    /\ row.rules # {} => cells[t].rules # {}
    /\ row.cves # {} => cells[t].cves # {}

\* The UPDATE of t for CVE c by run n that waits for its commit.
WriteOK(t, wr, c, n) ==
    /\ Seen(t, wr.old) /\ wr.old.stamp # n /\ wr.new.stamp = n
    /\ wr.new.status \in Verdicts
    /\ wr.old.rules \subseteq wr.new.rules
    /\ wr.new.rules = {} => wr.new.status = "gap"
    /\ wr.new.cves = wr.old.cves \cup {c} /\ Counted(wr.new)

InTransaction(w) == wk[w].pc \in {"read", "write", "commit"}

\* No row shows a verdict of run n.
Unpublished(n) == \A t \in Techniques : cells[t].stamp # n

MapperFacts(w) ==
    /\ InTransaction(w) =>
         /\ wk[w].i \in 1..Len(Ttps[wk[w].cve])
         /\ wk[w].res \in [Chain(wk[w].cve) -> Outcome]
         /\ wk[w].run \in 1..maps /\ Unpublished(wk[w].run)
         /\ \A t \in Techniques : wk[w].writes[t] # NoWrite =>
              /\ t \in Chain(wk[w].cve)
              /\ WriteOK(t, wk[w].writes[t], wk[w].cve, wk[w].run)
         /\ \A j \in 1..Len(Ttps[wk[w].cve]) :
              (j < wk[w].i \/ wk[w].pc = "commit") =>
                wk[w].writes[Ttps[wk[w].cve][j]] # NoWrite
    /\ At(w, "write") => /\ Seen(TechniqueOf(w), wk[w].row)
                         /\ wk[w].row.stamp # wk[w].run

\* Two mappings are never the same run.
RunsDiffer ==
    \A v, w \in Mappers :
      (v # w /\ InTransaction(v) /\ InTransaction(w)) => wk[v].run # wk[w].run

CellFacts(t) ==
    /\ Counted(cells[t]) /\ cells[t].stamp \in 0..maps
    /\ cells[t].status \in {"covered", "partial"} => cells[t].rules # {}

CoverageInv ==
    /\ TypeOK
    /\ \A w \in Mappers : MapperFacts(w)
    /\ RunsDiffer
    /\ \A t \in Techniques : CellFacts(t)

-----------------------------------------------------------------------------
(* What the operators of the mapper return.                                *)

LEMMA ChainFacts ==
    ASSUME NEW c \in Cves
    PROVE  /\ Chain(c) \subseteq Techniques /\ Len(Ttps[c]) \in Nat
           /\ 1 \in 1..Len(Ttps[c])
           /\ \A i \in 1..Len(Ttps[c]) : Ttps[c][i] \in Chain(c)
  <1>1. Ttps[c] \in Seq(Techniques) /\ Ttps[c] # <<>>
    BY CoverageAssumption
  <1>2. Len(Ttps[c]) \in Nat /\ 1 \in 1..Len(Ttps[c])
    BY <1>1
  <1>3. QED
    BY <1>1, <1>2 DEF Chain

\* Every way a run may come out assigns sets of rules to the chain's techniques.
LEMMA ResultsType ==
    ASSUME NEW c \in Cves, NEW reach, NEW res \in Results(c, reach)
    PROVE  res \in [Chain(c) -> Outcome]
  <1>1. CASE res = WithoutProvider(c)
    BY <1>1 DEF WithoutProvider, phase1_exact_match, Outcome
  <1>2. CASE res = Unverified(c, reach)
    BY <1>2 DEF Unverified, phase2_collect_candidates, Outcome
  <1>3. CASE res \in Verified(c, reach)
    <2>1. \A t, A, a, v : phase1_5_verify_tag_match(t, A, a, v) \subseteq Rules
      BY DEF phase1_5_verify_tag_match, phase1_exact_match
    <2>2. \A cand, t, A, a, v : phase2_verify(cand, t, A, a, v) \subseteq Rules
      BY DEF phase2_verify
    <2> DEFINE ways(A) == UNION {Phase2(c, reach, A, a) : a \in Answers}
               exact == {p \in Chain(c) \X Rules : p[2] \in phase1_exact_match(p[1])}
               calls == Reached(exact, VerifyCap)
    <2>3. res \in UNION {ways(A) : A \in calls}
      BY <1>3 DEF Verified
    <2> HIDE DEF ways, calls
    <2>4. PICK A : res \in ways(A)
      BY <2>3
    <2>5. PICK a : res \in Phase2(c, reach, A, a)
      BY <2>4 DEF ways
    <2>6. PICK B, b : res = Assigned(c, reach, A, a, B, b)
      BY <2>5 DEF Phase2
    <2>7. QED
      BY <2>1, <2>2, <2>6 DEF Assigned, Outcome
  <1>4. QED
    BY <1>1, <1>2, <1>3 DEF Results

LEMMA VerdictFacts ==
    ASSUME NEW res \in Outcome
    PROVE  /\ Verdict(res) \in Verdicts
           /\ (res.covering = {} /\ res.partial = {}) => Verdict(res) = "gap"
  BY DEF Verdict, Verdicts

LEMMA CountedAdd ==
    ASSUME NEW S, IsFiniteSet(S), NEW c
    PROVE  /\ IsFiniteSet(S \cup {c}) /\ Cardinality(S \cup {c}) \in Nat
           /\ Cardinality(S \cup {c}) = Cardinality(S) <=> c \in S
  <1>1. IsFiniteSet(S \cup {c}) /\ Cardinality(S) \in Nat
    BY FS_AddElement, FS_CardinalityType
  <1>2. Cardinality(S \cup {c}) = IF c \in S THEN Cardinality(S) ELSE Cardinality(S) + 1
    BY FS_AddElement
  <1>3. QED
    BY <1>1, <1>2

LEMMA MergedFacts ==
    ASSUME NEW row \in Cell, Counted(row), NEW res \in Outcome, NEW c \in Cves,
           NEW n \in Nat
    PROVE  LET new == Merged(row, res, c, n) IN
           /\ new \in Cell /\ new.status \in Verdicts
           /\ row.rules \subseteq new.rules
           /\ new.rules = {} => new.status = "gap"
           /\ new.cves = row.cves \cup {c} /\ Counted(new) /\ new.stamp = n
  <1> DEFINE cs == row.cves \cup {c}
             new == Merged(row, res, c, n)
  <1>1. IsFiniteSet(cs) /\ Cardinality(cs) \in Nat
    BY CountedAdd DEF Counted
  <1>2. Cardinality(cs \cap kev) \in Nat
    BY <1>1, FS_Subset, FS_CardinalityType
  <1>3. new = [status |-> Verdict(res),
               rules |-> row.rules \cup res.covering \cup res.partial,
               cves |-> cs, count |-> Cardinality(cs), kev |-> Cardinality(cs \cap kev),
               stamp |-> n]
    BY DEF Merged
  <1>4. Verdict(res) \in Verdicts
    BY VerdictFacts
  <1>5. /\ cs \subseteq Cves
        /\ row.rules \cup res.covering \cup res.partial \subseteq Rules
    BY DEF Cell, Outcome
  <1> HIDE DEF cs
  <1>6. new \in Cell
    BY <1>1, <1>2, <1>3, <1>4, <1>5 DEF Cell, Verdicts
  <1>7. /\ new.status = Verdict(res) /\ new.cves = cs /\ new.count = Cardinality(cs)
        /\ new.rules = row.rules \cup res.covering \cup res.partial /\ new.stamp = n
    BY <1>3
  <1>8. new.rules = {} => new.status = "gap"
    BY <1>7, VerdictFacts
  <1>9. QED
    BY <1>1, <1>4, <1>6, <1>7, <1>8 DEF Counted, cs

\* What an UPDATE leaves, whatever other mappers did to the row meanwhile.
LEMMA UpdatedFacts ==
    ASSUME CoverageInv, NEW t \in Techniques, NEW c \in Cves, NEW n,
           NEW wr \in [old : Cell, new : Cell], WriteOK(t, wr, c, n)
    PROVE  LET u == Updated(cells[t], wr) IN
           /\ u \in Cell /\ u.status \in Verdicts /\ Counted(u)
           /\ u.status \in {"covered", "partial"} => u.rules # {}
           /\ cells[t].rules # {} => u.rules # {}
           /\ u.cves # {} /\ u.stamp = n
  <1> DEFINE cell == cells[t]
             u == Updated(cell, wr)
  <1>1. cell \in Cell /\ CellFacts(t) /\ wr.old \in Cell /\ wr.new \in Cell
    BY DEF CoverageInv, TypeOK
  <1>2. DOMAIN cell = {"status", "rules", "cves", "count", "kev", "stamp"}
    BY <1>1 DEF Cell
  <1>3. u = [status |-> IF wr.new.status # wr.old.status THEN wr.new.status
                        ELSE cell.status,
             rules |-> IF wr.new.rules # wr.old.rules THEN wr.new.rules ELSE cell.rules,
             cves |-> IF wr.new.cves # wr.old.cves THEN wr.new.cves ELSE cell.cves,
             count |-> IF wr.new.count # wr.old.count THEN wr.new.count ELSE cell.count,
             kev |-> IF wr.new.kev # wr.old.kev THEN wr.new.kev ELSE cell.kev,
             stamp |-> IF wr.new.stamp # wr.old.stamp THEN wr.new.stamp
                       ELSE cell.stamp]
    BY <1>2 DEF Updated
  <1>4. u \in Cell
    BY <1>1, <1>3 DEF Cell
  <1>5. /\ u.status = IF wr.new.status # wr.old.status THEN wr.new.status ELSE cell.status
        /\ u.rules = IF wr.new.rules # wr.old.rules THEN wr.new.rules ELSE cell.rules
        /\ u.cves = IF wr.new.cves # wr.old.cves THEN wr.new.cves ELSE cell.cves
        /\ u.count = IF wr.new.count # wr.old.count THEN wr.new.count ELSE cell.count
        /\ u.stamp = IF wr.new.stamp # wr.old.stamp THEN wr.new.stamp ELSE cell.stamp
    BY <1>3
  <1> HIDE DEF u
  <1>6. u.status \in Verdicts
    BY <1>5 DEF WriteOK, Seen
  <1>7. Counted(u) /\ u.cves # {}
    <2>1. wr.new.cves = wr.old.cves <=> wr.new.count = wr.old.count
      BY CountedAdd DEF WriteOK, Seen, Counted
    <2>2. QED
      BY <1>1, <1>5, <2>1 DEF WriteOK, Seen, Counted, CellFacts
  <1>8. cell.rules # {} => u.rules # {}
    BY <1>5 DEF WriteOK
  <1>9. u.status \in {"covered", "partial"} => u.rules # {}
    BY <1>1, <1>5, <1>8 DEF WriteOK, Seen, CellFacts
  <1>10. u.stamp = n
    BY <1>5 DEF WriteOK
  <1>11. QED
    BY <1>4, <1>6, <1>7, <1>8, <1>9, <1>10 DEF u

-----------------------------------------------------------------------------
(* Frames.                                                                 *)

\* No step empties a cell.
Fills ==
    \A t \in Techniques :
      /\ cells[t].status \in Verdicts => cells'[t].status \in Verdicts
      /\ cells[t].rules # {} => cells'[t].rules # {}
      /\ cells[t].cves # {} => cells'[t].cves # {}

LEMMA SeenKept ==
    ASSUME Fills, NEW t \in Techniques, NEW row, Seen(t, row)
    PROVE  Seen(t, row)'
  BY DEF Seen, Fills, Counted

LEMMA TechniqueFacts ==
    ASSUME CoverageInv, NEW w \in Mappers, InTransaction(w)
    PROVE  /\ wk[w] \in Mapping /\ wk[w].cve \in Cves
           /\ TechniqueOf(w) \in Techniques /\ TechniqueOf(w) \in Chain(wk[w].cve)
  <1>1. wk[w] \in Mapping
    BY DEF CoverageInv, TypeOK, InTransaction, Idle, Invalidating
  <1>2. wk[w].cve \in Cves /\ wk[w].i \in 1..Len(Ttps[wk[w].cve])
    BY <1>1 DEF CoverageInv, MapperFacts, Mapping
  <1>3. QED
    BY <1>1, <1>2, ChainFacts DEF TechniqueOf

\* A mapper that rests keeps its facts while other runs start and commit.
LEMMA MapperFrame ==
    ASSUME CoverageInv, Fills, maps' \in Nat, maps' >= maps, NEW w \in Mappers,
           wk'[w] = wk[w], InTransaction(w) => Unpublished(wk[w].run)'
    PROVE  MapperFacts(w)'
  <1>1. MapperFacts(w)
    BY DEF CoverageInv
  <1>2. CASE InTransaction(w)
    <2>1. \A t \in Techniques : wk[w].writes[t] # NoWrite =>
                                  WriteOK(t, wk[w].writes[t], wk[w].cve, wk[w].run)'
      BY <1>1, <1>2, SeenKept DEF MapperFacts, WriteOK, Counted
    <2>2. At(w, "write") => Seen(TechniqueOf(w), wk[w].row)'
      BY <1>1, <1>2, TechniqueFacts, SeenKept DEF MapperFacts, TechniqueOf
    <2>3. maps \in Nat /\ wk[w].run \in 1..maps
      BY <1>1, <1>2 DEF MapperFacts, CoverageInv, TypeOK
    <2>4. wk[w].run \in 1..maps'
      BY <2>3
    <2>5. QED
      BY <1>1, <1>2, <2>1, <2>2, <2>4 DEF MapperFacts, InTransaction, At, TechniqueOf
  <1>3. CASE ~InTransaction(w)
    BY <1>3 DEF MapperFacts, InTransaction, At
  <1>4. QED
    BY <1>2, <1>3

\* A mapper stays in its run, or begins one nobody had, alone.
Continues(w) ==
    InTransaction(w)' =>
      \/ InTransaction(w) /\ wk'[w].run = wk[w].run
      \/ wk'[w].run = maps + 1 /\ \A v \in Mappers \ {w} : wk'[v] = wk[v]

LEMMA RunsStayDifferent ==
    ASSUME CoverageInv, \A w \in Mappers : wk'[w] = wk[w] \/ Continues(w)
    PROVE  RunsDiffer'
  <1> SUFFICES ASSUME NEW v \in Mappers, NEW w \in Mappers, v # w,
                      InTransaction(v)', InTransaction(w)'
               PROVE  wk'[v].run # wk'[w].run
    BY DEF RunsDiffer
  <1> DEFINE Same(x) == InTransaction(x) /\ wk'[x].run = wk[x].run
             Fresh(x) == wk'[x].run = maps + 1
                         /\ \A y \in Mappers \ {x} : wk'[y] = wk[y]
  <1>1. \A x \in {v, w} : Same(x) \/ Fresh(x)
    BY DEF Continues, InTransaction
  <1>2. \A x \in Mappers : InTransaction(x) => wk[x].run \in 1..maps /\ maps \in Nat
    BY DEF CoverageInv, MapperFacts, TypeOK
  <1>3. CASE Same(v) /\ Same(w)
    BY <1>3 DEF CoverageInv, RunsDiffer
  <1>4. CASE Fresh(v)
    <2>1. InTransaction(w) /\ wk'[w] = wk[w]
      BY <1>4 DEF InTransaction
    <2>2. wk'[w].run \in 1..maps /\ maps \in Nat
      BY <1>2, <2>1
    <2>3. QED
      BY <1>4, <2>2
  <1>5. CASE Fresh(w)
    <2>1. InTransaction(v) /\ wk'[v] = wk[v]
      BY <1>5 DEF InTransaction
    <2>2. wk'[v].run \in 1..maps /\ maps \in Nat
      BY <1>2, <2>1
    <2>3. QED
      BY <1>5, <2>2
  <1>6. QED
    BY <1>1, <1>3, <1>4, <1>5

\* A step that leaves the cells alone.
LEMMA Assemble ==
    ASSUME CoverageInv, TypeOK', cells' = cells, maps' \in {maps, maps + 1},
           \A w \in Mappers : wk'[w] = wk[w] \/ (MapperFacts(w)' /\ Continues(w))
    PROVE  CoverageInv'
  <1>1. Fills
    BY DEF Fills
  <1>2. maps \in Nat /\ maps' \in Nat /\ maps' >= maps
    BY DEF CoverageInv, TypeOK
  <1>3. \A w \in Mappers : MapperFacts(w)'
    <2>1. ASSUME NEW w \in Mappers, wk'[w] = wk[w]
          PROVE  MapperFacts(w)'
      <3>1. InTransaction(w) => Unpublished(wk[w].run)'
        BY <2>1 DEF CoverageInv, MapperFacts, Unpublished
      <3>2. QED
        BY <1>1, <1>2, <2>1, <3>1, MapperFrame
    <2>2. QED
      BY <2>1
  <1>4. \A t \in Techniques : CellFacts(t)'
    BY <1>2 DEF CoverageInv, CellFacts, Counted
  <1>5. RunsDiffer'
    BY RunsStayDifferent
  <1>6. QED
    BY <1>3, <1>4, <1>5 DEF CoverageInv

-----------------------------------------------------------------------------
(* The rule library and the cache: neither touches the table.              *)

LEMMA RuleStepType ==
    ASSUME TypeOK, RuleStep
    PROVE  TypeOK'
  <1>1. ASSUME NEW r \in Rules, NEW T \in TagSets, Generate(r, T)
        PROVE  TypeOK'
    <2>1. T \in SUBSET Techniques
      BY CoverageAssumption
    <2>2. [status |-> "draft", tags |-> T] \in Rule
      BY <2>1 DEF Rule
    <2>3. lib' \in [Rules -> Rule] /\ embeds' \subseteq Rules \X SUBSET Techniques
      BY <1>1, <2>1, <2>2 DEF Generate, TypeOK
    <2>4. QED
      BY <1>1, <2>3 DEF Generate, TypeOK, Board, Cached
  <1>2. ASSUME NEW r \in Rules, NEW T \in TagSets, RefreshUpsert(r, T)
        PROVE  TypeOK'
    <2>1. T \in SUBSET Techniques
      BY CoverageAssumption
    <2>2. refresh' \in [pc : {"open"}, rule : Rules, tags : SUBSET Techniques]
      BY <1>2, <2>1 DEF RefreshUpsert
    <2>3. embeds' \subseteq Rules \X SUBSET Techniques
      BY <1>2, <2>1 DEF RefreshUpsert, TypeOK
    <2>4. QED
      BY <1>2, <2>2, <2>3 DEF RefreshUpsert, TypeOK, Board, Cached
  <1>3. CASE RefreshCommit
    <2>1. refresh.rule \in Rules /\ refresh.tags \in SUBSET Techniques
      BY <1>3 DEF RefreshCommit, TypeOK
    <2> DEFINE r == refresh.rule
               row == [status |-> IF lib[r].status = "absent" THEN "merged"
                                  ELSE lib[r].status,
                       tags |-> refresh.tags]
    <2>2. row \in Rule
      BY <2>1 DEF TypeOK, Rule
    <2>3. lib' = [lib EXCEPT ![r] = row]
      BY <1>3, <2>1 DEF RefreshCommit, TypeOK
    <2> HIDE DEF row
    <2>4. lib' \in [Rules -> Rule]
      BY <2>1, <2>2, <2>3 DEF TypeOK
    <2>5. QED
      BY <1>3, <2>4 DEF RefreshCommit, TypeOK, Board, Cached
  <1>4. CASE RefreshLost
    BY <1>4 DEF RefreshLost, TypeOK, Board, Cached
  <1>5. ASSUME NEW m \in embeds, Embed(m)
        PROVE  TypeOK'
    <2>1. m[1] \in Rules /\ m[2] \in SUBSET Techniques
      BY <1>5 DEF TypeOK
    <2> DEFINE points == {Unindexed} \cup {<<T>> : T \in SUBSET Techniques}
    <2>2. <<m[2]>> \in points /\ index \in [Rules -> points]
      BY <2>1 DEF TypeOK
    <2> HIDE DEF points
    <2>3. index' \in [Rules -> points]
      BY <1>5, <2>1, <2>2 DEF Embed
    <2>4. embeds' \subseteq Rules \X SUBSET Techniques
      BY <1>5 DEF Embed, TypeOK
    <2>5. QED
      BY <1>5, <2>3, <2>4 DEF Embed, TypeOK, Board, Cached, points
  <1>6. ASSUME NEW c \in Cves, KevListed(c)
        PROVE  TypeOK'
    BY <1>6 DEF KevListed, TypeOK, Board, Cached
  <1>7. QED
    BY <1>1, <1>2, <1>3, <1>4, <1>5, <1>6 DEF RuleStep

LEMMA CacheStepType ==
    ASSUME TypeOK, CacheStep
    PROVE  TypeOK'
  <1>1. cache \in Copies /\ reader \in [request : Copies, beat : Copies]
    BY DEF TypeOK
  <1>2. cache' \in Copies
    <2>1. ASSUME NEW q \in {"request", "beat"}, cache_set(q)
          PROVE  cache' \in Copies
      BY <1>1, <2>1 DEF cache_set
    <2>2. QED
      BY <1>1, <2>1 DEF CacheStep, get_matrix_data, warm, CacheExpires, Copies
  <1>3. reader' \in [request : Copies, beat : Copies]
    <2>1. ASSUME NEW q \in {"request", "beat"}, cache_set(q)
          PROVE  reader' \in [request : Copies, beat : Copies]
      <3>1. CASE q = "request"
        BY <1>1, <2>1, <3>1 DEF cache_set, Copies
      <3>2. CASE q = "beat"
        BY <1>1, <2>1, <3>2 DEF cache_set, Copies
      <3>3. QED
        BY <3>1, <3>2
    <2>2. QED
      BY <1>1, <2>1 DEF CacheStep, get_matrix_data, warm, CacheExpires, Copies
  <1>4. QED
    BY <1>2, <1>3 DEF CacheStep, get_matrix_data, warm, CacheExpires, cache_set,
                      TypeOK, Library, Board

LEMMA OutsideInv ==
    ASSUME CoverageInv, RuleStep \/ CacheStep
    PROVE  CoverageInv'
  <1>1. TypeOK'
    BY RuleStepType, CacheStepType DEF CoverageInv
  <1>2. cells' = cells /\ wk' = wk /\ maps' = maps
    <2>1. CASE RuleStep
      BY <2>1 DEF RuleStep, Generate, RefreshUpsert, RefreshCommit, RefreshLost, Embed,
                  KevListed, Board
    <2>2. CASE CacheStep
      BY <2>2 DEF CacheStep, get_matrix_data, warm, CacheExpires, cache_set, Board
    <2>3. QED
      BY <2>1, <2>2
  <1>3. QED
    BY <1>1, <1>2, Assemble

-----------------------------------------------------------------------------
(* The steps of a mapper.                                                  *)

LEMMA BlankType ==
    ASSUME NEW t \in Techniques
    PROVE  /\ Blank(t) \in Cell /\ Blank(t).rules = {} /\ Blank(t).cves = {}
           /\ Blank(t).count = 0 /\ Blank(t).stamp = 0
           /\ Blank(t).status \in {"no_data", Absent}
  BY DEF Blank, Cell

\* Replacing one mapper's record.
LEMMA MapperSet ==
    ASSUME TypeOK, NEW w \in Mappers, NEW rec \in {Idle, Invalidating} \cup Mapping,
           wk' = [wk EXCEPT ![w] = rec]
    PROVE  /\ wk' \in [Mappers -> {Idle, Invalidating} \cup Mapping]
           /\ wk'[w] = rec
           /\ \A v \in Mappers : v # w => wk'[v] = wk[v]
  BY DEF TypeOK

LEMMA MapComputeInv ==
    ASSUME CoverageInv, NEW w \in Mappers, NEW c \in Cves, NEW reach,
           MapCompute(w, c, reach)
    PROVE  CoverageInv'
  <1>1. PICK res \in Results(c, reach) :
          wk' = [wk EXCEPT ![w] = [pc |-> "read", run |-> maps + 1, cve |-> c,
                                   res |-> res, i |-> 1, row |-> Blank(Ttps[c][1]),
                                   writes |-> [t \in Techniques |-> NoWrite]]]
    BY DEF MapCompute
  <1> DEFINE ws == [t \in Techniques |-> NoWrite]
             rec == [pc |-> "read", run |-> maps + 1, cve |-> c, res |-> res, i |-> 1,
                     row |-> Blank(Ttps[c][1]), writes |-> ws]
  <1>2. res \in [Chain(c) -> Outcome] /\ Blank(Ttps[c][1]) \in Cell
    BY ResultsType, ChainFacts, BlankType
  <1>3. /\ ws \in [Techniques -> {NoWrite} \cup [old : Cell, new : Cell]]
        /\ \A t \in Techniques : ws[t] = NoWrite
    OBVIOUS
  <1> HIDE DEF ws
  <1>4. maps \in Nat /\ maps' = maps + 1 /\ cells' = cells
    BY DEF CoverageInv, TypeOK, MapCompute, Board
  <1>5. rec \in Mapping
    BY <1>2, <1>3, <1>4 DEF Mapping
  <1>6. /\ rec.pc = "read" /\ rec.cve = c /\ rec.res = res /\ rec.i = 1
        /\ rec.writes = ws /\ rec.run = maps + 1
    OBVIOUS
  <1> HIDE DEF rec
  <1>7. wk' = [wk EXCEPT ![w] = rec]
    BY <1>1 DEF rec, ws
  <1>8. /\ wk' \in [Mappers -> {Idle, Invalidating} \cup Mapping]
        /\ wk'[w] = rec
        /\ \A v \in Mappers : v # w => wk'[v] = wk[v]
    BY <1>5, <1>7, MapperSet DEF CoverageInv
  <1>9. maps + 1 \in 1..maps' /\ \A t \in Techniques : cells'[t].stamp # maps + 1
    BY <1>4 DEF CoverageInv, CellFacts
  <1>10. Len(Ttps[c]) \in Nat /\ 1 \in 1..Len(Ttps[c])
    BY ChainFacts
  <1>11. MapperFacts(w)'
    BY <1>2, <1>3, <1>6, <1>8, <1>9, <1>10
    DEF MapperFacts, InTransaction, At, Unpublished
  <1>12. Continues(w)
    BY <1>6, <1>8 DEF Continues
  <1>13. TypeOK'
    BY <1>4, <1>8 DEF MapCompute, CoverageInv, TypeOK, Library, Board, Cached
  <1>14. QED
    BY <1>4, <1>8, <1>11, <1>12, <1>13, Assemble

LEMMA GetCoverageRowInv ==
    ASSUME CoverageInv, NEW w \in Mappers, GetCoverageRow(w)
    PROVE  CoverageInv'
  <1>1. InTransaction(w) /\ MapperFacts(w)
    BY DEF GetCoverageRow, InTransaction, At, CoverageInv
  <1>2. PICK t \in Techniques : t = TechniqueOf(w)
    BY <1>1, TechniqueFacts
  <1>3. wk[w] \in Mapping /\ cells[t] \in Cell /\ CellFacts(t)
    BY <1>1, TechniqueFacts DEF CoverageInv, TypeOK
  <1> DEFINE rec == [wk[w] EXCEPT !.pc = "write", !.row = cells[t]]
  <1>4. rec \in Mapping
    BY <1>3 DEF Mapping
  <1>5. /\ rec.pc = "write" /\ rec.cve = wk[w].cve /\ rec.res = wk[w].res
        /\ rec.i = wk[w].i /\ rec.writes = wk[w].writes /\ rec.row = cells[t]
        /\ rec.run = wk[w].run
    BY <1>3 DEF Mapping
  <1>6. wk' = [wk EXCEPT ![w] = rec]
    BY <1>2 DEF GetCoverageRow
  <1> HIDE DEF rec
  <1>7. /\ wk' \in [Mappers -> {Idle, Invalidating} \cup Mapping]
        /\ wk'[w] = rec
        /\ \A v \in Mappers : v # w => wk'[v] = wk[v]
    BY <1>4, <1>6, MapperSet DEF CoverageInv
  <1>8. cells' = cells /\ maps' = maps
    BY DEF GetCoverageRow, Board
  <1>10. TechniqueOf(w)' = t
    BY <1>2, <1>5, <1>7 DEF TechniqueOf
  <1>11. /\ Seen(TechniqueOf(w), wk[w].row)'
         /\ wk'[w].row.stamp # wk'[w].run
    BY <1>1, <1>2, <1>3, <1>5, <1>7, <1>8, <1>10
    DEF Seen, CellFacts, Counted, MapperFacts, Unpublished
  <1>12. \A u \in Techniques : wk'[w].writes[u] # NoWrite =>
           /\ u \in Chain(wk'[w].cve)
           /\ WriteOK(u, wk[w].writes[u], wk[w].cve, wk[w].run)'
    BY <1>1, <1>5, <1>7, <1>8 DEF MapperFacts, WriteOK, Seen, Counted
  <1>13. MapperFacts(w)'
    BY <1>1, <1>5, <1>7, <1>8, <1>11, <1>12
    DEF MapperFacts, InTransaction, Unpublished, GetCoverageRow, At
  <1>14. TypeOK'
    BY <1>7 DEF GetCoverageRow, CoverageInv, TypeOK, Library, Board, Cached
  <1>15. Continues(w)
    BY <1>1, <1>5, <1>7 DEF Continues
  <1>16. QED
    BY <1>7, <1>8, <1>13, <1>14, <1>15, Assemble

LEMMA FlushInv ==
    ASSUME CoverageInv, NEW w \in Mappers, Flush(w)
    PROVE  CoverageInv'
  <1>1. InTransaction(w) /\ MapperFacts(w) /\ At(w, "write")
    BY DEF Flush, InTransaction, At, CoverageInv
  <1>2. PICK t \in Techniques : t = TechniqueOf(w)
    BY <1>1, TechniqueFacts
  <1> DEFINE old == wk[w].row
             c == wk[w].cve
             new == Merged(old, wk[w].res[t], c, wk[w].run)
             wr == [old |-> old, new |-> new]
             last == ~(wk[w].i < Len(Ttps[c]))
             j == IF last THEN wk[w].i ELSE wk[w].i + 1
             p == IF last THEN "commit" ELSE "read"
             ws == [wk[w].writes EXCEPT ![t] = wr]
             rec == [wk[w] EXCEPT !.writes = ws, !.pc = p, !.i = j]
  <1>3. /\ wk[w] \in Mapping /\ c \in Cves /\ old \in Cell /\ Seen(t, old)
        /\ wk[w].res[t] \in Outcome /\ wk[w].run \in Nat /\ old.stamp # wk[w].run
        /\ t \in Chain(c)
    BY <1>1, <1>2, TechniqueFacts DEF MapperFacts, Mapping
  <1>4. /\ new \in Cell /\ new.status \in Verdicts /\ old.rules \subseteq new.rules
        /\ new.rules = {} => new.status = "gap"
        /\ new.cves = old.cves \cup {c} /\ Counted(new) /\ new.stamp = wk[w].run
    BY <1>3, MergedFacts DEF Seen
  <1>5. wk' = [wk EXCEPT ![w] = rec]
    BY <1>2 DEF Flush
  <1>6. wk[w].i \in 1..Len(Ttps[c]) /\ Len(Ttps[c]) \in Nat
    BY <1>1, <1>3, ChainFacts DEF MapperFacts
  <1>7. /\ j \in 1..Len(Ttps[c]) /\ j \in Nat /\ p \in {"read", "commit"}
        /\ \A k \in 1..Len(Ttps[c]) : (k < j \/ p = "commit") => k < wk[w].i \/ k = wk[w].i
    BY <1>6
  <1> HIDE DEF new, j, p
  <1>8. wr \in [old : Cell, new : Cell] /\ wr.old = old /\ wr.new = new
    BY <1>3, <1>4
  <1> HIDE DEF wr, old, c
  <1>9. wk[w].writes \in [Techniques -> {NoWrite} \cup [old : Cell, new : Cell]]
    BY <1>3 DEF Mapping
  <1>10. /\ ws \in [Techniques -> {NoWrite} \cup [old : Cell, new : Cell]]
         /\ ws[t] = wr /\ \A u \in Techniques : u # t => ws[u] = wk[w].writes[u]
    BY <1>8, <1>9
  <1> HIDE DEF ws
  <1>11. /\ rec \in Mapping /\ rec.pc = p /\ rec.i = j /\ rec.cve = wk[w].cve
         /\ rec.res = wk[w].res /\ rec.writes = ws /\ rec.run = wk[w].run
    BY <1>3, <1>7, <1>10 DEF Mapping
  <1> HIDE DEF rec
  <1>12. /\ wk' \in [Mappers -> {Idle, Invalidating} \cup Mapping]
         /\ wk'[w] = rec
         /\ \A v \in Mappers : v # w => wk'[v] = wk[v]
    BY <1>5, <1>11, MapperSet DEF CoverageInv
  <1>13. cells' = cells /\ maps' = maps
    BY DEF Flush
  <1>14. WriteOK(t, wr, wk[w].cve, wk[w].run)
    BY <1>3, <1>4, <1>8 DEF WriteOK, c
  <1>15. \A u \in Techniques : rec.writes[u] # NoWrite =>
           u \in Chain(wk[w].cve) /\ WriteOK(u, rec.writes[u], wk[w].cve, wk[w].run)
    BY <1>1, <1>3, <1>10, <1>11, <1>14 DEF MapperFacts, c
  <1>16. \A u \in Techniques : wk'[w].writes[u] # NoWrite =>
           /\ u \in Chain(wk'[w].cve)
           /\ WriteOK(u, wk[w].writes[u], wk[w].cve, wk[w].run)'
    BY <1>11, <1>12, <1>13, <1>15 DEF WriteOK, Seen, Counted
  <1>21. ws[t] # NoWrite
    BY <1>8, <1>10 DEF NoWrite, wr
  <1>22. ASSUME NEW k \in 1..Len(Ttps[wk[w].cve]), k < rec.i \/ rec.pc = "commit"
         PROVE  rec.writes[Ttps[wk[w].cve][k]] # NoWrite
    <2>1. k < wk[w].i \/ k = wk[w].i
      BY <1>7, <1>11, <1>22 DEF c
    <2>2. Ttps[wk[w].cve][k] \in Techniques
      BY <1>3, ChainFacts DEF c
    <2>3. CASE Ttps[wk[w].cve][k] = t
      BY <1>11, <1>21, <2>3
    <2>4. CASE Ttps[wk[w].cve][k] # t
      BY <1>1, <1>2, <1>10, <1>11, <2>1, <2>2, <2>4 DEF MapperFacts, TechniqueOf
    <2>5. QED
      BY <2>3, <2>4
  <1>17. MapperFacts(w)'
    BY <1>1, <1>7, <1>11, <1>12, <1>13, <1>16, <1>22
    DEF MapperFacts, InTransaction, At, Unpublished, c
  <1>18. locks' \in [Techniques -> {NoOne} \cup Mappers]
    BY DEF Flush, CoverageInv, TypeOK
  <1>19. TypeOK'
    BY <1>12, <1>18 DEF Flush, CoverageInv, TypeOK, Library, Cached
  <1>20. Continues(w)
    BY <1>1, <1>11, <1>12 DEF Continues
  <1>23. QED
    BY <1>12, <1>13, <1>17, <1>19, <1>20, Assemble

LEMMA ReleaseType ==
    ASSUME TypeOK, NEW w \in Mappers, Release(w)
    PROVE  locks' \in [Techniques -> {NoOne} \cup Mappers]
  BY DEF TypeOK, Release

\* What a commit leaves in each cell: the one technique it wrote, merged.
LEMMA CommittedCells ==
    ASSUME CoverageInv, NEW w \in Mappers, MapCommit(w), NEW t \in Techniques
    PROVE  /\ wk[w].writes[t] = NoWrite => cells'[t] = cells[t]
           /\ wk[w].writes[t] # NoWrite =>
                /\ cells'[t] \in Cell /\ cells'[t].status \in Verdicts
                /\ Counted(cells'[t])
                /\ cells'[t].status \in {"covered", "partial"} => cells'[t].rules # {}
                /\ cells[t].rules # {} => cells'[t].rules # {}
                /\ cells'[t].cves # {} /\ cells'[t].stamp = wk[w].run
  <1>1. InTransaction(w) /\ MapperFacts(w)
    BY DEF MapCommit, MayCommit, InTransaction, At, CoverageInv
  <1>2. wk[w] \in Mapping /\ wk[w].cve \in Cves
    BY <1>1, TechniqueFacts
  <1>3. CASE wk[w].writes[t] = NoWrite
    BY <1>3 DEF MapCommit
  <1>4. CASE wk[w].writes[t] # NoWrite
    <2> DEFINE wr == wk[w].writes[t]
    <2>1. wr \in [old : Cell, new : Cell]
      BY <1>2, <1>4 DEF Mapping
    <2>2. WriteOK(t, wr, wk[w].cve, wk[w].run)
      BY <1>1, <1>4 DEF MapperFacts
    <2>3. cells'[t] = Updated(cells[t], wr)
      BY <1>4 DEF MapCommit
    <2> HIDE DEF wr
    <2>4. QED
      BY <1>2, <1>4, <2>1, <2>2, <2>3, UpdatedFacts
  <1>5. QED
    BY <1>3, <1>4

LEMMA MapCommitInv ==
    ASSUME CoverageInv, NEW w \in Mappers, MapCommit(w)
    PROVE  CoverageInv'
  <1>1. /\ wk[w] \in Mapping /\ InTransaction(w) /\ wk[w].run \in 1..maps
        /\ maps \in Nat /\ maps' = maps
    BY TechniqueFacts
    DEF MapCommit, MayCommit, InTransaction, At, CoverageInv, MapperFacts, TypeOK
  <1>2. ASSUME NEW t \in Techniques
        PROVE  cells'[t] \in Cell /\ CellFacts(t)'
    <2>1. cells'[t].stamp \in 0..maps'
      BY <1>1, CommittedCells DEF CoverageInv, CellFacts
    <2>2. QED
      BY <2>1, CommittedCells DEF CoverageInv, TypeOK, CellFacts, Counted
  <1>3. cells' \in [Techniques -> Cell]
    BY <1>2 DEF MapCommit
  <1>4. Fills
    BY CommittedCells DEF Fills
  <1>6. wk' = [wk EXCEPT ![w] = Invalidating]
    BY DEF MapCommit
  <1>7. /\ wk' \in [Mappers -> {Idle, Invalidating} \cup Mapping]
        /\ wk'[w] = Invalidating
        /\ \A v \in Mappers : v # w => wk'[v] = wk[v]
    BY <1>6, MapperSet DEF CoverageInv
  <1>8. MapperFacts(w)' /\ Continues(w)
    BY <1>7 DEF MapperFacts, InTransaction, At, Invalidating, Continues
  <1>13. ASSUME NEW v \in Mappers, v # w, InTransaction(v)
         PROVE  Unpublished(wk[v].run)'
    <2>1. wk[v].run # wk[w].run /\ Unpublished(wk[v].run)
      BY <1>1, <1>13 DEF CoverageInv, RunsDiffer, MapperFacts
    <2>2. QED
      BY <1>7, <1>13, <2>1, CommittedCells DEF Unpublished
  <1>9. \A v \in Mappers : MapperFacts(v)'
    <2>1. ASSUME NEW v \in Mappers, v # w
          PROVE  MapperFacts(v)'
      BY <1>1, <1>4, <1>7, <1>13, <2>1, MapperFrame
    <2>2. QED
      BY <1>8, <2>1
  <1>14. RunsDiffer'
    BY <1>7, <1>8, RunsStayDifferent
  <1>10. cache' \in Copies /\ reader' \in [request : Copies, beat : Copies]
    BY DEF MapCommit, CoverageInv, TypeOK, Aged, Copies, Compute
  <1>11. TypeOK'
    BY <1>3, <1>7, <1>10, ReleaseType DEF MapCommit, CoverageInv, TypeOK, Library
  <1>12. QED
    BY <1>2, <1>9, <1>11, <1>14 DEF CoverageInv

LEMMA StopInv ==
    ASSUME CoverageInv, NEW w \in Mappers,
           Invalidate(w) \/ InsertRefused(w) \/ DeadlockDetected(w) \/ MapperFails(w)
    PROVE  CoverageInv'
  <1>1. wk' = [wk EXCEPT ![w] = Idle] /\ cells' = cells /\ maps' = maps
    BY DEF Invalidate, InsertRefused, DeadlockDetected, MapperFails, Rollback, Board
  <1>2. /\ wk' \in [Mappers -> {Idle, Invalidating} \cup Mapping]
        /\ wk'[w] = Idle
        /\ \A v \in Mappers : v # w => wk'[v] = wk[v]
    BY <1>1, MapperSet DEF CoverageInv
  <1>3. MapperFacts(w)' /\ Continues(w)
    BY <1>2 DEF MapperFacts, InTransaction, At, Idle, Continues
  <1>4. TypeOK'
    <2>1. CASE Invalidate(w)
      BY <1>2, <2>1 DEF Invalidate, CoverageInv, TypeOK, Library, Board, Copies
    <2>2. CASE Rollback(w)
      BY <1>2, <2>2, ReleaseType DEF Rollback, CoverageInv, TypeOK, Library, Cached
    <2>3. QED
      BY <2>1, <2>2 DEF InsertRefused, DeadlockDetected, MapperFails
  <1>5. QED
    BY <1>1, <1>2, <1>3, <1>4, Assemble

-----------------------------------------------------------------------------
(* The invariant, and what follows.                                        *)

LEMMA CoverageInvInit == Init => CoverageInv
  <1> SUFFICES ASSUME Init PROVE CoverageInv
    OBVIOUS
  <1>1. TypeOK
    <2>1. NoRule \in Rule
      BY DEF NoRule, Rule
    <2>2. QED
      BY <2>1, BlankType DEF Init, TypeOK, Copies
  <1>2. \A w \in Mappers : MapperFacts(w)
    BY DEF Init, MapperFacts, InTransaction, At, Idle
  <1>3. \A t \in Techniques : CellFacts(t)
    <2>1. \A t \in Techniques : cells[t] = Blank(t) /\ 0 \in 0..maps
      BY DEF Init
    <2>2. IsFiniteSet({}) /\ Cardinality({}) = 0
      BY FS_EmptySet
    <2>3. QED
      BY <2>1, <2>2, BlankType DEF CellFacts, Counted, Absent
  <1>4. RunsDiffer
    BY DEF Init, RunsDiffer, InTransaction, Idle
  <1>5. QED
    BY <1>1, <1>2, <1>3, <1>4 DEF CoverageInv

LEMMA CoverageInvNext == CoverageInv /\ [Next]_vars => CoverageInv'
  <1> SUFFICES ASSUME CoverageInv, [Next]_vars PROVE CoverageInv'
    OBVIOUS
  <1>1. CASE RuleStep \/ CacheStep
    BY <1>1, OutsideInv
  <1>2. ASSUME NEW w \in Mappers, MapStep(w)
        PROVE  CoverageInv'
    BY <1>2, MapComputeInv, GetCoverageRowInv, FlushInv, MapCommitInv, StopInv
    DEF MapStep
  <1>3. CASE UNCHANGED vars
    <2>1. TypeOK' /\ cells' = cells /\ wk' = wk /\ maps' = maps
      BY <1>3 DEF vars, CoverageInv, TypeOK
    <2>2. QED
      BY <2>1, Assemble
  <1>4. QED
    BY <1>1, <1>2, <1>3 DEF Next

\* The inductive invariant: every row is counted and backed by a rule, and a
\* mapper's pending UPDATE was computed from a row the table really had.
THEOREM CoverageInvariant == Spec => []CoverageInv
  BY CoverageInvInit, CoverageInvNext, PTL DEF Spec

\* The library, the table, the mappers and the cache keep their types.
THEOREM TypeCorrect == Spec => []TypeOK
  <1>1. CoverageInv => TypeOK
    BY DEF CoverageInv
  <1>2. QED
    BY <1>1, CoverageInvariant, PTL

\* coverage_map.cve_count is the length of the list beside it, for any number of
\* mappers that merge into one row from stale reads with UPDATEs of only the
\* changed columns.
THEOREM CountsAgreeAlways == Spec => []CountsAgree
  <1>1. CoverageInv => CountsAgree
    BY DEF CoverageInv, CellFacts, Counted, CountsAgree
  <1>2. QED
    BY <1>1, CoverageInvariant, PTL

-----------------------------------------------------------------------------
(* The table implements the board.                                         *)

LEMMA BoardInitRefined == Init => BoardView!BoardInit
  <1> SUFFICES ASSUME Init PROVE BoardView!BoardInit
    OBVIOUS
  <1>1. \A t \in Techniques : cells[t] = Blank(t)
    BY DEF Init
  <1>2. \A t \in Techniques : /\ cells[t].rules = {} /\ cells[t].cves = {}
                              /\ cells[t].stamp = 0
                              /\ cells[t].status \in {"no_data", Absent}
    BY <1>1, BlankType
  <1>3. QED
    BY <1>2 DEF BoardView!BoardInit

\* A step that leaves the table alone is a stutter of the board.
LEMMA BoardStutter ==
    ASSUME cells' = cells
    PROVE  UNCHANGED BoardView!boardVars
  BY DEF BoardView!boardVars

LEMMA OnlyCommitWrites ==
    ASSUME [Next]_vars
    PROVE  cells' = cells \/ \E w \in Mappers : MapCommit(w)
  <1>1. CASE RuleStep
    BY <1>1 DEF RuleStep, Generate, RefreshUpsert, RefreshCommit, RefreshLost, Embed,
                KevListed, Board
  <1>2. CASE CacheStep
    BY <1>2 DEF CacheStep, get_matrix_data, warm, CacheExpires, cache_set, Board
  <1>3. ASSUME NEW w \in Mappers, MapStep(w)
        PROVE  cells' = cells \/ MapCommit(w)
    BY <1>3 DEF MapStep, MapCompute, GetCoverageRow, Flush, Invalidate, InsertRefused,
                DeadlockDetected, MapperFails, Rollback, Board
  <1>4. CASE UNCHANGED vars
    BY <1>4 DEF vars
  <1>5. QED
    BY <1>1, <1>2, <1>3, <1>4 DEF Next

\* A commit comes after the last technique of the chain.
LEMMA CommitComplete ==
    ASSUME CoverageInv, NEW w \in Mappers, MapCommit(w)
    PROVE  /\ wk[w].cve \in Cves /\ wk[w].run # 0
           /\ \A t \in Techniques :
                /\ t \in Chain(wk[w].cve) <=> wk[w].writes[t] # NoWrite
                /\ cells[t].stamp # wk[w].run
  <1>1. InTransaction(w) /\ MapperFacts(w) /\ wk[w].pc = "commit"
    BY DEF MapCommit, MayCommit, InTransaction, At, CoverageInv
  <1>2. wk[w].cve \in Cves /\ wk[w].run \in 1..maps /\ maps \in Nat
    BY <1>1, TechniqueFacts DEF MapperFacts, CoverageInv, TypeOK
  <1>3. ASSUME NEW t \in Chain(wk[w].cve)
        PROVE  wk[w].writes[t] # NoWrite
    <2>1. PICK j \in 1..Len(Ttps[wk[w].cve]) : t = Ttps[wk[w].cve][j]
      BY DEF Chain
    <2>2. QED
      BY <1>1, <2>1 DEF MapperFacts
  <1>4. QED
    BY <1>1, <1>2, <1>3 DEF MapperFacts, Unpublished

\* A commit publishes every technique of its chain, all of them at once.
LEMMA CommitPublishes ==
    ASSUME CoverageInv, CoverageInv', NEW w \in Mappers, MapCommit(w)
    PROVE  BoardView!BoardNext
  <1>0. /\ Chain(wk[w].cve) \in {Chain(c) : c \in Cves}
        /\ Chain(wk[w].cve) \subseteq Techniques /\ Chain(wk[w].cve) # {}
    BY CommitComplete, ChainFacts
  <1> PICK T \in {Chain(c) : c \in Cves} : T = Chain(wk[w].cve)
    BY <1>0
  <1> DEFINE n == wk[w].run
             Show(cell) == IF cell.status = Absent THEN "no_data" ELSE cell.status
  <1>1. \A t \in Techniques : cells'[t] \in Cell
    BY DEF CoverageInv, TypeOK
  <1>2. \A t \in Techniques : Show(cells'[t]) \in Verdicts \cup {"no_data"}
    BY <1>1 DEF Cell, Verdicts
  <1>3. \A t \in Techniques \ T : cells'[t] = cells[t]
    BY CommittedCells, CommitComplete
  <1>4. T \in {Chain(c) : c \in Cves} /\ T \subseteq Techniques /\ T # {}
    BY <1>0
  <1>5. ASSUME NEW t \in T
        PROVE  /\ Show(cells'[t]) \in Verdicts /\ Show(cells'[t]) = cells'[t].status
               /\ cells[t].rules # {} => cells'[t].rules # {}
               /\ cells'[t].cves # {}
               /\ cells'[t].status \in {"covered", "partial"} => cells'[t].rules # {}
               /\ cells'[t].stamp = n /\ cells[t].stamp # n
    BY <1>4, CommittedCells, CommitComplete DEF Verdicts, Absent
  <1> DEFINE rounds == [t \in Techniques |-> cells'[t].stamp]
  <1> HIDE DEF n
  <1>6. n \in {rounds[t] : t \in T}
    BY <1>4, <1>5
  <1>7. rounds = [t \in Techniques |->
                    IF t \in T THEN n ELSE [u \in Techniques |-> cells[u].stamp][t]]
    BY <1>3, <1>5
  <1>8. \A t \in T : [u \in Techniques |-> cells[u].stamp][t] # n
    BY <1>4, <1>5
  <1>9. BoardView!Publish(T)
    BY <1>1, <1>2, <1>3, <1>4, <1>5, <1>6, <1>7, <1>8
    DEF BoardView!Publish, BoardView!Verdict, BoardView!Backed, BoardView!Kept,
        Verdicts, Cell
  <1>10. QED
    BY <1>4, <1>9 DEF BoardView!BoardNext

\* Whatever mappers overlap, deadlock, are refused or die, what the readers of
\* the matrix see is a run of the board: each change is the verdicts of one run
\* for every technique of a chain, backed by a rule, and none disappears.
THEOREM BoardRefined == Spec => ImplementsBoard
  <1>1. CoverageInv /\ CoverageInv' /\ [Next]_vars
          => [BoardView!BoardNext]_(BoardView!boardVars)
    BY OnlyCommitWrites, BoardStutter, CommitPublishes
  <1>2. QED
    BY <1>1, BoardInitRefined, CoverageInvariant, PTL
    DEF Spec, ImplementsBoard, BoardView!BoardSpec
=============================================================================
