------------------------------ MODULE Coverage ------------------------------
(***************************************************************************)
(* The coverage mapper, the coverage_map table, the matrix cache and the   *)
(* rule library they read.                                                 *)
(*                                                                         *)
(* map_coverage works out one verdict per technique of a chain and merges  *)
(* it into the technique's row.  Nothing serialises two mappers: a row is  *)
(* read without a lock, the UPDATE (which autoflush sends before the next  *)
(* query) carries only the columns that changed from what was read, and    *)
(* holds the row until the commit.  The cache is filled from a read that   *)
(* an invalidation may overtake.                                           *)
(***************************************************************************)
EXTENDS Naturals, FiniteSets, Sequences

CONSTANTS
    Techniques, Rules, Cves,
    Seeded,      \* techniques seed_attck_techniques put into coverage_map
    Ttps,        \* the techniques of each CVE's chain, in seq_order
    Similar,     \* <<cve, technique, rule>>: score >= SEMANTIC_SCORE_THRESHOLD
    TagSets,     \* the technique tags a rule text may carry
    Answers,     \* what the verify calls of one run may answer
    Mappers,     \* worker processes and recompute requests
    VerifyCap,   \* settings.COVERAGE_VERIFY_MAX_CALLS
    MaxMaps,     \* bound: map_coverage runs
    MaxInputs,   \* bound: rules generated or refreshed, CVEs added to KEV
    MaxFaults    \* bound: lost messages, Redis failures, crashes

ASSUME CoverageAssumption ==
    /\ Ttps \in [Cves -> Seq(Techniques)]
    /\ Seeded \subseteq Techniques
    /\ \A c \in Cves : /\ Ttps[c] # <<>>
                       /\ \A i, j \in 1..Len(Ttps[c]) :
                            Ttps[c][i] = Ttps[c][j] => i = j
    /\ Similar \subseteq Cves \X Techniques \X Rules
    /\ TagSets \subseteq SUBSET Techniques
    /\ Answers \subseteq [Techniques \X Rules -> {"yes", "partial", "no"}]
    /\ {VerifyCap, MaxMaps, MaxInputs, MaxFaults} \subseteq Nat

VARIABLES
    verify,    \* settings.COVERAGE_LLM_VERIFY_ENABLED
    lib,       \* sigma_rules: [status, tags] per rule
    refresh,   \* a sigma source refresh whose transaction is open
    embeds,    \* embed_sigma_rule messages that wait
    index,     \* the Qdrant collection: the tags a point was embedded with
    kev,       \* CVEs with cisa_kev
    cells,     \* coverage_map
    locks,     \* who holds each row of coverage_map
    wk,        \* the mapping each mapper is in the middle of
    cache,     \* the matrix:attck:* key: the table it shows, if any
    reader,    \* what a request and the warm-up read and have not set yet
    maps, inputs, faults

vars == <<verify, lib, refresh, embeds, index, kev, cells, locks, wk, cache,
          reader, maps, inputs, faults>>

Library == <<lib, refresh, embeds, index, inputs>>
Board == <<cells, locks>>
Cached == <<cache, reader>>

(***************************************************************************)
(* The rule library.                                                       *)
(***************************************************************************)
Unindexed == <<>>   \* a point is <<its tags>>
NoRefresh == [pc |-> "none"]
NoRule == [status |-> "absent", tags |-> {}]

\* RuleGenerator persists a draft and hands its text to the embedder.
Generate(r, T) ==
    /\ inputs < MaxInputs /\ inputs' = inputs + 1
    /\ lib[r].status = "absent"
    /\ lib' = [lib EXCEPT ![r] = [status |-> "draft", tags |-> T]]
    /\ embeds' = embeds \cup {<<r, T>>}
    /\ UNCHANGED <<verify, refresh, index, kev, Board, wk, Cached, maps, faults>>

\* SigmaSourceClient._refresh: pull the repository and upsert its rules; the
\* embedding of each new or changed text is queued before the commit.
RefreshUpsert(r, T) ==
    /\ inputs < MaxInputs /\ inputs' = inputs + 1
    /\ refresh = NoRefresh
    /\ lib[r] # [status |-> "merged", tags |-> T]
    /\ refresh' = [pc |-> "open", rule |-> r, tags |-> T]
    /\ embeds' = embeds \cup {<<r, T>>}
    /\ UNCHANGED <<verify, lib, index, kev, Board, wk, Cached, maps, faults>>

\* A new row is 'merged'; an existing one (matched by sigma_uuid) takes the
\* text and keeps its status.
RefreshCommit ==
    /\ refresh # NoRefresh
    /\ LET r == refresh.rule IN
       lib' = [lib EXCEPT ![r] =
                 [status |-> IF @.status = "absent" THEN "merged" ELSE @.status,
                  tags |-> refresh.tags]]
    /\ refresh' = NoRefresh
    /\ UNCHANGED <<verify, embeds, index, inputs, kev, Board, wk, Cached, maps,
                   faults>>

RefreshLost ==
    /\ refresh # NoRefresh /\ faults < MaxFaults
    /\ faults' = faults + 1 /\ refresh' = NoRefresh
    /\ UNCHANGED <<verify, lib, embeds, index, inputs, kev, Board, wk, Cached,
                   maps>>

\* embed_sigma_rule upserts the point from the message, not from the row.
Embed(m) ==
    /\ m \in embeds
    /\ embeds' = embeds \ {m}
    /\ \/ index' = [index EXCEPT ![m[1]] = <<m[2]>>] /\ faults' = faults
       \/ faults < MaxFaults /\ faults' = faults + 1 /\ index' = index
    /\ UNCHANGED <<verify, lib, refresh, inputs, kev, Board, wk, Cached, maps>>

\* A feed adds the CVE to the KEV catalogue.
KevListed(c) ==
    /\ inputs < MaxInputs /\ inputs' = inputs + 1
    /\ c \notin kev /\ kev' = kev \cup {c}
    /\ UNCHANGED <<verify, lib, refresh, embeds, index, Board, wk, Cached, maps, faults>>

(***************************************************************************)
(* The verdicts of one run.                                                *)
(***************************************************************************)
Chain(c) == {Ttps[c][i] : i \in 1..Len(Ttps[c])}

phase1_exact_match(t) == {r \in Rules : lib[r].status = "merged" /\ t \in lib[r].tags}

\* reach: the techniques whose search Qdrant answered.  A semantic hit that
\* already carries the tag is left to phase 1.
phase2_collect_candidates(c, t, reach) ==
    {r \in Rules : /\ t \in reach
                   /\ index[r] # Unindexed /\ t \notin index[r][1]
                   /\ <<c, t, r>> \in Similar}

\* The calls beyond the cap are answered "yes" without asking; a call that
\* fails is answered "no".
verify_one(p, asked, answer) == IF p \in asked THEN answer[p] ELSE "yes"

\* The pairs of S that n verify calls reach, in whatever order they run.
Reached(S, n) ==
    {A \in SUBSET S :
       Cardinality(A) = IF n < Cardinality(S) THEN n ELSE Cardinality(S)}

\* Phase 1.5: the LLM's verdict on every exact match.
phase1_5_verify_tag_match(t, asked, answer, v) ==
    {r \in phase1_exact_match(t) : verify_one(<<t, r>>, asked, answer) = v}

\* Phase 2: the candidates of the techniques no exact match covers.
Uncovered(c, reach, asked, answer) ==
    {p \in Chain(c) \X Rules :
       /\ phase1_5_verify_tag_match(p[1], asked, answer, "yes") = {}
       /\ p[2] \in phase2_collect_candidates(c, p[1], reach)}

phase2_verify(cand, t, asked, answer, v) ==
    {r \in Rules : <<t, r>> \in cand /\ verify_one(<<t, r>>, asked, answer) = v}

\* What phase 1.5 (calls A, answers a) and phase 2 (calls B, answers b) make of
\* the chain: a rule that covers is not also listed as partial.
Assigned(c, reach, A, a, B, b) ==
    LET cand == Uncovered(c, reach, A, a)
        cov(t) == phase1_5_verify_tag_match(t, A, a, "yes")
                    \cup phase2_verify(cand, t, B, b, "yes")
        weak(t) == phase1_5_verify_tag_match(t, A, a, "partial")
                     \cup phase2_verify(cand, t, B, b, "partial")
    IN [t \in Chain(c) |-> [covering |-> cov(t), partial |-> weak(t) \ cov(t)]]

\* Phase 2 gets the calls that phase 1.5 left.
Phase2(c, reach, A, a) ==
    UNION {{Assigned(c, reach, A, a, B, b) : b \in Answers} :
           B \in Reached(Uncovered(c, reach, A, a), VerifyCap - Cardinality(A))}

\* Both phases, which share one budget of calls.
Verified(c, reach) ==
    LET exact == {p \in Chain(c) \X Rules : p[2] \in phase1_exact_match(p[1])}
    IN UNION {UNION {Phase2(c, reach, A, a) : a \in Answers} :
              A \in Reached(exact, VerifyCap)}

\* No provider is configured: tag matches stay, phase 2 has no verdicts.
WithoutProvider(c) ==
    [t \in Chain(c) |-> [covering |-> phase1_exact_match(t), partial |-> {}]]

\* Without verification every candidate covers, and an exact match does not.
Unverified(c, reach) ==
    [t \in Chain(c) |->
       [covering |-> phase2_collect_candidates(c, t, reach), partial |-> {}]]

Results(c, reach) ==
    IF verify THEN Verified(c, reach) \cup {WithoutProvider(c)}
    ELSE {Unverified(c, reach)}

Verdict(res) ==
    CASE res.covering # {} -> "covered"
      [] res.covering = {} /\ res.partial # {} -> "partial"
      [] OTHER -> "gap"

(***************************************************************************)
(* map_coverage: a Celery task or a synchronous recompute request.         *)
(***************************************************************************)
Absent == "absent"
Cell == [status : {Absent, "no_data", "covered", "partial", "gap"},
         rules : SUBSET Rules, cves : SUBSET Cves,
         count : Nat, kev : Nat,
         stamp : Nat]   \* last_refreshed: the run that wrote it (0: none)
Blank(t) == [status |-> IF t \in Seeded THEN "no_data" ELSE Absent,
             rules |-> {}, cves |-> {}, count |-> 0, kev |-> 0, stamp |-> 0]
NoOne == "none"
NoWrite == [col \in {} |-> Absent]
Idle == [pc |-> "idle"]
Invalidating == [pc |-> "invalidate"]
At(w, p) == wk[w].pc = p
TechniqueOf(w) == Ttps[wk[w].cve][wk[w].i]
Release(w) == locks' = [t \in Techniques |-> IF locks[t] = w THEN NoOne ELSE locks[t]]

\* Load the chain and decide every technique.
MapCompute(w, c, reach) ==
    /\ At(w, "idle") /\ maps < MaxMaps /\ maps' = maps + 1
    /\ \E res \in Results(c, reach) :
         wk' = [wk EXCEPT ![w] = [pc |-> "read", run |-> maps + 1, cve |-> c, res |-> res,
                                  i |-> 1, row |-> Blank(Ttps[c][1]),
                                  writes |-> [t \in Techniques |-> NoWrite]]]
    /\ IF reach = Chain(c) THEN faults' = faults
       ELSE faults < MaxFaults /\ faults' = faults + 1
    /\ UNCHANGED <<verify, Library, kev, Board, Cached>>

\* _persist_statuses, one technique: SELECT the row ...
GetCoverageRow(w) ==
    /\ At(w, "read")
    /\ wk' = [wk EXCEPT ![w].pc = "write", ![w].row = cells[TechniqueOf(w)]]
    /\ UNCHANGED <<verify, Library, kev, Board, Cached, maps, faults>>

\* Mutant: the CVE counter is incremented, not recounted.
MergedIncrement(row, res, c, n) ==
    [status |-> Verdict(res),
     rules |-> row.rules \cup res.covering \cup res.partial,
     cves |-> row.cves \cup {c}, count |-> row.count + 1,
     kev |-> Cardinality((row.cves \cup {c}) \cap kev), stamp |-> n]

\* ... merge the verdict into it ...
Merged(row, res, c, n) ==
    LET cs == row.cves \cup {c} IN
    [status |-> Verdict(res),
     rules |-> row.rules \cup res.covering \cup res.partial,
     cves |-> cs, count |-> Cardinality(cs), kev |-> Cardinality(cs \cap kev),
     stamp |-> n]

\* ... and UPDATE (or INSERT) it, once no other transaction holds it.
Flush(w) ==
    LET t == TechniqueOf(w) IN
    /\ At(w, "write") /\ locks[t] = NoOne
    /\ ~(wk[w].row.status = Absent /\ cells[t].status # Absent)
    /\ locks' = [locks EXCEPT ![t] = w]
    /\ wk' = [wk EXCEPT
               ![w].writes[t] = [old |-> wk[w].row,
                                 new |-> Merged(wk[w].row, wk[w].res[t], wk[w].cve, wk[w].run)],
               ![w].pc = IF wk[w].i < Len(Ttps[wk[w].cve]) THEN "read" ELSE "commit",
               ![w].i = IF @ < Len(Ttps[wk[w].cve]) THEN @ + 1 ELSE @]
    /\ UNCHANGED <<verify, Library, kev, cells, Cached, maps, faults>>

\* The matrix of the rows as they are committed now, filters applied.
Compute == "current"

\* A copy of it is that until a mapper commits, then "old".
Aged(copy) == IF copy = Compute THEN "old" ELSE copy

\* The columns of an UPDATE are those whose value changed from the one loaded.
Updated(cell, wr) ==
    [col \in DOMAIN cell |-> IF wr.new[col] # wr.old[col] THEN wr.new[col] ELSE cell[col]]

\* Mutant: a run may commit before it has come to its last technique.
CommitsEarly(w) == At(w, "commit") \/ (At(w, "read") /\ wk[w].i > 1)

MayCommit(w) == At(w, "commit")

MapCommit(w) ==
    /\ MayCommit(w)
    /\ cells' = [t \in Techniques |->
                   IF wk[w].writes[t] = NoWrite THEN cells[t]
                   ELSE Updated(cells[t], wk[w].writes[t])]
    /\ Release(w)
    /\ wk' = [wk EXCEPT ![w] = Invalidating]
    /\ cache' = Aged(cache) /\ reader' = [q \in DOMAIN reader |-> Aged(reader[q])]
    /\ UNCHANGED <<verify, Library, kev, maps, faults>>

Rollback(w) ==
    /\ Release(w) /\ wk' = [wk EXCEPT ![w] = Idle]
    /\ UNCHANGED <<verify, Library, kev, cells, Cached, maps>>

\* UNIQUE(technique_id, framework): another mapper inserted the row.
InsertRefused(w) ==
    /\ At(w, "write") /\ wk[w].row.status = Absent
    /\ cells[TechniqueOf(w)].status # Absent
    /\ Rollback(w) /\ faults' = faults

\* PostgreSQL ends one of two transactions that wait for each other.
DeadlockDetected(w) ==
    /\ At(w, "write")
    /\ \E v \in Mappers \ {w} : /\ locks[TechniqueOf(w)] = v /\ At(v, "write")
                                /\ locks[TechniqueOf(v)] = w
    /\ Rollback(w) /\ faults' = faults

MapperFails(w) ==
    /\ wk[w].pc \in {"read", "write", "commit"} /\ faults < MaxFaults
    /\ faults' = faults + 1 /\ Rollback(w)

(***************************************************************************)
(* MatrixCache.                                                            *)
(***************************************************************************)
NoValue == "none"

\* invalidate; a Redis failure is only logged.
Invalidate(w) ==
    /\ At(w, "invalidate") /\ wk' = [wk EXCEPT ![w] = Idle]
    /\ \/ cache' = NoValue /\ faults' = faults
       \/ faults < MaxFaults /\ faults' = faults + 1 /\ cache' = cache
    /\ UNCHANGED <<verify, Library, kev, Board, reader, maps>>

\* get_matrix_data computes on a miss, warm always.
get_matrix_data ==
    /\ reader.request = NoValue /\ cache = NoValue
    /\ reader' = [reader EXCEPT !.request = Compute]
    /\ UNCHANGED <<verify, Library, kev, Board, wk, cache, maps, faults>>

\* Mutant: the beat task goes through the cached read.
warm_if_missing ==
    /\ reader.beat = NoValue /\ cache = NoValue
    /\ reader' = [reader EXCEPT !.beat = Compute]
    /\ UNCHANGED <<verify, Library, kev, Board, wk, cache, maps, faults>>

warm ==
    /\ reader.beat = NoValue
    /\ reader' = [reader EXCEPT !.beat = Compute]
    /\ UNCHANGED <<verify, Library, kev, Board, wk, cache, maps, faults>>

cache_set(q) ==
    /\ reader[q] # NoValue
    /\ cache' = reader[q] /\ reader' = [reader EXCEPT ![q] = NoValue]
    /\ UNCHANGED <<verify, Library, kev, Board, wk, maps, faults>>

\* The key's time to live ends.
CacheExpires ==
    /\ cache # NoValue /\ cache' = NoValue
    /\ UNCHANGED <<verify, Library, kev, Board, wk, reader, maps, faults>>

(***************************************************************************)
(* Specification.                                                          *)
(***************************************************************************)
Init ==
    /\ verify \in BOOLEAN
    /\ lib = [r \in Rules |-> NoRule] /\ refresh = NoRefresh /\ embeds = {}
    /\ index = [r \in Rules |-> Unindexed]
    /\ kev = {}
    /\ cells = [t \in Techniques |-> Blank(t)]
    /\ locks = [t \in Techniques |-> NoOne]
    /\ wk = [w \in Mappers |-> Idle]
    /\ cache = NoValue /\ reader = [request |-> NoValue, beat |-> NoValue]
    /\ maps = 0 /\ inputs = 0 /\ faults = 0

RuleStep ==
    \/ \E r \in Rules, T \in TagSets : Generate(r, T) \/ RefreshUpsert(r, T)
    \/ RefreshCommit \/ RefreshLost
    \/ \E m \in embeds : Embed(m)
    \/ \E c \in Cves : KevListed(c)

MapStep(w) ==
    \/ \E c \in Cves : \E reach \in {Chain(c), {}} : MapCompute(w, c, reach)
    \/ GetCoverageRow(w) \/ Flush(w) \/ MapCommit(w) \/ Invalidate(w)
    \/ InsertRefused(w) \/ DeadlockDetected(w) \/ MapperFails(w)

CacheStep ==
    \/ get_matrix_data \/ warm \/ CacheExpires
    \/ \E q \in {"request", "beat"} : cache_set(q)

Next == RuleStep \/ CacheStep \/ \E w \in Mappers : MapStep(w)

\* Beat fires refresh_matrix_cache every ten minutes and the task ends.
Fairness == WF_vars(warm) /\ WF_vars(cache_set("beat"))

Spec == Init /\ [][Next]_vars /\ Fairness

(***************************************************************************)
(* Properties.                                                             *)
(***************************************************************************)
Rule == [status : {"absent", "draft", "merged"}, tags : SUBSET Techniques]
Outcome == [covering : SUBSET Rules, partial : SUBSET Rules]
Mapping == [pc : {"read", "write", "commit"}, run : Nat, cve : Cves,
            res : UNION {[Chain(c) -> Outcome] : c \in Cves}, i : Nat, row : Cell,
            writes : [Techniques -> {NoWrite} \cup [old : Cell, new : Cell]]]
Copies == {NoValue, Compute, "old"}

TypeOK ==
    /\ verify \in BOOLEAN /\ kev \subseteq Cves
    /\ lib \in [Rules -> Rule]
    /\ refresh \in {NoRefresh} \cup [pc : {"open"}, rule : Rules,
                                     tags : SUBSET Techniques]
    /\ embeds \subseteq Rules \X SUBSET Techniques
    /\ index \in [Rules -> {Unindexed} \cup {<<T>> : T \in SUBSET Techniques}]
    /\ cells \in [Techniques -> Cell]
    /\ locks \in [Techniques -> {NoOne} \cup Mappers]
    /\ wk \in [Mappers -> {Idle, Invalidating} \cup Mapping] /\ maps \in Nat
    /\ cache \in Copies /\ reader \in [request : Copies, beat : Copies]

\* Two mappers that merge into one row never leave a count that differs from
\* the list it counts, although each UPDATE carries only changed columns.
CountsAgree == \A t \in Techniques : cells[t].count = Cardinality(cells[t].cves)

\* The board of the matrix, as its readers may rely on it: an implementation
\* of CoverageBoard, whatever mappers overlap, deadlock or die. The techniques
\* of a chain change together, all of them to the same run's verdicts.
BoardView == INSTANCE CoverageBoard WITH
    Chains <- {Chain(c) : c \in Cves},
    round <- [t \in Techniques |-> cells[t].stamp],
    shown <- [t \in Techniques |-> IF cells[t].status = Absent THEN "no_data"
                                   ELSE cells[t].status],
    rulesListed <- [t \in Techniques |-> cells[t].rules],
    cvesListed <- [t \in Techniques |-> cells[t].cves]

ImplementsBoard == BoardView!BoardSpec

\* A matrix cached from a read that an invalidation overtook does not stay:
\* the beat task replaces it.
CacheCatchesUp == <>[](cache # "old")

=============================================================================
