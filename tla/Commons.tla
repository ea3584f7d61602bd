-------------------------------- MODULE Commons --------------------------------
(***************************************************************************)
(* The intelligence commons: sources an administrator configures, releases *)
(* imported from them by the bootstrap, the hourly sync and the endpoint,  *)
(* and the choice of the winning chain for one CVE.  What a repository     *)
(* publishes, withdraws or republishes is its own business: every fetch    *)
(* may find any release.                                                   *)
(***************************************************************************)
EXTENDS Naturals, FiniteSets

CONSTANTS
    CommonsSources,
    TrustLevels,             \* trust levels an administrator sets
    Priorities,              \* values of source.priority, from 1
    ImportTasks,             \* bootstrap, beat task and endpoint that may overlap
    COMMONS_ALLOW_MOCK_FALLBACK,
    MaxChainVersion,         \* bound: chain versions and release names
    MaxEdits, MaxImports     \* bounds: administrative requests, imports begun

ASSUME CommonsAssumption ==
    /\ IsFiniteSet(CommonsSources)
    /\ TrustLevels \subseteq {"community", "partner", "internal"}
    /\ Priorities \subseteq Nat
    /\ COMMONS_ALLOW_MOCK_FALLBACK \in BOOLEAN
    /\ MaxChainVersion \in Nat

VARIABLES
    commonsSource, \* commons_sources
    commonsChains, \* commons_chains of the CVE
    importer,      \* the import each task has under way
    edited,        \* administrative requests so far
    imported       \* imports begun so far

commonsVars == <<commonsSource, commonsChains, importer, edited, imported>>

TRUST_LEVEL_RANK == [community |-> 0, partner |-> 1, internal |-> 2]

\* The id of a deleted source does not come back.
NoSource == [state |-> "new", enabled |-> FALSE, priority |-> 0, trust |-> "community",
             release |-> 0]
Deleted == [NoSource EXCEPT !.state = "deleted"]
CommonsRow(s, v) == [source |-> s, version |-> v]
NoImport == [pc |-> "idle", loaded |-> [s \in {} |-> 0]]

Existing == {s \in CommonsSources : commonsSource[s].state = "there"}
Enabled == {s \in Existing : commonsSource[s].enabled}

(***************************************************************************)
(* Administration.                                                         *)
(***************************************************************************)
Edited == edited < MaxEdits /\ edited' = edited + 1 /\ UNCHANGED <<importer, imported>>

create_source(s, p, trust, enabled) ==
    /\ commonsSource[s].state = "new"
    /\ commonsSource' = [commonsSource EXCEPT ![s] =
                           [state |-> "there", enabled |-> enabled, priority |-> p,
                            trust |-> trust, release |-> 0]]
    /\ UNCHANGED commonsChains
    /\ Edited

update_source(s, p, trust, enabled) ==
    /\ s \in Existing
    /\ commonsSource' = [commonsSource EXCEPT ![s].priority = p, ![s].trust = trust,
                                              ![s].enabled = enabled]
    /\ UNCHANGED commonsChains
    /\ Edited

\* The chains of the source go with it.
delete_source(s) ==
    /\ s \in Existing
    /\ commonsSource' = [commonsSource EXCEPT ![s] = Deleted]
    /\ commonsChains' = {c \in commonsChains : c.source # s}
    /\ Edited

(***************************************************************************)
(* Imports: a task loads its sources, fetches and imports one after the    *)
(* other and commits once.  Nobody sees what it found before the commit.   *)
(***************************************************************************)
BeginImport(t, kind, S) ==
    /\ importer[t] = NoImport /\ S # {} /\ imported < MaxImports
    /\ importer' = [importer EXCEPT ![t] =
         [pc |-> kind, loaded |-> [s \in S |-> [release |-> commonsSource[s].release,
                                                trust |-> commonsSource[s].trust]]]]
    /\ imported' = imported + 1
    /\ UNCHANGED <<commonsSource, commonsChains, edited>>

\* The API skips it at start-up once a source was synced; the task never does.
bootstrap_all(t) == BeginImport(t, "bootstrap", Enabled)
sync_all(t) == BeginImport(t, "sync", Enabled)
sync_one(t, s) == s \in Enabled /\ BeginImport(t, "sync", {s})

\* A release's name, the chain it has for the CVE (0: none, or one the scan of
\* the repository could not read) and that chain's level.
Releases == {r \in [name : 1..MaxChainVersion, chain : 0..MaxChainVersion,
                    tlp : {"clear", "amber"}] : r.chain = 0 => r.tlp = "clear"}
NoRelease == [name |-> 0, chain |-> 0, tlp |-> "clear"]
MockRelease == [name |-> MaxChainVersion + 1, chain |-> 1, tlp |-> "clear"]

\* No release or no network: a sync notes it and goes on, a bootstrap takes the
\* mock release where that is allowed and otherwise raises, and everything its
\* transaction imported is lost.  An import that fails is noted by both.
fetch_latest_release(kind) ==
    Releases \cup {NoRelease}
    \cup (IF kind = "bootstrap" /\ COMMONS_ALLOW_MOCK_FALLBACK THEN {MockRelease} ELSE {})

\* A community source gives clear chains only; its level is the one loaded.
import_release(s, trust, release) ==
    IF release.chain = 0 \/ (trust = "community" /\ release.tlp # "clear") THEN {}
    ELSE {CommonsRow(s, release.chain)}

\* The sources whose release names another one than the row that was loaded.
News(t, found) == {s \in DOMAIN importer[t].loaded :
                     found[s].name \notin {0, importer[t].loaded[s].release}}

\* A sync imports news only.
NewRows(t, found) ==
    UNION {import_release(s, importer[t].loaded[s].trust, found[s]) :
             s \in IF importer[t].pc = "sync" THEN News(t, found)
                   ELSE DOMAIN importer[t].loaded}

\* A chain version that is there is never overwritten; every loaded row is
\* updated, which fails when one was deleted.
ImportCommits(t) ==
    /\ importer[t].pc # "idle"
    /\ DOMAIN importer[t].loaded \subseteq Existing
    /\ \E found \in [DOMAIN importer[t].loaded -> fetch_latest_release(importer[t].pc)] :
         /\ commonsChains' = commonsChains \cup NewRows(t, found)
         /\ commonsSource' = [s \in CommonsSources |->
              IF s \in News(t, found) THEN [commonsSource[s] EXCEPT !.release = found[s].name]
              ELSE commonsSource[s]]
    /\ importer' = [importer EXCEPT ![t] = NoImport]
    /\ UNCHANGED <<edited, imported>>

\* The process dies, a bootstrap finds no release, or the commit fails.
ImportRollsBack(t) ==
    /\ importer[t] # NoImport
    /\ importer' = [importer EXCEPT ![t] = NoImport]
    /\ UNCHANGED <<commonsSource, commonsChains, edited, imported>>

(***************************************************************************)
(* check_chain_exists.                                                     *)
(***************************************************************************)
trust_rank(s) == TRUST_LEVEL_RANK[commonsSource[s].trust]
\* (priority, trust rank, version) compared lexicographically, as one number.
Key(c) == (commonsSource[c.source].priority * 3 + trust_rank(c.source)) * (MaxChainVersion + 1)
          + c.version

\* Mutant: the newest version wins, whoever published it.
select_winning_chain_newest(rows) ==
    CHOOSE c \in rows : \A d \in rows : d.version < c.version
                                        \/ (d.version = c.version /\ Key(d) <= Key(c))

select_winning_chain(rows) == CHOOSE c \in rows : \A d \in rows : Key(d) <= Key(c)

WinnerKey == IF commonsChains = {} THEN 0 ELSE Key(select_winning_chain(commonsChains))

CommonsInit ==
    /\ commonsSource = [s \in CommonsSources |-> NoSource]
    /\ commonsChains = {}
    /\ importer = [t \in ImportTasks |-> NoImport]
    /\ edited = 0 /\ imported = 0

CommonsNext ==
    \/ \E s \in CommonsSources :
         \/ delete_source(s)
         \/ \E p \in Priorities, l \in TrustLevels, b \in BOOLEAN :
              create_source(s, p, l, b) \/ update_source(s, p, l, b)
    \/ \E t \in ImportTasks :
         \/ bootstrap_all(t) \/ sync_all(t) \/ ImportCommits(t) \/ ImportRollsBack(t)
         \/ \E s \in CommonsSources : sync_one(t, s)

CommonsSpec == CommonsInit /\ [][CommonsNext]_commonsVars

(***************************************************************************)
(* Properties.                                                             *)
(***************************************************************************)

SameRanks == \A s \in CommonsSources :
    /\ commonsSource'[s].state = commonsSource[s].state
    /\ commonsSource'[s].priority = commonsSource[s].priority
    /\ commonsSource'[s].trust = commonsSource[s].trust

\* Unless an administrator re-ranks or deletes a source, the chain
\* check_chain_exists answers with never gets worse by (priority, trust,
\* version): overlapping imports, withdrawn releases and rolled-back bootstraps
\* included.
WinnerNeverDowngraded == [][SameRanks => WinnerKey <= WinnerKey']_commonsVars
=============================================================================
