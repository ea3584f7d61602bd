---------------------------- MODULE AttackChains ----------------------------
(***************************************************************************)
(* attack_chains, for one CVE: who may write a chain and which chain is    *)
(* the active one.  Assessments synthesize a chain at the end of Loop 2    *)
(* and supersede the one that was active; the LLM generator (or a hit in   *)
(* the commons) only inserts.  Writers overlap: what a writer read is not  *)
(* locked, an UPDATE holds its rows and an INSERT its index entries until  *)
(* the transaction ends.                                                   *)
(***************************************************************************)
EXTENDS Naturals, FiniteSets, FiniteSetsExt

CONSTANTS
    Assessments,     \* assessments of the CVE
    Generators,      \* synthesize_chain tasks
    MAX_VALIDATION_RETRIES,
    MaxChains        \* bound: chains written

VARIABLES chainRows, chainTx

chainVars == <<chainRows, chainTx>>

Writers == Assessments \cup Generators
ChainRow == [version : Nat, origin : {"assessment", "local", "commons"},
             fallback : BOOLEAN, status : {"draft", "validated", "rejected"},
             active : BOOLEAN]
NoTx == [pc |-> "idle"]
TxAt(w, p) == chainTx[w].pc = p
ChainsFull == Cardinality(chainRows) >= MaxChains

ActiveChains == {r \in chainRows : r.active}

\* UNIQUE(cve_id, version) counts superseded rows, so a version is the next one.
NextVersion == 1 + Max({0} \cup {r.version : r \in chainRows})

(***************************************************************************)
(* ChainSynthesizer, in the transaction of a Loop 2 run.                   *)
(***************************************************************************)

\* What the curated table says of the vuln_class: TTPs, nothing (a generic chain
\* is flagged for review), or rows that make no chain.
Mapping == {"mapped", "fallback", "malformed"}

SynthesizeStart(w, m) ==
    /\ w \in Assessments /\ TxAt(w, "idle") /\ ~ChainsFull
    /\ chainTx' = [chainTx EXCEPT ![w] =
                     [pc |-> "supersede", old |-> {r.version : r \in ActiveChains},
                      mapping |-> m, origin |-> "assessment", version |-> 0,
                      attempt |-> 0]]
    /\ UNCHANGED chainRows

\* Rows some open transaction updated or inserted.
Held(w) == UNION {chainTx[v].old : v \in {u \in Writers \ {w} :
                    chainTx[u].pc \in {"insert", "commit", "refused"}}}

\* _validate_chain: the seq_order of its TTPs is not 1..N, or an id is malformed.
IsMalformed(w) == chainTx[w].mapping = "malformed"

\* _supersede_prior_active marks what was read; _next_version flushes it.
\* _validate_chain then raises for a malformed chain.
SupersedePriorActive(w) ==
    /\ TxAt(w, "supersede") /\ chainTx[w].old \cap Held(w) = {}
    /\ chainTx' = [chainTx EXCEPT
         ![w].version = NextVersion,
         ![w].pc = IF IsMalformed(w) THEN "refused" ELSE "insert"]
    /\ UNCHANGED chainRows

\* ChainSynthesisHook catches the error and the orchestrator commits the
\* failed run, in the same session: the superseded rows go with it.
SynthesisRefused(w) ==
    /\ TxAt(w, "refused")
    /\ chainRows' = {[r EXCEPT !.active = @ /\ r.version \notin chainTx[w].old] :
                       r \in chainRows}
    /\ chainTx' = [chainTx EXCEPT ![w] = NoTx]

(***************************************************************************)
(* ChainGenerator.                                                         *)
(***************************************************************************)
Generating(pc, attempt) == [pc |-> pc, old |-> {}, mapping |-> "mapped",
                            origin |-> "local", version |-> 0, attempt |-> attempt]

\* Ask the commons first (an error there is no hit); without a hit, load the
\* documents, the RAG chunks and the prompt, and call the model.
CheckCommons(w, hit) ==
    /\ w \in Generators /\ TxAt(w, "idle") /\ ~ChainsFull
    /\ chainTx' = [chainTx EXCEPT ![w] = IF hit THEN Generating("project", 0)
                                        ELSE Generating("call", 1)]
    /\ UNCHANGED chainRows

\* A commons chain that does not pass the schema falls back to the model, with
\* the commons check skipped.
PersistCommonsHit(w, valid) ==
    /\ TxAt(w, "project")
    /\ chainTx' = [chainTx EXCEPT ![w] =
         IF valid THEN [Generating("version", 0) EXCEPT !.origin = "commons"]
         ELSE Generating("call", 1)]
    /\ UNCHANGED chainRows

\* One call: an answer that is no chain is asked again, an LLM error ends it.
CallWithRetries(w, answer) ==
    /\ TxAt(w, "call")
    /\ chainTx' = CASE answer = "chain" -> [chainTx EXCEPT ![w].pc = "version"]
                    [] answer = "invalid" /\ chainTx[w].attempt <= MAX_VALIDATION_RETRIES ->
                         [chainTx EXCEPT ![w].attempt = @ + 1]
                    [] OTHER -> [chainTx EXCEPT ![w] = NoTx]
    /\ UNCHANGED chainRows

ReadChainVersion(w) ==
    /\ TxAt(w, "version")
    /\ chainTx' = [chainTx EXCEPT ![w].version = NextVersion, ![w].pc = "insert"]
    /\ UNCHANGED chainRows

(***************************************************************************)
(* The INSERT, and what PostgreSQL makes of it.                            *)
(***************************************************************************)

\* Mutant: no index on the active chain.
ClashesVersionOnly(w) == \E r \in chainRows : r.version = chainTx[w].version

\* uq_attack_chains_cve_version and uq_attack_chains_active_per_cve.
Clashes(w) == \E r \in chainRows : \/ r.version = chainTx[w].version
                                   \/ r.active /\ r.version \notin chainTx[w].old

\* Another transaction has an uncommitted row the INSERT could clash with.
MustWait(w) == \E v \in Writers \ {w} :
                 \/ TxAt(v, "commit")
                 \/ chainTx[v].pc \in {"insert", "refused"} /\ chainTx[v].old # {}

InsertChainRows(w) ==
    /\ TxAt(w, "insert") /\ ~MustWait(w)
    /\ chainTx' = [chainTx EXCEPT ![w] =
                     IF Clashes(w) THEN NoTx ELSE [@ EXCEPT !.pc = "commit"]]
    /\ UNCHANGED chainRows

NewChainRow(w) ==
    [version |-> chainTx[w].version, origin |-> chainTx[w].origin,
     fallback |-> chainTx[w].mapping = "fallback", status |-> "draft", active |-> TRUE]

PersistChain(w) ==
    /\ TxAt(w, "commit")
    /\ chainRows' = {[r EXCEPT !.active = @ /\ r.version \notin chainTx[w].old] :
                       r \in chainRows}
         \cup {NewChainRow(w)}
    /\ chainTx' = [chainTx EXCEPT ![w] = NoTx]

\* The worker dies or the run fails for another reason.
WriterRollsBack(w) ==
    /\ ~TxAt(w, "idle")
    /\ chainTx' = [chainTx EXCEPT ![w] = NoTx]
    /\ UNCHANGED chainRows

(***************************************************************************)
(* The analyst, on any chain, superseded ones included.                    *)
(***************************************************************************)
ReviewChain(r, verdict) ==
    /\ r \in chainRows
    /\ chainRows' = (chainRows \ {r}) \cup {[r EXCEPT !.status = verdict]}
    /\ UNCHANGED chainTx

ValidateChain(r) == ReviewChain(r, "validated")
RejectChain(r) == ReviewChain(r, "rejected")

ChainInit == chainRows = {} /\ chainTx = [w \in Writers |-> NoTx]

ChainNext ==
    \/ \E w \in Assessments : \E m \in Mapping : SynthesizeStart(w, m)
    \/ \E w \in Generators : \/ \E b \in BOOLEAN : CheckCommons(w, b) \/ PersistCommonsHit(w, b)
                             \/ \E a \in {"chain", "invalid", "error"} : CallWithRetries(w, a)
                             \/ ReadChainVersion(w)
    \/ \E w \in Writers : \/ SupersedePriorActive(w) \/ SynthesisRefused(w)
                          \/ InsertChainRows(w)
                          \/ PersistChain(w) \/ WriterRollsBack(w)
    \/ \E r \in chainRows : ValidateChain(r) \/ RejectChain(r)

ChainSpec == ChainInit /\ [][ChainNext]_chainVars

(***************************************************************************)
(* Properties.                                                             *)
(***************************************************************************)
ChainTx == [pc : {"supersede", "refused", "project", "call", "version", "insert",
                  "commit"},
            old : SUBSET Nat, mapping : Mapping,
            origin : {"assessment", "local", "commons"}, version : Nat, attempt : Nat]

\* Every row of attack_chains is one, with a version of its own, and every
\* writer is idle or within a transaction.
ChainTypeOK ==
    /\ chainRows \subseteq ChainRow
    /\ chainTx \in [Writers -> {NoTx} \cup ChainTx]
    /\ \A r, s \in chainRows : r.version = s.version => r = s

\* Readers take the chain whose superseded_at is null for the CVE's newest:
\* there is at most one, and no later version exists.
ActiveIsLatest ==
    \A r \in chainRows : r.active => \A s \in chainRows : s.version <= r.version

=============================================================================
