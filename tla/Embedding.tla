------------------------------ MODULE Embedding ------------------------------
(***************************************************************************)
(* Texts on their way into the vector store: analyst-pasted sources and    *)
(* source documents are cut into overlapping windows, embedded by the      *)
(* gateway, upserted into Qdrant under deterministic point ids, and only   *)
(* then marked embedded.  Messages are acknowledged late, so a lost worker *)
(* means a second delivery; a text is its length in tokens.                *)
(***************************************************************************)
EXTENDS Naturals, FiniteSets

CONSTANTS
    Pastes,              \* assessment_sources rows of one assessment
    Documents,           \* source_documents rows
    Lengths,             \* token counts of the texts
    CHUNK_SIZE_TOKENS, CHUNK_OVERLAP_TOKENS, MIN_CHUNK_TOKENS,
    MAX_TOTAL,           \* cumulative cap of an assessment's pastes
    EmbedWorkers,
    NoItem,
    ForceEmbed           \* the slot of POST /vector/embed, which has no message

\* chunk_text refuses an overlap of a whole window; the code's values are 512,
\* 50 and 50.
ASSUME EmbeddingAssumption ==
    /\ CHUNK_SIZE_TOKENS \in Nat /\ CHUNK_OVERLAP_TOKENS \in Nat /\ MIN_CHUNK_TOKENS \in Nat
    /\ CHUNK_OVERLAP_TOKENS < CHUNK_SIZE_TOKENS
    /\ MIN_CHUNK_TOKENS <= CHUNK_OVERLAP_TOKENS + 1
    /\ Lengths \subseteq Nat
    /\ NoItem \notin Pastes \cup Documents

VARIABLES
    texts,         \* the rows: state, length and whether the text is embedded
    pasteTotal,    \* the sum a paste request read before it inserts
    embedQueue,    \* messages, in flight or unacknowledged
    embedding,     \* the embedding job of each slot
    points,        \* Qdrant: the windows stored for each text
    unread         \* history: documents marked although their content was not read

embeddingVars == <<texts, pasteTotal, embedQueue, embedding, points, unread>>

Items == Pastes \cup Documents
EmbedSlots == EmbedWorkers \cup {ForceEmbed}
NoJob == [pc |-> "free", item |-> NoItem]
NoText == [state |-> "absent", len |-> 0, status |-> "pending"]

(***************************************************************************)
(* chunk_text: sliding windows; a slice below the minimum ends the loop.   *)
(***************************************************************************)
Step == CHUNK_SIZE_TOKENS - CHUNK_OVERLAP_TOKENS
Slice(i, len) == (i + 1)..(IF i + CHUNK_SIZE_TOKENS < len THEN i + CHUNK_SIZE_TOKENS ELSE len)

\* Mutant: the windows do not overlap.
chunk_text_disjoint(len) ==
    LET from[i \in 0..len] ==
          IF len - i < MIN_CHUNK_TOKENS THEN {}
          ELSE {Slice(i, len)} \cup
               (IF i + CHUNK_SIZE_TOKENS >= len THEN {} ELSE from[i + CHUNK_SIZE_TOKENS])
    IN from[0]

chunk_text(len) ==
    LET from[i \in 0..len] ==
          IF len - i < MIN_CHUNK_TOKENS THEN {}
          ELSE {Slice(i, len)} \cup
               (IF i + CHUNK_SIZE_TOKENS >= len THEN {} ELSE from[i + Step])
    IN from[0]

\* A paste too short to be cut is embedded whole; a document is not.
Chunks(item) ==
    LET len == texts[item].len
    IN IF item \in Pastes /\ chunk_text(len) = {} THEN {1..len} ELSE chunk_text(len)

(***************************************************************************)
(* SourceService.                                                          *)
(***************************************************************************)
SumOf(S) ==
    LET total[T \in SUBSET S] ==
          IF T = {} THEN 0
          ELSE LET s == CHOOSE x \in T : TRUE IN texts[s].len + total[T \ {s}]
    IN total[S]
Live(s) == texts[s].state \in {"undispatched", "live"}

\* create, up to the sum of the sizes that are there.
ReadPasteTotal(s) ==
    /\ texts[s].state = "absent"
    /\ texts' = [texts EXCEPT ![s].state = "checking"]
    /\ pasteTotal' = [pasteTotal EXCEPT ![s] = SumOf({q \in Pastes : Live(q)})]
    /\ UNCHANGED <<embedQueue, embedding, points, unread>>

validate_paste(s, len) == pasteTotal[s] + len <= MAX_TOTAL

InsertPaste(s, len) ==
    /\ texts[s].state = "checking"
    /\ texts' = [texts EXCEPT ![s] = IF validate_paste(s, len)
                                     THEN [state |-> "undispatched", len |-> len,
                                           status |-> "pending"]
                                     ELSE NoText]
    /\ pasteTotal' = [pasteTotal EXCEPT ![s] = 0]
    /\ UNCHANGED <<embedQueue, embedding, points, unread>>

\* delay() after the commit; a request that dies here never sends it.
DispatchPaste(s) ==
    /\ texts[s].state = "undispatched"
    /\ texts' = [texts EXCEPT ![s].state = "live"]
    /\ embedQueue' = embedQueue \cup {s}
    /\ UNCHANGED <<pasteTotal, embedding, points, unread>>

delete(s) ==
    /\ Live(s)
    /\ texts' = [texts EXCEPT ![s].state = "deleted"]
    /\ UNCHANGED <<pasteTotal, embedQueue, embedding, points, unread>>

(***************************************************************************)
(* Source documents: enrichment stores them and queues every one that is   *)
(* not embedded yet.                                                       *)
(***************************************************************************)
persist_document(d, len) ==
    /\ texts[d].state = "absent"
    /\ texts' = [texts EXCEPT ![d] = [state |-> "live", len |-> len, status |-> "pending"]]
    /\ UNCHANGED <<pasteTotal, embedQueue, embedding, points, unread>>

QueuePendingDocuments ==
    /\ embedQueue' = embedQueue \cup {d \in Documents : Live(d) /\ texts[d].status = "pending"}
    /\ UNCHANGED <<texts, pasteTotal, embedding, points, unread>>

(***************************************************************************)
(* The job: _run of embed_assessment_source, embed_source_document.        *)
(***************************************************************************)
Acked(item) == embedQueue' = embedQueue \ {item}

\* A document that gives nothing to embed is marked at once, so that no worker
\* retries it: its windows are none, or storage failed and the error was swallowed.
MarkedUnstored(item) ==
    /\ item \in Documents
    /\ \/ Chunks(item) = {} /\ UNCHANGED unread
       \/ unread' = unread \cup {item}
    /\ texts' = [texts EXCEPT ![item].status = "embedded"]

\* A deleted or already embedded paste costs nothing.
StartEmbed(w, item) ==
    /\ embedding[w] = NoJob
    /\ IF w = ForceEmbed THEN item \in Documents /\ Live(item) ELSE item \in embedQueue
    /\ \/ /\ item \in Pastes /\ (~Live(item) \/ texts[item].status = "embedded")
          /\ Acked(item)
          /\ UNCHANGED <<texts, embedding, unread>>
       \/ /\ MarkedUnstored(item)
          /\ IF w = ForceEmbed THEN UNCHANGED embedQueue ELSE Acked(item)
          /\ UNCHANGED embedding
       \/ /\ IF item \in Pastes THEN Live(item) /\ texts[item].status # "embedded"
             ELSE Chunks(item) # {}
          /\ embedding' = [embedding EXCEPT ![w] = [pc |-> "embed", item |-> item]]
          /\ UNCHANGED <<texts, embedQueue, unread>>
    /\ UNCHANGED <<pasteTotal, points>>

Ends(w) ==
    /\ embedding' = [embedding EXCEPT ![w] = NoJob]
    /\ IF w = ForceEmbed THEN UNCHANGED embedQueue ELSE Acked(embedding[w].item)

embed_texts(w) ==
    /\ embedding[w].pc = "embed"
    /\ embedding' = [embedding EXCEPT ![w].pc = "upsert"]
    /\ UNCHANGED <<texts, pasteTotal, embedQueue, points, unread>>

\* The gateway or Qdrant failed: a paste is marked failed, a document is left
\* as it is; either way the task ends and its message is acknowledged.
EmbedFails(w) ==
    /\ embedding[w].pc \in {"embed", "upsert"}
    /\ texts' = IF embedding[w].item \in Pastes
                THEN [texts EXCEPT ![embedding[w].item].status = "failed"] ELSE texts
    /\ Ends(w)
    /\ UNCHANGED <<pasteTotal, points, unread>>

upsert(w) ==
    /\ embedding[w].pc = "upsert"
    /\ points' = [points EXCEPT ![embedding[w].item] = Chunks(embedding[w].item)]
    /\ embedding' = [embedding EXCEPT ![w].pc = "mark"]
    /\ UNCHANGED <<texts, pasteTotal, embedQueue, unread>>

MarkEmbedded(w) ==
    /\ embedding[w].pc = "mark"
    /\ texts' = [texts EXCEPT ![embedding[w].item].status = "embedded"]
    /\ Ends(w)
    /\ UNCHANGED <<pasteTotal, points, unread>>

\* The process is lost: the message, if there is one, is delivered again.
EmbedWorkerLost(w) ==
    /\ embedding[w] # NoJob
    /\ embedding' = [embedding EXCEPT ![w] = NoJob]
    /\ UNCHANGED <<texts, pasteTotal, embedQueue, points, unread>>

EmbeddingInit ==
    /\ texts = [i \in Items |-> NoText]
    /\ pasteTotal = [s \in Pastes |-> 0]
    /\ embedQueue = {} /\ points = [i \in Items |-> {}] /\ unread = {}
    /\ embedding = [w \in EmbedSlots |-> NoJob]

EmbeddingNext ==
    \/ \E s \in Pastes : ReadPasteTotal(s) \/ DispatchPaste(s) \/ delete(s)
    \/ \E s \in Pastes, n \in Lengths : InsertPaste(s, n)
    \/ \E d \in Documents, n \in Lengths : persist_document(d, n)
    \/ QueuePendingDocuments
    \/ \E w \in EmbedSlots, i \in Items : StartEmbed(w, i)
    \/ \E w \in EmbedSlots : \/ embed_texts(w) \/ EmbedFails(w) \/ upsert(w)
                             \/ MarkEmbedded(w) \/ EmbedWorkerLost(w)

EmbeddingSpec == EmbeddingInit /\ [][EmbeddingNext]_embeddingVars

(***************************************************************************)
(* Properties.                                                             *)
(***************************************************************************)

\* A text marked embedded can be retrieved whole: every token of it lies in a
\* window the store holds, through crashes, redeliveries and a forced embed of
\* the same document, whatever the text's length (the last window is never
\* below the minimum because the overlap feeds it).  Two kinds of documents are
\* the exception, marked with nothing stored: one below the minimum, and one of
\* any length whose content could not be read when its turn came.
EmbeddedIsRetrievable ==
    \A i \in Items :
      texts[i].status = "embedded"
        => \/ UNION points[i] = 1..texts[i].len
           \/ i \in Documents /\ (texts[i].len < MIN_CHUNK_TOKENS \/ i \in unread)
=============================================================================
