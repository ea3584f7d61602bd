------------------------------- MODULE LlmCalls -------------------------------
(***************************************************************************)
(* One structured call through the LiteLLM provider: retries against the   *)
(* gateway, the interaction record written before the answer is returned,  *)
(* the caller's timeout around both, and above them either the repair loop *)
(* (one sample) or the vote (several samples in parallel).                 *)
(***************************************************************************)
EXTENDS Naturals, FiniteSets, FiniteSetsExt

CONSTANTS
    N_SAMPLES,             \* samples of a voted call
    MAX_REPAIR_ATTEMPTS,
    Values,                \* the schema-valid answers
    Invalid                \* any answer the schema refuses

ASSUME LlmAssumption == N_SAMPLES \in Nat \ {0} /\ MAX_REPAIR_ATTEMPTS \in Nat

VARIABLES
    provider,      \* "registered" (no client) or "ready"
    llm,           \* the structured call and its counters
    samples,       \* the provider calls in flight
    billed,        \* requests the gateway charged for
    unseen,        \* history: charges whose price no caller could read
    interactions   \* rows of llm_interactions

llmVars == <<provider, llm, samples, billed, unseen, interactions>>

\* The number of sleeps of each retry table; everything else fails at once.
RetryDelays == [rate_limit |-> 3, server |-> 2, connection |-> 1, refused |-> 0]

Slots == 1..N_SAMPLES
NoSample == [pc |-> "off", attempt |-> 0, text |-> Invalid, cost |-> 0]
IdleCall == [mode |-> "none", phase |-> "idle", validations |-> 0, timeouts |-> 0,
             cost |-> 0, value |-> Invalid]
TIMEOUT_BUDGET == MAX_REPAIR_ATTEMPTS + 1

(***************************************************************************)
(* ProviderRegistry.                                                       *)
(***************************************************************************)
initialize ==
    /\ provider = "registered" /\ provider' = "ready"
    /\ UNCHANGED <<llm, samples, billed, unseen, interactions>>

\* shutdown drops the client; a call already past its check goes on with it.
shutdown ==
    /\ provider = "ready" /\ provider' = "registered"
    /\ UNCHANGED <<llm, samples, billed, unseen, interactions>>

(***************************************************************************)
(* LiteLLMProvider.complete for one sample.                                *)
(***************************************************************************)

\* A provider without a client raises before anything is recorded.
complete == [NoSample EXCEPT !.pc = IF provider = "ready" THEN "calling" ELSE "raised"]

Charged(n) == billed' = billed + n

\* The usage of the answer has its price, or none and it counts as zero.
extract_chat_payload(k, text, cost) ==
    /\ samples' = [samples EXCEPT ![k].pc = "recording", ![k].text = text, ![k].cost = cost]
    /\ unseen' = unseen + (1 - cost)

GatewayAnswers(k) ==
    /\ samples[k].pc = "calling" /\ Charged(1)
    /\ \E text \in Values \cup {Invalid}, cost \in {0, 1} : extract_chat_payload(k, text, cost)
    /\ UNCHANGED <<provider, llm, interactions>>

\* One attempt counter for all the kinds of error.
MayRetry(k, error) == samples[k].attempt < RetryDelays[error]

\* The gateway may have charged for a request whose connection broke or whose
\* client gave up waiting.
MayCharge(error) == IF error = "connection" THEN {0, 1} ELSE {0}

with_retry(k) ==
    /\ samples[k].pc = "calling"
    /\ \E error \in DOMAIN RetryDelays :
         /\ samples' = IF MayRetry(k, error) THEN [samples EXCEPT ![k].attempt = @ + 1]
                       ELSE [samples EXCEPT ![k].pc = "failing"]
         /\ \E n \in MayCharge(error) : Charged(n) /\ unseen' = unseen + n
    /\ UNCHANGED <<provider, llm, interactions>>

\* The finally block: a write that fails is swallowed.
record_interaction(k) ==
    /\ samples[k].pc \in {"recording", "failing"}
    /\ samples' = [samples EXCEPT ![k].pc = IF @ = "recording" THEN "returned" ELSE "raised"]
    /\ \E written \in {0, 1} : interactions' = interactions + written
    /\ UNCHANGED <<provider, llm, billed, unseen>>

\* wait_for cancels the call: while it asks the gateway, which may charge for it,
\* the finally block still records it; while it records, the write is what is
\* cancelled and the answer is dropped with its price.
TimesOut(k) ==
    /\ samples[k].pc \in {"calling", "recording", "failing"}
    /\ samples' = [samples EXCEPT ![k].pc = "timed_out"]
    /\ \E written \in {0, 1} : interactions' = interactions + written
    /\ \E n \in IF samples[k].pc = "calling" THEN {0, 1} ELSE {0} :
         /\ Charged(n)
         /\ unseen' = unseen + n + (IF samples[k].pc = "recording" THEN samples[k].cost ELSE 0)
    /\ UNCHANGED <<provider, llm>>

(***************************************************************************)
(* structured_complete.                                                    *)
(***************************************************************************)
structured_complete(mode) ==
    /\ llm.phase = "idle"
    /\ llm' = [IdleCall EXCEPT !.mode = mode, !.phase = "asking"]
    /\ samples' = [k \in Slots |-> IF mode = "voted" \/ k = 1 THEN complete ELSE NoSample]
    /\ UNCHANGED <<provider, billed, unseen, interactions>>

\* Mutant: an answer that fails validation is not paid for.
AfterValidOnly(c, s) ==
    [c EXCEPT !.cost = @ + (IF s.pc = "returned" /\ s.text \in Values THEN s.cost ELSE 0),
              !.validations = @ + (IF s.pc = "returned" /\ s.text = Invalid THEN 1 ELSE 0),
              !.timeouts = @ + (IF s.pc = "timed_out" THEN 1 ELSE 0)]

\* The counters of the loop after sample s.
After(c, s) ==
    [c EXCEPT !.cost = @ + (IF s.pc = "returned" THEN s.cost ELSE 0),
              !.validations = @ + (IF s.pc = "returned" /\ s.text = Invalid THEN 1 ELSE 0),
              !.timeouts = @ + (IF s.pc = "timed_out" THEN 1 ELSE 0)]

Exhausted(c) == c.validations > MAX_REPAIR_ATTEMPTS \/ c.timeouts >= TIMEOUT_BUDGET

\* The error carries no cost: what the attempts added up is lost with the call.
Raises(phase) == llm' = [IdleCall EXCEPT !.mode = llm.mode, !.phase = phase]

\* One turn of the repair loop.  An error of the provider leaves it at once.
single_with_repair ==
    /\ llm.phase = "asking" /\ llm.mode = "single"
    /\ samples[1].pc \in {"returned", "raised", "timed_out"}
    /\ LET s == samples[1]
           c == After(llm, s)
       IN \/ /\ s.pc = "raised"
             /\ Raises("raised")
             /\ UNCHANGED samples
          \/ /\ s.pc = "returned" /\ s.text \in Values
             /\ llm' = [c EXCEPT !.phase = "returned", !.value = s.text]
             /\ UNCHANGED samples
          \/ /\ s.pc = "timed_out" \/ (s.pc = "returned" /\ s.text = Invalid)
             /\ IF Exhausted(c)
                THEN Raises("failed") /\ UNCHANGED samples
                ELSE /\ llm' = c
                     /\ samples' = [samples EXCEPT ![1] = complete]
    /\ UNCHANGED <<provider, billed, unseen, interactions>>

Returned == {k \in Slots : samples[k].pc = "returned"}
Parsed == {k \in Returned : samples[k].text \in Values}
Priced == {k \in Returned : samples[k].cost = 1}
Votes(v) == Cardinality({k \in Parsed : samples[k].text = v})

voted ==
    /\ llm.phase = "asking" /\ llm.mode = "voted"
    /\ \A k \in Slots : samples[k].pc \in {"returned", "raised", "timed_out"}
    /\ \/ Parsed = {} /\ Raises("failed")
       \/ \E v \in Values :
            /\ Parsed # {} /\ \A w \in Values : Votes(v) >= Votes(w)
            /\ llm' = [llm EXCEPT !.phase = "returned", !.value = v,
                                  !.cost = Cardinality(Priced)]
    /\ UNCHANGED <<provider, samples, billed, unseen, interactions>>

LlmInit ==
    /\ provider = "registered" /\ llm = IdleCall
    /\ samples = [k \in Slots |-> NoSample]
    /\ billed = 0 /\ unseen = 0 /\ interactions = 0

LlmNext ==
    \/ initialize \/ shutdown
    \/ \E mode \in {"single", "voted"} : structured_complete(mode)
    \/ \E k \in Slots : \/ GatewayAnswers(k) \/ with_retry(k)
                        \/ record_interaction(k) \/ TimesOut(k)
    \/ single_with_repair \/ voted

LlmSpec == LlmInit /\ [][LlmNext]_llmVars

(***************************************************************************)
(* Properties.                                                             *)
(***************************************************************************)

\* The cost a returned call reports falls short of what the gateway charged by
\* exactly what nobody could read: an answer without a price, a request given up
\* after the gateway took it, an answer a timeout dropped.  Whatever was repaired,
\* retried or outvoted is in it, once.
CostIsBilled == llm.phase = "returned" => llm.cost + unseen = billed
=============================================================================
