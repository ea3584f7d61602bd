------------------------------ MODULE Connectors ------------------------------
(***************************************************************************)
(* The connector orchestrator of one API process and the connector_state   *)
(* table it mirrors itself to: start-up from the stored rows, operators    *)
(* toggling and reconfiguring connectors, health checks, failures counted  *)
(* in a sliding window, and the process dying at any of these points.      *)
(***************************************************************************)
EXTENDS Naturals

CONSTANTS
    ConnectorNames,
    Operators,           \* requests that may be open at the same time
    FAILURE_THRESHOLD

ASSUME ConnectorAssumption == FAILURE_THRESHOLD \in Nat \ {0}

VARIABLES
    booted,        \* the API process is up and serves requests
    entry,         \* _ConnectorEntry of every registered connector
    stateRow,      \* connector_state
    request,       \* the open request of each operator
    answeredChoice \* what the operator was last told, or told to do

connectorVars == <<booted, entry, stateRow, request, answeredChoice>>

HealthStatuses == {"healthy", "degraded", "unhealthy"}
NoEntry == [enabled |-> FALSE, initialized |-> FALSE, unhealthy |-> FALSE,
            failures |-> 0, last |-> "unknown"]
NoStateRow == [exists |-> FALSE, enabled |-> FALSE]
NoRequest == [pc |-> "none", name |-> "none", left |-> {}, writes |-> {},
              toggles |-> FALSE]

(***************************************************************************)
(* _SlidingWindow and _record_failure.                                     *)
(***************************************************************************)

\* The counts record may return: the new failure, and those not yet pruned.
\* The count saturates one above the threshold.
Recorded(e) == 1..(IF e.failures > FAILURE_THRESHOLD THEN e.failures ELSE e.failures + 1)

record_failure(e, count) ==
    IF count >= FAILURE_THRESHOLD /\ ~e.unhealthy
    THEN [e EXCEPT !.failures = count, !.unhealthy = TRUE, !.last = "unhealthy"]
    ELSE [e EXCEPT !.failures = count]

(***************************************************************************)
(* Start-up and shutdown.                                                  *)
(***************************************************************************)

\* Mutant: a connector comes up with the default configuration.
register_default(c) == [NoEntry EXCEPT !.enabled = TRUE]

\* The stored row decides; a connector seen for the first time is enabled.
register(c) ==
    [NoEntry EXCEPT !.enabled = stateRow[c].enabled \/ ~stateRow[c].exists]

\* An enabled connector is initialised, or fails to and is flagged.
initialize_all(c, ok) ==
    LET e == register(c)
    IN CASE ~e.enabled -> e
         [] e.enabled /\ c \in ok -> [e EXCEPT !.initialized = TRUE]
         [] OTHER -> [e EXCEPT !.unhealthy = TRUE, !.failures = 1]

\* What sync_state_to_db writes of an entry (the health columns, which
\* only the UI reads, are left out).
RowOf(c) == [exists |-> TRUE, enabled |-> entry[c].enabled]

bootstrap_connectors(ok) ==
    /\ ~booted /\ booted' = TRUE
    /\ entry' = [c \in ConnectorNames |-> initialize_all(c, ok)]
    /\ stateRow' = [c \in ConnectorNames |->
                      [exists |-> TRUE, enabled |-> register(c).enabled]]
    /\ UNCHANGED <<request, answeredChoice>>

Down ==
    /\ booted' = FALSE
    /\ entry' = [c \in ConnectorNames |-> NoEntry]
    /\ request' = [o \in Operators |-> NoRequest]

\* An orderly stop drains the requests first; a crash does not.
shutdown_all ==
    /\ booted /\ \A o \in Operators : request[o] = NoRequest
    /\ Down
    /\ UNCHANGED <<stateRow, answeredChoice>>

ApiCrashes ==
    /\ booted
    /\ Down
    /\ UNCHANGED <<stateRow, answeredChoice>>

(***************************************************************************)
(* Requests: memory changes at once, then every row is read and compared,  *)
(* one await each, and one commit writes what differed.                    *)
(***************************************************************************)
BeginSync(o, c, toggles) ==
    request' = [request EXCEPT ![o] = [pc |-> "sync", name |-> c, left |-> ConnectorNames,
                                       writes |-> {}, toggles |-> toggles]]

set_enabled(o, c, enabled) ==
    /\ booted /\ request[o] = NoRequest
    /\ entry' = [entry EXCEPT ![c].enabled = enabled]
    /\ answeredChoice' = [answeredChoice EXCEPT ![c] =
                            [enabled |-> enabled, answered |-> FALSE]]
    /\ BeginSync(o, c, TRUE)
    /\ UNCHANGED <<booted, stateRow>>

\* The free-form configuration is stored and restored next to the flag.
update_config(o, c) ==
    /\ booted /\ request[o] = NoRequest
    /\ BeginSync(o, c, FALSE)
    /\ UNCHANGED <<booted, entry, stateRow, answeredChoice>>

\* The check itself is awaited, and failures may be recorded meanwhile.
StartHealthCheck(o, c) ==
    /\ booted /\ request[o] = NoRequest
    /\ request' = [request EXCEPT ![o] = [NoRequest EXCEPT !.pc = "check", !.name = c]]
    /\ UNCHANGED <<booted, entry, stateRow, answeredChoice>>

\* Mutant: a healthy answer lowers the flag and leaves the window as it is.
CheckedKeepsWindow(e, health, count) ==
    CASE health = "unhealthy" -> record_failure([e EXCEPT !.last = health], count)
      [] health = "healthy" -> [e EXCEPT !.last = health, !.unhealthy = FALSE]
      [] OTHER -> [e EXCEPT !.last = health]

\* A timeout or an exception is an unhealthy answer; only a healthy one clears
\* the window.
Checked(e, health, count) ==
    CASE health = "unhealthy" -> record_failure([e EXCEPT !.last = health], count)
      [] health = "healthy" -> [e EXCEPT !.last = health, !.failures = 0, !.unhealthy = FALSE]
      [] OTHER -> [e EXCEPT !.last = health]

run_health_check(o, health) ==
    /\ request[o].pc = "check"
    /\ LET c == request[o].name
       IN /\ \E n \in Recorded(entry[c]) :
               entry' = [entry EXCEPT ![c] = Checked(@, health, n)]
          /\ BeginSync(o, c, FALSE)
    /\ UNCHANGED <<booted, stateRow, answeredChoice>>

SyncRow(o, c) ==
    /\ request[o].pc = "sync" /\ c \in request[o].left
    /\ request' = [request EXCEPT ![o].left = @ \ {c},
                     ![o].writes = IF RowOf(c) = stateRow[c] THEN @
                                   ELSE @ \cup {[name |-> c, row |-> RowOf(c)]}]
    /\ UNCHANGED <<booted, entry, stateRow, answeredChoice>>

\* The commit; the operator is answered with the toggle that was asked for.
sync_state_to_db(o) ==
    /\ request[o].pc = "sync" /\ request[o].left = {}
    /\ stateRow' = [c \in ConnectorNames |->
                      IF \E w \in request[o].writes : w.name = c
                      THEN (CHOOSE w \in request[o].writes : w.name = c).row ELSE stateRow[c]]
    /\ answeredChoice' = [answeredChoice EXCEPT ![request[o].name].answered = @ \/ request[o].toggles]
    /\ request' = [request EXCEPT ![o] = NoRequest]
    /\ UNCHANGED <<booted, entry>>

(***************************************************************************)
(* Enrichment and streaming: every failure is isolated and counted.        *)
(***************************************************************************)
CallFails(c) ==
    /\ booted /\ entry[c].enabled
    /\ \E n \in Recorded(entry[c]) : entry' = [entry EXCEPT ![c] = record_failure(@, n)]
    /\ UNCHANGED <<booted, stateRow, request, answeredChoice>>

safe_enrich(c) == CallFails(c)
stream_new_cves(c) == CallFails(c)

ConnectorInit ==
    /\ booted = FALSE
    /\ entry = [c \in ConnectorNames |-> NoEntry]
    /\ stateRow = [c \in ConnectorNames |-> NoStateRow]
    /\ request = [o \in Operators |-> NoRequest]
    /\ answeredChoice = [c \in ConnectorNames |-> [enabled |-> TRUE, answered |-> TRUE]]

ConnectorNext ==
    \/ \E ok \in SUBSET ConnectorNames : bootstrap_connectors(ok)
    \/ shutdown_all \/ ApiCrashes
    \/ \E o \in Operators, c \in ConnectorNames :
         \/ \E b \in BOOLEAN : set_enabled(o, c, b)
         \/ update_config(o, c) \/ StartHealthCheck(o, c) \/ SyncRow(o, c)
    \/ \E o \in Operators, h \in HealthStatuses : run_health_check(o, h)
    \/ \E o \in Operators : sync_state_to_db(o)
    \/ \E c \in ConnectorNames : safe_enrich(c) \/ stream_new_cves(c)

ConnectorSpec == ConnectorInit /\ [][ConnectorNext]_connectorVars

(***************************************************************************)
(* Properties.                                                             *)
(***************************************************************************)

\* A connector reported healthy is one: its flag is down and the failures still
\* in its window are below the threshold, however run_health_check and failing
\* enrichments interleave.
HealthyIsClean ==
    \A c \in ConnectorNames :
      entry[c].last = "healthy"
        => ~entry[c].unhealthy /\ entry[c].failures < FAILURE_THRESHOLD

\* With one operator at a time, a toggle that was answered outlives the process:
\* it is in connector_state and every later start comes up with it.
OperatorChoiceKept ==
    \A c \in ConnectorNames :
      answeredChoice[c].answered =>
        /\ booted => entry[c].enabled = answeredChoice[c].enabled
        /\ stateRow[c].exists => stateRow[c].enabled = answeredChoice[c].enabled
=============================================================================
