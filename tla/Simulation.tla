----------------------------- MODULE Simulation -----------------------------
(***************************************************************************)
(* The two services that make a device pretend: network and thermal        *)
(* conditions (device/conditions.rs) and a simulated location              *)
(* (device/location.rs).  What they switch on stays on when nobody         *)
(* switches it off, so they keep what they know of it over connections     *)
(* that fail; conditions keep it over sessions too, in their status slot.  *)
(*                                                                         *)
(* A call to the device that fails or times out may have had its effect.   *)
(***************************************************************************)
EXTENDS Naturals, Sequences, SequencesExt

CONSTANTS
    Settings,     \* condition profiles, or coordinates
    Listed,       \* those the device offers (normalize_groups, find_profile)
    NoSetting,
    Orders,       \* requests to apply or clear
    NoOrder,
    MaxOrders,    \* capacity of a service's channel
    MaxSessions   \* bound: sessions of the device

ASSUME SimulationAssumption ==
    /\ Listed \subseteq Settings /\ NoSetting \notin Settings /\ NoOrder \notin Orders
    /\ {MaxOrders, MaxSessions} \subseteq Nat \ {0}

VARIABLES
    simulating,   \* "conditions" or "location"
    stage,        \* where the service is
    backend,      \* "dvt" or "legacy" (location only)
    orders,       \* requests in the channel
    order,        \* the request being served and the calls left for it
    wanted,       \* what each request asks for
    ordered,      \* what each requester knows
    current,      \* the service's `current`
    cleanup,      \* cleanup_pending
    status,       \* the status slot
    pretending,   \* what the device simulates
    closing,      \* has shutdown been signalled?
    sessions,     \* sessions so far
    aborted       \* was a service aborted since the device was last cleared?

requestVars == <<orders, order, wanted, ordered>>
simulationVars == <<simulating, stage, backend, requestVars, current, cleanup, status, pretending, closing, sessions, aborted>>

Idle == [id |-> NoOrder, calls |-> <<>>]

\* ready_status, set_ready_status and mark_failed.
ReadyStatus(s) == [available |-> TRUE, active |-> s, pending |-> FALSE]
FailedStatus(s, pend) == [available |-> FALSE, active |-> s, pending |-> pend]
Unavailable == FailedStatus(NoSetting, FALSE)

\* find_profile among the groups that normalize_groups kept.
Offered(s) == s \in Listed \cup {NoSetting}

SimulationInit ==
    /\ simulating \in {"conditions", "location"} /\ stage = "stopped" /\ backend = "dvt"
    /\ orders = <<>> /\ order = Idle
    /\ wanted = [r \in Orders |-> NoSetting] /\ ordered = [r \in Orders |-> "new"]
    /\ current = NoSetting /\ cleanup = FALSE /\ status = Unavailable
    /\ pretending = NoSetting /\ closing = FALSE /\ sessions = 0 /\ aborted = FALSE

----------------------------------------------------------------------------
(* Requests                                                                *)

\* The router asks for room in the channel, and route_location for an
\* available service.
Accepted == Len(orders) < MaxOrders /\ (simulating = "location" => status.available)

\* set_location, apply_device_condition and their clear, over MCP and HTTP.
Order(r, s) ==
    /\ stage # "stopped" /\ ordered[r] = "new" /\ wanted' = [wanted EXCEPT ![r] = s]
    /\ IF Accepted
       THEN orders' = Append(orders, r) /\ ordered' = [ordered EXCEPT ![r] = "waiting"]
       ELSE ordered' = [ordered EXCEPT ![r] = "err"] /\ UNCHANGED orders
    /\ UNCHANGED <<simulating, stage, backend, order, current, cleanup, status, pretending, closing, sessions, aborted>>

\* expires_at passes, the handler's timeout, or its client leaves.
Expire(r) ==
    /\ ordered[r] = "waiting" /\ ordered' = [ordered EXCEPT ![r] = "gone"]
    /\ UNCHANGED <<simulating, stage, backend, orders, order, wanted, current, cleanup, status, pretending, closing, sessions, aborted>>

Answered(r, answer) == [ordered EXCEPT ![r] = IF @ = "waiting" THEN answer ELSE @]

----------------------------------------------------------------------------
(* Connecting                                                              *)

\* RuntimeSessionServices::start: the location status is reset, the
\* conditions start from what the last session left in theirs.
StartSimulation ==
    /\ stage = "stopped" /\ sessions < MaxSessions /\ sessions' = sessions + 1
    /\ stage' = "connecting" /\ backend' = "dvt" /\ closing' = FALSE
    /\ IF simulating = "conditions"
       THEN /\ current' = status.active
            /\ cleanup' = (status.pending \/ status.active # NoSetting)
            /\ UNCHANGED status
       ELSE current' = NoSetting /\ cleanup' = FALSE /\ status' = Unavailable
    /\ UNCHANGED <<simulating, requestVars, pretending, aborted>>

\* The end of the loop, or of the retry's wait, once shutdown is signalled:
\* conditions reset their slot only when nothing is left to clean up.
Ends ==
    /\ stage' = "stopped" /\ order' = Idle /\ orders' = <<>>
    /\ ordered' = [r \in Orders |-> IF ordered[r] = "waiting" THEN "err" ELSE ordered[r]]
    /\ current' = NoSetting /\ cleanup' = FALSE
    /\ backend' = "dvt"

\* What a failed backend leaves: location falls back from DVT to the legacy
\* service; otherwise mark_failed publishes what may need cleaning up and the
\* service retries.
Fails(cur, pend) ==
    /\ current' = cur /\ cleanup' = pend
    /\ IF simulating = "location" /\ backend = "dvt"
       THEN backend' = "legacy" /\ stage' = "connecting" /\ UNCHANGED status
       ELSE /\ backend' = "dvt" /\ stage' = "waiting"
            /\ status' = IF simulating = "location" THEN Unavailable
                         ELSE FailedStatus(cur, pend)

\* connect_remote and the channel, connect_dvt, or the legacy service.
ConnectSimulation(ok) ==
    /\ stage = "connecting" /\ ~closing
    /\ IF ok
       THEN /\ stage' = IF simulating = "conditions" THEN "baseline" ELSE "restoring"
            /\ UNCHANGED <<backend, current, cleanup, status>>
       ELSE Fails(current, cleanup \/ (simulating = "conditions" /\ current # NoSetting))
    /\ UNCHANGED <<simulating, requestVars, pretending, closing, sessions, aborted>>

\* A call that sets the device to s: it may fail and still have its effect.
Call(s, ok) == pretending' \in IF ok THEN {s} ELSE {pretending, s}

\* timed_clear: "Establish a known baseline even after an app crash".
Baseline(ok) ==
    /\ stage = "baseline" /\ Call(NoSetting, ok)
    /\ IF ok
       THEN stage' = "listing" /\ current' = NoSetting /\ cleanup' = FALSE /\ aborted' = FALSE /\ UNCHANGED <<backend, status>>
       ELSE Fails(current, TRUE) /\ UNCHANGED aborted
    /\ UNCHANGED <<simulating, requestVars, closing, sessions>>

\* timed_list, then ready_status.
List(ok) ==
    /\ stage = "listing"
    /\ IF ok
       THEN /\ stage' = "ready" /\ status' = ReadyStatus(current)
            /\ UNCHANGED <<backend, current, cleanup>>
       ELSE Fails(current, cleanup)
    /\ UNCHANGED <<simulating, requestVars, pretending, closing, sessions, aborted>>

\* run_backend sets the current location again, then set_ready_status.
Restore(ok) ==
    /\ stage = "restoring" /\ (current = NoSetting => ok)
    /\ IF current = NoSetting THEN UNCHANGED pretending ELSE Call(current, ok)
    /\ IF ok
       THEN /\ stage' = "ready" /\ status' = ReadyStatus(current)
            /\ UNCHANGED <<backend, current, cleanup>>
       ELSE Fails(current, cleanup)
    /\ UNCHANGED <<simulating, requestVars, closing, sessions, aborted>>

\* reconnect_backoff has passed.
Retry ==
    /\ stage = "waiting" /\ ~closing /\ stage' = "connecting"
    /\ UNCHANGED <<simulating, backend, requestVars, current, cleanup, status, pretending, closing, sessions, aborted>>

----------------------------------------------------------------------------
(* Serving                                                                 *)

\* The calls a request needs; conditions clear the old one first.
Needed(s) ==
    CASE s = NoSetting -> <<NoSetting>>
      [] simulating = "conditions" /\ current # NoSetting -> <<NoSetting, s>>
      [] OTHER -> <<s>>

\* commands.recv(): an expired condition request, an unknown profile and the
\* active condition are answered at once; location does not look.
TakeOrder ==
    /\ stage = "ready" /\ order = Idle /\ orders # <<>> /\ orders' = Tail(orders)
    /\ LET r == Head(orders)
           s == wanted[r]
       IN IF simulating = "conditions" /\ (ordered[r] # "waiting" \/ ~Offered(s))
          THEN ordered' = Answered(r, "err") /\ UNCHANGED order
          ELSE IF simulating = "conditions" /\ s # NoSetting /\ s = current
          THEN ordered' = Answered(r, "ok") /\ UNCHANGED order
          ELSE order' = [id |-> r, calls |-> Needed(s)] /\ UNCHANGED ordered
    /\ UNCHANGED <<simulating, stage, backend, wanted, current, cleanup, status, pretending, closing, sessions, aborted>>

\* A call of the request succeeds; the last one is remembered, published and
\* answered.
OrderOk ==
    /\ order # Idle /\ Call(Head(order.calls), TRUE)
    /\ IF Len(order.calls) > 1
       THEN order' = [order EXCEPT !.calls = Tail(@)] /\ UNCHANGED <<ordered, current, cleanup, status>>
       ELSE /\ order' = Idle /\ ordered' = Answered(order.id, "ok")
            /\ current' = wanted[order.id] /\ cleanup' = FALSE
            /\ status' = ReadyStatus(wanted[order.id])
    /\ UNCHANGED <<simulating, stage, backend, orders, wanted, closing, sessions, aborted>>

MutantOrderFails ==
    /\ order # Idle /\ Call(Head(order.calls), FALSE)
    /\ order' = Idle /\ ordered' = Answered(order.id, "err")
    /\ Fails(current, current # NoSetting)
    /\ UNCHANGED <<simulating, orders, wanted, closing, sessions, aborted>>

\* It fails, or the deadline of the request passes.  "The device may have
\* applied the condition before the reply failed": conditions remember that;
\* location keeps what it had.
OrderFails ==
    /\ order # Idle /\ Call(Head(order.calls), FALSE)
    /\ order' = Idle /\ ordered' = Answered(order.id, "err")
    /\ Fails(IF simulating = "conditions" /\ Head(order.calls) # NoSetting THEN Head(order.calls) ELSE current,
             simulating = "conditions")
    /\ UNCHANGED <<simulating, orders, wanted, closing, sessions, aborted>>

\* keepalive.tick(): DVT is told the location every five seconds.
Keepalive(ok) ==
    /\ stage = "ready" /\ order = Idle /\ simulating = "location" /\ backend = "dvt" /\ current # NoSetting
    /\ Call(current, ok)
    /\ IF ok THEN UNCHANGED <<stage, backend, current, cleanup, status>> ELSE Fails(current, cleanup)
    /\ UNCHANGED <<simulating, requestVars, closing, sessions, aborted>>

----------------------------------------------------------------------------
(* The end of the session                                                  *)

CloseSession ==
    /\ stage # "stopped" /\ ~closing /\ closing' = TRUE
    /\ UNCHANGED <<simulating, stage, backend, requestVars, current, cleanup, status, pretending, sessions, aborted>>

\* Shutdown is seen before a connection attempt or while waiting for one.
StopsUnconnected ==
    /\ closing /\ stage \in {"connecting", "waiting"} /\ Ends
    /\ status' = IF simulating = "conditions" /\ (cleanup \/ current # NoSetting) THEN status ELSE Unavailable
    /\ UNCHANGED <<simulating, wanted, pretending, closing, sessions, aborted>>

\* Shutdown is seen in the serving loop: what is on is switched off, within
\* SHUTDOWN_CLEAR_TIMEOUT.  Conditions publish that it was not confirmed;
\* location resets its status whatever came of it.
StopsConnected(ok) ==
    /\ closing /\ stage = "ready" /\ order = Idle /\ Ends
    /\ IF cleanup \/ current # NoSetting
       THEN /\ Call(NoSetting, ok)
            /\ status' = IF ok \/ simulating = "location" THEN Unavailable
                         ELSE FailedStatus(current, TRUE)
       ELSE ok /\ status' = Unavailable /\ UNCHANGED pretending
    /\ UNCHANGED <<simulating, wanted, closing, sessions, aborted>>

\* ServiceSupervisor::shutdown aborts a service that does not end in time.
AbortSimulation ==
    /\ closing /\ stage # "stopped" /\ Ends /\ aborted' = TRUE
    /\ UNCHANGED <<simulating, wanted, status, pretending, closing, sessions>>

SimulationNext ==
    \/ \E r \in Orders : (\E s \in Settings \cup {NoSetting} : Order(r, s)) \/ Expire(r)
    \/ StartSimulation \/ Retry \/ TakeOrder \/ OrderOk \/ OrderFails
    \/ \E ok \in BOOLEAN : ConnectSimulation(ok) \/ Baseline(ok) \/ List(ok) \/ Restore(ok) \/ Keepalive(ok) \/ StopsConnected(ok)
    \/ CloseSession \/ StopsUnconnected \/ AbortSimulation

----------------------------------------------------------------------------
\* What the status slot says is so.  A service that is ready and not in the
\* middle of a request shows the condition, or the location, that the device
\* simulates; and whatever failed, a condition that may still be on is in the
\* slot as active or to be cleaned up, also between sessions, until a service
\* is aborted.
SimulationShown ==
    /\ stage = "ready" /\ order = Idle =>
          /\ status.available /\ status.active = current
          /\ (simulating = "conditions" \/ current # NoSetting) => pretending = current
    /\ simulating = "conditions" /\ stage \in {"stopped", "connecting", "waiting"} /\ ~aborted /\ pretending # NoSetting =>
          status.active # NoSetting \/ status.pending
=============================================================================
