-------------------------- MODULE ManagedOperations --------------------------
(***************************************************************************)
(* The long-running operations of one device: the registry of their        *)
(* records (core operation.rs), the controller that cancels them by id     *)
(* (runtime client/operations.rs), the session that routes commands to the *)
(* services (session/router.rs) and the services that work on them: packet *)
(* captures, archive exports and app removal.                              *)
(*                                                                         *)
(* The services are tasks of the session; callers of the controller are    *)
(* tasks of the server.  They meet in the registry (one lock per call) and *)
(* through channels.  An action is what one of them does up to its next    *)
(* await or registry access that another can observe.                      *)
(***************************************************************************)
EXTENDS Integers, Sequences, FiniteSets

CONSTANTS
    Captures,       \* kinds whose service answers Stop when the work is finished
    Exports,        \* kinds whose service answers Stop at once, then cleans up
    Uninstalls,     \* kinds run by a spawned task, not cancellable
    Calls,          \* calls of ManagedOperationController::cancel
    NoCall,         \* a Stop that no such call sent
    InboxCapacity,  \* of a service's command channel
    MaxRetained,    \* MAX_RETAINED_OPERATIONS
    MaxId,          \* bound on the operations begun
    MaxQueue,       \* bound on the commands a session has not routed yet
    CallsDropped    \* may a caller go away while it waits?

Kinds == Captures \cup Exports \cup Uninstalls
Services == Captures \cup Exports
Ids == 1..MaxId

ASSUME DisjointAssumption ==
    Captures \cap Exports = {} /\ Services \cap Uninstalls = {}
ASSUME NoCallAssumption == NoCall \notin Calls
ASSUME BoundsAssumption ==
    InboxCapacity \in Nat /\ MaxRetained \in Nat /\ MaxId \in Nat /\ MaxQueue \in Nat
ASSUME DroppedAssumption == CallsDropped \in BOOLEAN

VARIABLES
    \* ManagedOperationRegistry
    nextId,     \* the last id given
    kindOf,     \* id -> kind
    phase,      \* id -> phase; "none": no record, or no longer retained
    \* the session
    session,    \* "down", "starting", "up", "closing"
    queue,      \* its command channel
    inbox,      \* the services' command channels
    \* the services
    stage,      \* "idle", "starting", "working", "finishing"; "leaving" when it
                \* finishes because of a shutdown; "gone"
    workId,     \* the operation they work on; 0: none
    outcome,    \* the phase it will end with
    stopper,    \* the call whose Stop ended it
    \* the controller's calls
    pc,         \* "idle", "requested", "waiting", "ok", "error", "dropped"
    target,     \* the id to cancel
    reply       \* "none", "ok", "err"

registryVars == <<nextId, kindOf, phase>>
sessionVars == <<session, queue, inbox>>
serviceVars == <<stage, workId, outcome, stopper>>
callVars == <<pc, target, reply>>
vars == <<nextId, kindOf, phase, session, queue, inbox, stage, workId, outcome,
          stopper, pc, target, reply>>

Active == {"running", "cancelling"}
Ended == {"succeeded", "cancelled", "failed"}
Commands == [op : {"start", "stop"}, kind : Kinds, call : Calls \cup {NoCall}]

TypeOK ==
    /\ nextId \in 0..MaxId
    /\ kindOf \in [Ids -> Kinds \cup {"none"}]
    /\ phase \in [Ids -> Active \cup Ended \cup {"none"}]
    /\ session \in {"down", "starting", "up", "closing"}
    /\ queue \in Seq(Commands)
    /\ inbox \in [Services -> Seq(Commands)]
    /\ \A k \in Services : Len(inbox[k]) <= InboxCapacity
    /\ stage \in [Kinds -> {"idle", "starting", "working", "finishing", "leaving", "gone"}]
    /\ workId \in [Kinds -> Ids \cup {0}]
    /\ outcome \in [Kinds -> Ended]
    /\ stopper \in [Kinds -> Calls \cup {NoCall}]
    /\ pc \in [Calls -> {"idle", "requested", "waiting", "ok", "error", "dropped"}]
    /\ target \in [Calls -> Ids \cup {0}]
    /\ reply \in [Calls -> {"none", "ok", "err"}]

Init ==
    /\ nextId = 0
    /\ kindOf = [i \in Ids |-> "none"]
    /\ phase = [i \in Ids |-> "none"]
    /\ session = "down"
    /\ queue = <<>>
    /\ inbox = [k \in Services |-> <<>>]
    /\ stage = [k \in Kinds |-> "gone"]
    /\ workId = [k \in Kinds |-> 0]
    /\ outcome = [k \in Kinds |-> "succeeded"]
    /\ stopper = [k \in Kinds |-> NoCall]
    /\ pc = [c \in Calls |-> "idle"]
    /\ target = [c \in Calls |-> 0]
    /\ reply = [c \in Calls |-> "none"]

-----------------------------------------------------------------------------
(***************************************************************************)
(* The registry.                                                           *)
(***************************************************************************)
IsActive(i) == phase[i] \in Active

Retained == {i \in Ids : phase[i] # "none"}

\* The records that have ended; begin drops the oldest, which has the
\* smallest id.
Evictable == {i \in Ids : phase[i] \in Ended}

KindBusy(k) == \E i \in Ids : kindOf[i] = k /\ IsActive(i)

\* What begin removes to keep the history bounded.
Evicted ==
    IF Cardinality(Retained) < MaxRetained THEN {}
    ELSE {i \in Evictable : \A j \in Evictable : i <= j}

\* begin refuses a kind that is busy, and a registry full of active records.
Admits(k) ==
    /\ ~KindBusy(k)
    /\ Cardinality(Retained) < MaxRetained \/ Evictable # {}

Begin(k) ==
    /\ nextId < MaxId
    /\ nextId' = nextId + 1
    /\ kindOf' = [kindOf EXCEPT ![nextId + 1] = k]
    /\ phase' = [i \in Ids |-> IF i = nextId + 1 THEN "running"
                               ELSE IF i \in Evicted THEN "none" ELSE phase[i]]

\* succeed, cancel and fail: no effect on a record that is not active.
FinishRecord(i, end) ==
    phase' = [phase EXCEPT ![i] = IF @ \in Active THEN end ELSE @]

MutantCancelRequestFailed(i) == phase' = [phase EXCEPT ![i] = "running"]

\* cancel_request_failed: an operation that has ended is left alone.
CancelRequestFailed(i) ==
    phase' = [phase EXCEPT ![i] = IF @ = "cancelling" THEN "running" ELSE @]

MutantCancelAll == phase

CancelAll == [i \in Ids |-> IF IsActive(i) THEN "cancelled" ELSE phase[i]]

-----------------------------------------------------------------------------
(***************************************************************************)
(* Callers.                                                                *)
(***************************************************************************)

\* Any client asks for a new operation, or for the end of the present one of
\* a kind.  Without a session the command slot refuses.
Request(op, k) ==
    /\ session # "down" /\ Len(queue) < MaxQueue
    /\ op = "stop" => k \in Services
    /\ queue' = Append(queue, [op |-> op, kind |-> k, call |-> NoCall])
    /\ UNCHANGED <<session, inbox>>
    /\ UNCHANGED registryVars
    /\ UNCHANGED serviceVars
    /\ UNCHANGED callVars

\* cancel(i): the record is active, its kind cancellable; request_cancel.
\* (Any other id is refused without effect.)
CancelRequest(c, i) ==
    /\ pc[c] = "idle"
    /\ IsActive(i) /\ kindOf[i] \in Services
    /\ phase' = [phase EXCEPT ![i] = "cancelling"]
    /\ pc' = [pc EXCEPT ![c] = "requested"]
    /\ target' = [target EXCEPT ![c] = i]
    /\ UNCHANGED <<nextId, kindOf, reply>>
    /\ UNCHANGED sessionVars
    /\ UNCHANGED serviceVars

\* stop sends Stop for the kind of the operation, if there is a session.
CancelSend(c) ==
    /\ pc[c] = "requested"
    /\ \/ /\ session # "down"
          /\ queue' = Append(queue, [op |-> "stop", kind |-> kindOf[target[c]], call |-> c])
          /\ pc' = [pc EXCEPT ![c] = "waiting"]
          /\ UNCHANGED phase
       \/ /\ session = "down"
          /\ CancelRequestFailed(target[c])
          /\ pc' = [pc EXCEPT ![c] = "error"]
          /\ UNCHANGED queue
    /\ UNCHANGED <<nextId, kindOf, session, inbox, target, reply>>
    /\ UNCHANGED serviceVars

CancelAnswered(c) ==
    /\ pc[c] = "waiting" /\ reply[c] # "none"
    /\ \/ /\ reply[c] = "ok"
          /\ pc' = [pc EXCEPT ![c] = "ok"]
          /\ UNCHANGED phase
       \/ /\ reply[c] = "err"
          /\ pc' = [pc EXCEPT ![c] = "error"]
          /\ CancelRequestFailed(target[c])
    /\ UNCHANGED <<nextId, kindOf, target, reply>>
    /\ UNCHANGED sessionVars
    /\ UNCHANGED serviceVars

MutantCancelTimesOut(c) ==
    /\ pc[c] = "waiting" /\ reply[c] = "none"
    /\ pc' = [pc EXCEPT ![c] = "error"]
    /\ UNCHANGED <<nextId, kindOf, phase, target, reply>>
    /\ UNCHANGED sessionVars
    /\ UNCHANGED serviceVars

\* CANCEL_RESPONSE_TIMEOUT: the Stop stays where it is.
CancelTimesOut(c) ==
    /\ pc[c] = "waiting" /\ reply[c] = "none"
    /\ pc' = [pc EXCEPT ![c] = "error"]
    /\ CancelRequestFailed(target[c])
    /\ UNCHANGED <<nextId, kindOf, target, reply>>
    /\ UNCHANGED sessionVars
    /\ UNCHANGED serviceVars

\* The client of an HTTP request goes away: the future is dropped where it
\* waits.
CancelDropped(c) ==
    /\ CallsDropped
    /\ pc[c] = "waiting"
    /\ pc' = [pc EXCEPT ![c] = "dropped"]
    /\ UNCHANGED <<target, reply>>
    /\ UNCHANGED registryVars
    /\ UNCHANGED sessionVars
    /\ UNCHANGED serviceVars

-----------------------------------------------------------------------------
(***************************************************************************)
(* The session: routing, and the tasks' life.                              *)
(***************************************************************************)

\* The calls S get answer r, or a closed reply channel.
Reply(S, r) ==
    reply' = [c \in Calls |-> IF c \in S /\ reply[c] = "none" THEN r ELSE reply[c]]

CallsIn(q) == {q[n].call : n \in 1..Len(q)}

MutantRejection == "ok"

\* The answer to a command that a full channel does not take.
Rejection == "err"

HasRoom(k) == Len(inbox[k]) < InboxCapacity

\* route: try_send to the service, whose full channel rejects the command.
Route ==
    /\ session = "up" /\ queue # <<>> /\ Head(queue).kind \in Services
    /\ LET cmd == Head(queue)
           k == cmd.kind
       IN /\ queue' = Tail(queue)
          /\ \/ /\ HasRoom(k)
                /\ inbox' = [inbox EXCEPT ![k] = Append(@, cmd)]
                /\ UNCHANGED reply
             \/ /\ ~HasRoom(k)
                /\ Reply({cmd.call}, Rejection)
                /\ UNCHANGED inbox
    /\ UNCHANGED <<session, pc, target>>
    /\ UNCHANGED registryVars
    /\ UNCHANGED serviceVars

\* uninstall_app, which the router itself handles: it spawns the task.
Uninstall ==
    /\ session = "up" /\ queue # <<>> /\ Head(queue).kind \in Uninstalls
    /\ queue' = Tail(queue)
    /\ LET k == Head(queue).kind IN
       IF Admits(k)
       THEN /\ Begin(k)
            /\ stage' = [stage EXCEPT ![k] = "working"]
            /\ workId' = [workId EXCEPT ![k] = nextId + 1]
       ELSE UNCHANGED <<nextId, kindOf, phase, stage, workId>>
    /\ UNCHANGED <<session, inbox, outcome, stopper>>
    /\ UNCHANGED callVars

SessionStarts ==
    /\ session = "down"
    /\ session' = "starting"
    /\ stage' = [k \in Kinds |-> "idle"]
    /\ UNCHANGED <<queue, inbox, workId, outcome, stopper>>
    /\ UNCHANGED registryVars
    /\ UNCHANGED callVars

\* Setup succeeded.  Until then nothing is routed, so a Wi-Fi setup that fails
\* and is tried again (same queue, new idle services) changes nothing here.
SessionConnects ==
    /\ session = "starting"
    /\ session' = "up"
    /\ UNCHANGED <<queue, inbox>>
    /\ UNCHANGED registryVars
    /\ UNCHANGED serviceVars
    /\ UNCHANGED callVars

\* The command loop ended: the services are told to shut down, a task that
\* removes an app is aborted and its record cancelled.
SessionCloses ==
    /\ session \in {"starting", "up"}
    /\ session' = "closing"
    /\ phase' = [i \in Ids |-> IF IsActive(i) /\ \E k \in Uninstalls : workId[k] = i
                               THEN "cancelled" ELSE phase[i]]
    /\ stage' = [k \in Kinds |-> IF k \in Uninstalls THEN "gone" ELSE stage[k]]
    /\ workId' = [k \in Kinds |-> IF k \in Uninstalls THEN 0 ELSE workId[k]]
    /\ UNCHANGED <<nextId, kindOf, queue, inbox, outcome, stopper>>
    /\ UNCHANGED callVars

\* All service tasks ended: the session task clears its slots.
SessionEnds ==
    /\ session = "closing"
    /\ \A k \in Kinds : stage[k] = "gone"
    /\ session' = "down"
    /\ phase' = CancelAll
    /\ queue' = <<>>
    /\ Reply(CallsIn(queue), "err")
    /\ UNCHANGED <<nextId, kindOf, inbox, pc, target>>
    /\ UNCHANGED serviceVars

-----------------------------------------------------------------------------
(***************************************************************************)
(* The services.                                                           *)
(***************************************************************************)

\* An idle service takes a command: Stop finds nothing to stop, Start begins.
TakeIdle(k) ==
    /\ stage[k] = "idle" /\ inbox[k] # <<>>
    /\ inbox' = [inbox EXCEPT ![k] = Tail(@)]
    /\ LET cmd == Head(inbox[k]) IN
       \/ /\ cmd.op = "stop"
          /\ Reply({cmd.call}, "err")
          /\ UNCHANGED <<nextId, kindOf, phase, stage, workId>>
       \/ /\ cmd.op = "start"
          /\ IF Admits(k)
             THEN /\ Begin(k)
                  /\ stage' = [stage EXCEPT ![k] = "starting"]
                  /\ workId' = [workId EXCEPT ![k] = nextId + 1]
             ELSE UNCHANGED <<nextId, kindOf, phase, stage, workId>>
          /\ UNCHANGED reply
    /\ UNCHANGED <<session, queue, outcome, stopper, pc, target>>

\* The device service answered and the destination file is open.
WorkStarts(k) ==
    /\ stage[k] = "starting"
    /\ stage' = [stage EXCEPT ![k] = "working"]
    /\ UNCHANGED <<workId, outcome, stopper>>
    /\ UNCHANGED registryVars
    /\ UNCHANGED sessionVars
    /\ UNCHANGED callVars

StartFails(k) ==
    /\ stage[k] = "starting"
    /\ FinishRecord(workId[k], "failed")
    /\ stage' = [stage EXCEPT ![k] = "idle"]
    /\ workId' = [workId EXCEPT ![k] = 0]
    /\ UNCHANGED <<nextId, kindOf, outcome, stopper>>
    /\ UNCHANGED sessionVars
    /\ UNCHANGED callVars

\* A working service takes a command: Start is refused, Stop ends the work; an
\* export answers at once, a capture when its file is closed.
TakeWorking(k) ==
    /\ k \in Services /\ stage[k] = "working" /\ inbox[k] # <<>>
    /\ inbox' = [inbox EXCEPT ![k] = Tail(@)]
    /\ LET cmd == Head(inbox[k]) IN
       \/ /\ cmd.op = "stop"
          /\ stage' = [stage EXCEPT ![k] = "finishing"]
          /\ outcome' = [outcome EXCEPT ![k] = "cancelled"]
          /\ stopper' = [stopper EXCEPT ![k] = cmd.call]
          /\ IF k \in Exports THEN Reply({cmd.call}, "ok") ELSE UNCHANGED reply
       \/ cmd.op = "start" /\ UNCHANGED <<stage, outcome, stopper, reply>>
    /\ UNCHANGED <<session, queue, workId, pc, target>>
    /\ UNCHANGED registryVars

\* The work ends by itself: done, at its limit, or the stream failed.
WorkEnds(k) ==
    /\ stage[k] = "working"
    /\ stage' = [stage EXCEPT ![k] = "finishing"]
    /\ \E end \in {"succeeded", "failed"} : outcome' = [outcome EXCEPT ![k] = end]
    /\ UNCHANGED <<workId, stopper>>
    /\ UNCHANGED registryVars
    /\ UNCHANGED sessionVars
    /\ UNCHANGED callVars

\* The file is closed (or a capture could not close it) or removed; the
\* record ends and the one who stopped a capture gets its answer.
WorkFinished(k) ==
    /\ stage[k] = "finishing"
    /\ \E end \in {outcome[k]} \cup (IF k \in Captures THEN {"failed"} ELSE {}) :
          /\ FinishRecord(workId[k], end)
          /\ Reply({stopper[k]}, IF end = "failed" THEN "err" ELSE "ok")
    /\ stage' = [stage EXCEPT ![k] = "idle"]
    /\ workId' = [workId EXCEPT ![k] = 0]
    /\ stopper' = [stopper EXCEPT ![k] = NoCall]
    /\ UNCHANGED <<nextId, kindOf, outcome, pc, target>>
    /\ UNCHANGED sessionVars

\* A service task is gone: commands it did not take and the answer it owed
\* are dropped.
Gone(k) ==
    /\ stage' = [stage EXCEPT ![k] = "gone"]
    /\ workId' = [workId EXCEPT ![k] = 0]
    /\ stopper' = [stopper EXCEPT ![k] = NoCall]
    /\ inbox' = [inbox EXCEPT ![k] = <<>>]
    /\ Reply(CallsIn(inbox[k]) \cup {stopper[k]}, "err")
    /\ UNCHANGED <<nextId, kindOf, session, queue, outcome, pc, target>>

\* A service notices the shutdown: an idle one returns, a working one stops.
SeesShutdown(k) ==
    /\ k \in Services /\ session = "closing"
    /\ \/ stage[k] = "idle" /\ Gone(k) /\ UNCHANGED phase
       \/ /\ stage[k] = "working"
          /\ stage' = [stage EXCEPT ![k] = "leaving"]
          /\ UNCHANGED <<workId, outcome, stopper>>
          /\ UNCHANGED registryVars
          /\ UNCHANGED sessionVars
          /\ UNCHANGED callVars

\* A service that stopped for the shutdown ends its record and returns.
Leaves(k) ==
    /\ k \in Services /\ stage[k] = "leaving"
    /\ \E end \in {"cancelled"} \cup (IF k \in Captures THEN {"failed"} ELSE {}) :
          FinishRecord(workId[k], end)
    /\ Gone(k)

\* SHUTDOWN_GRACE is over: the supervisor aborts the task wherever it is.
Aborted(k) ==
    /\ k \in Services /\ session = "closing"
    /\ stage[k] # "gone"
    /\ Gone(k) /\ UNCHANGED phase

-----------------------------------------------------------------------------
Caller(c) ==
    \/ \E i \in Ids : CancelRequest(c, i)
    \/ CancelSend(c) \/ CancelAnswered(c) \/ CancelTimesOut(c) \/ CancelDropped(c)

Session == Route \/ Uninstall \/ SessionStarts \/ SessionConnects
              \/ SessionCloses \/ SessionEnds

Service(k) ==
    \/ k \in Services /\ TakeIdle(k)
    \/ TakeWorking(k) \/ WorkStarts(k) \/ StartFails(k)
    \/ WorkEnds(k) \/ WorkFinished(k) \/ SeesShutdown(k) \/ Leaves(k) \/ Aborted(k)

Next ==
    \/ \E op \in {"start", "stop"}, k \in Kinds : Request(op, k)
    \/ \E c \in Calls : Caller(c)
    \/ Session
    \/ \E k \in Kinds : Service(k)

Spec == Init /\ [][Next]_vars

\* The executor polls tasks that can go on, timers fire and host files are
\* closed in the end.  Whether the device ever lets work start or end is not
\* assumed, nor are requests or the life of the session.
FairSpec ==
    /\ Spec
    /\ WF_vars(SessionEnds)
    /\ \A c \in Calls : WF_vars(CancelSend(c)) /\ WF_vars(CancelAnswered(c) \/ CancelTimesOut(c))
    /\ \A k \in Kinds : WF_vars(WorkFinished(k)) /\ WF_vars(Aborted(k))

-----------------------------------------------------------------------------
(***************************************************************************)
(* Correctness.                                                            *)
(***************************************************************************)

\* "At most one active operation of a kind is admitted per device."
OneActivePerKind ==
    \A i, j \in Ids : IsActive(i) /\ IsActive(j) /\ kindOf[i] = kindOf[j] => i = j

Works(k) == stage[k] \in {"starting", "working", "finishing", "leaving"}

\* A record is active exactly while a service works on it, so a kind is never
\* blocked by an operation nobody will end, and no record ends or is evicted
\* under the service that works on it.  While a session closes, an aborted
\* service may leave its record to cancel_all ("session teardown cancels
\* remaining active records").
ActiveServed ==
    /\ \A k \in Kinds : Works(k) =>
          workId[k] \in Ids /\ IsActive(workId[k]) /\ kindOf[workId[k]] = k
    /\ session # "closing" =>
          \A i \in Ids : IsActive(i) =>
             Works(kindOf[i]) /\ workId[kindOf[i]] = i

\* "Retained history is bounded."
HistoryBounded == Cardinality(Retained) <= MaxRetained

\* A record that has ended keeps its phase until it is evicted, although late
\* answers, timeouts and session teardown still write to it.
EndedFinal ==
    [][\A i \in Ids : phase[i] \in Ended => phase'[i] \in {phase[i], "none"}]_vars

Finishing(i) ==
    \E k \in Kinds : stage[k] \in {"finishing", "leaving"} /\ workId[k] = i

\* A successful cancel has ended its operation, or it is being cleaned up.
CancelOkEnds ==
    \A c \in Calls : pc[c] = "ok" /\ IsActive(target[c]) =>
        Finishing(target[c]) \/ session = "closing"

InFlight(c) ==
    c \in CallsIn(queue) \/ \E k \in Services : c \in CallsIn(inbox[k])

\* The future that would give the record back was dropped with its caller.
CallerLeft(i) == \E c \in Calls : target[c] = i /\ pc[c] = "dropped"

\* "Restore a running operation when its owning service rejected a cancel
\* request": a record says cancelling only while somebody waits for its
\* cancellation, a Stop for it is on its way, or it is ending; a caller that
\* went away is the exception.
CancellingHasCause ==
    \A i \in Ids : phase[i] = "cancelling" =>
        \/ \E c \in Calls : target[c] = i /\ (pc[c] \in {"requested", "waiting"} \/ InFlight(c))
        \/ Finishing(i)
        \/ CallerLeft(i)
        \/ session = "closing"

\* The Stop that a cancel call sends ends the operation of the call's id
\* ("Pass a cancellable operation ID to cancel_operation"; the controller
\* "resolves an operation ID to its owning runtime service").
StopsItsTarget ==
    \A k \in Kinds : stopper[k] \in Calls => target[stopper[k]] = workId[k]

\* A requested cancellation is settled: the operation ends or runs on,
\* whether or not the device answers, unless its caller went away.
CancelSettles ==
    \A i \in Ids :
        phase[i] = "cancelling" ~> (phase[i] # "cancelling" \/ CallerLeft(i))
==============================================================================
