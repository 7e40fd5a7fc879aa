--------------------------- MODULE SessionManager ---------------------------
(***************************************************************************)
(* The outer session manager of devicehub-runtime (session/manager.rs) and *)
(* the per-device session tasks it spawns.                                 *)
(*                                                                         *)
(* The manager is one task: it handles one control command, one "session   *)
(* ended" notice or one discovery tick at a time.  Every connected device  *)
(* has a task of its own on the same LocalSet.  They share the session     *)
(* slots (status, error, command sender, stop sender) and the ended        *)
(* channel.  An action is what one of them does between two awaits that    *)
(* let the other observe it.                                               *)
(***************************************************************************)
EXTENDS Naturals, Sequences, FiniteSets

CONSTANTS
    Devices,            \* physical devices (UDIDs)
    Transports,         \* the transports discovery can report, a subset of {"usb", "wifi"}
    Requests,           \* the identifiers that clients name in a request
    InitialSelection,   \* the device named on the command line, or NoId
    NoId,               \* "no selection"
    DiscoveryLosesLive  \* may a scan miss the endpoint of a device in use?

(***************************************************************************)
(* An identifier is a UDID with its transport (device_selector); a client  *)
(* may also name the bare UDID.                                            *)
(***************************************************************************)
Ids == Devices \X {"usb", "wifi", "bare"}

Selections == Devices \X Transports

ASSUME TransportsAssumption == Transports \subseteq {"usb", "wifi"}
ASSUME RequestsAssumption == Requests \subseteq Ids
ASSUME InitialAssumption == InitialSelection \in Ids \cup {NoId}
ASSUME NoIdAssumption == NoId \notin Ids
ASSUME LosesAssumption == DiscoveryLosesLive \in BOOLEAN

VARIABLES
    \* locals of run_session_manager
    mgr,                \* "running", "quitting" (in stop_all_sessions), "stopped"
    sessions,           \* keys of the sessions map, which the public registry mirrors
    running,            \* selections whose task has not been accounted as ended
    pendingConnect,     \* selections to start as soon as discovery reports them
    pendingReconnect,   \* selections to connect again when their task ends
    pendingManagement,  \* per selection: the action to run when its task ends
    autoPick,           \* no device was named at startup and none was picked yet
    endpoints,          \* selections the last scan reported
    active,             \* ActiveSlot: the selection that has the UI focus
    ended,              \* the ended channel
    \* per-session slots
    phase,              \* StatusSlot: the published SessionPhase
    error,              \* ErrorSlot: is an error published?
    stop,               \* the stop oneshot: "empty", "armed", "sent", "seen"
    shutdown,           \* is Shutdown queued in the command channel?
    \* per-session task
    stage               \* where the task is; "none": no task

managerVars == <<mgr, sessions, running, pendingConnect, pendingReconnect,
                 pendingManagement, autoPick, endpoints, active>>
slotVars == <<phase, error, stop, shutdown>>
vars == <<mgr, sessions, running, pendingConnect, pendingReconnect,
          pendingManagement, autoPick, endpoints, active, ended,
          phase, error, stop, shutdown, stage>>

Phases == {"discovered", "connecting", "connected", "recovering",
           "disconnecting", "disconnected"}
Stages == {"none", "spawned", "starting", "managing", "streaming",
           "closing", "stopping", "backoff"}
ManagementActions == {"pair", "forget", "unmount"}

TypeOK ==
    /\ mgr \in {"running", "quitting", "stopped"}
    /\ sessions \subseteq Ids
    /\ running \subseteq Ids
    /\ pendingConnect \subseteq Ids
    /\ pendingReconnect \subseteq Ids
    /\ pendingManagement \in [Ids -> ManagementActions \cup {"none"}]
    /\ autoPick \in BOOLEAN
    /\ endpoints \subseteq Selections
    /\ active \in Ids \cup {NoId}
    /\ ended \in Seq(Ids)
    /\ phase \in [Ids -> Phases]
    /\ error \in [Ids -> BOOLEAN]
    /\ stop \in [Ids -> {"empty", "armed", "sent", "seen"}]
    /\ shutdown \in [Ids -> BOOLEAN]
    /\ stage \in [Ids -> Stages]

MutantInitialQueue == {}

\* The pending_connect set at startup.
InitialQueue == {InitialSelection} \ {NoId}

Init ==
    /\ mgr = "running"
    /\ sessions = {}
    /\ running = {}
    /\ pendingConnect = InitialQueue
    /\ pendingReconnect = {}
    /\ pendingManagement = [i \in Ids |-> "none"]
    /\ autoPick = (InitialSelection = NoId)
    /\ endpoints = {}
    /\ active = NoId
    /\ ended = <<>>
    /\ phase = [i \in Ids |-> "disconnected"]
    /\ error = [i \in Ids |-> FALSE]
    /\ stop = [i \in Ids |-> "empty"]
    /\ shutdown = [i \in Ids |-> FALSE]
    /\ stage = [i \in Ids |-> "none"]

-----------------------------------------------------------------------------
(***************************************************************************)
(* Helpers of the manager.                                                 *)
(***************************************************************************)

\* resolve_device_selection: an exact match, else USB before Wi-Fi for a bare
\* UDID, else the request itself.
Resolve(r) ==
    IF r \in endpoints THEN r
    ELSE IF r[2] # "bare" THEN r
    ELSE IF <<r[1], "usb">> \in endpoints THEN <<r[1], "usb">>
    ELSE IF <<r[1], "wifi">> \in endpoints THEN <<r[1], "wifi">>
    ELSE r

MutantRunningSelectionsFor(d, scan) ==
    {i \in running \cap scan : i[1] = d /\ stage[i] = "streaming"}

\* running_selection_for_udid: the running selections of device d among the
\* endpoints of the scan; the code takes any of them.
RunningSelectionsFor(d, scan) == {i \in running \cap scan : i[1] = d}

MutantStopSessions(S) ==
    /\ shutdown' = [i \in Ids |->
                   IF i \in S /\ stage[i] # "none" THEN TRUE ELSE shutdown[i]]
    /\ UNCHANGED stop

\* supervisor.stop() and commands.send(Shutdown) on the sessions S.
StopSessions(S) ==
    /\ stop' = [i \in Ids |->
                   IF i \in S /\ stop[i] = "armed" THEN "sent" ELSE stop[i]]
    /\ shutdown' = [i \in Ids |->
                   IF i \in S /\ stage[i] # "none" THEN TRUE ELSE shutdown[i]]

\* startup_device_id: for the first device of the priority list, or of the
\* scan, that is not unpaired, its first entry.  The list is a preference,
\* so any such device may come first.
StartupCandidates(scan, unpaired) ==
    {i \in scan :
        /\ i[2] = "usb" => i[1] \notin unpaired
        /\ i[2] = "wifi" => \/ <<i[1], "usb">> \notin scan
                            \/ i[1] \in unpaired}

-----------------------------------------------------------------------------
(***************************************************************************)
(* Control commands.                                                       *)
(***************************************************************************)

\* The pending_connect set after a Connect for selection i.
ConnectQueue(i) == IF i \in running THEN pendingConnect ELSE pendingConnect \cup {i}

MutantConnectPhase(i) == [phase EXCEPT ![i] = "discovered"]

\* The published phases after a Connect for selection i.
ConnectPhase(i) ==
    IF i \in running THEN phase ELSE [phase EXCEPT ![i] = "discovered"]

Connect(r) ==
    /\ mgr = "running"
    /\ LET i == Resolve(r) IN
       /\ sessions' = sessions \cup {i}
       /\ active' = IF i \in endpoints THEN i ELSE active
       /\ phase' = ConnectPhase(i)
       /\ pendingConnect' = ConnectQueue(i)
    /\ UNCHANGED <<mgr, running, pendingReconnect, pendingManagement, autoPick,
                   endpoints, ended, error, stop, shutdown, stage>>

\* The selections that may take the focus over when i is disconnected.
FocusFallbacks(i) == (running \cap endpoints) \ {i}

Disconnect(r) ==
    /\ mgr = "running"
    /\ LET i == Resolve(r) IN
       /\ pendingConnect' = pendingConnect \ {i}
       /\ pendingReconnect' = pendingReconnect \ {i}
       /\ StopSessions(sessions \cap {i})
       /\ phase' = IF i \in sessions \ running
                   THEN [phase EXCEPT ![i] = "disconnected"] ELSE phase
       /\ \/ active # i /\ active' = active
          \/ active = i /\ active' \in FocusFallbacks(i)
          \/ active = i /\ FocusFallbacks(i) = {} /\ active' = NoId
    /\ UNCHANGED <<mgr, sessions, running, pendingManagement, autoPick,
                   endpoints, ended, error, stage>>

Reconnect(r) ==
    /\ mgr = "running"
    /\ LET i == Resolve(r) IN
       /\ sessions' = sessions \cup {i}
       /\ pendingReconnect' = pendingReconnect \cup {i}
       /\ pendingConnect' = ConnectQueue(i)
       /\ StopSessions(running \cap {i})
    /\ UNCHANGED <<mgr, running, pendingManagement, autoPick, endpoints, active,
                   ended, phase, error, stage>>

\* The focus after session i left the registry.
FocusAfterRemoval(i) == IF active = i THEN NoId ELSE active

\* perform_management_action and apply_management_outcome for selection i,
\* with queue the pending_connect set of the moment.  Pairing succeeds only
\* over USB and leaves the phase it published; forgetting removes the session.
PerformManagement(i, action, queue) ==
    \/ /\ action = "pair"
       /\ sessions' = sessions \cup {i}
       /\ phase' = IF i \in endpoints /\ i[2] = "usb"
                   THEN [phase EXCEPT ![i] = "connecting"] ELSE phase
       /\ \/ pendingConnect' = queue
          \/ /\ i \in endpoints /\ i[2] = "usb"
             /\ pendingConnect' = queue \cup {i}
       /\ UNCHANGED <<active, error>>
    \/ /\ action = "forget"
       /\ sessions' = sessions \ {i}
       /\ active' = FocusAfterRemoval(i)
       /\ phase' = [phase EXCEPT ![i] = "disconnected"]
       /\ error' = [error EXCEPT ![i] = FALSE]
       /\ pendingConnect' = queue
    \/ /\ action = "unmount"
       /\ sessions' = sessions \cup {i}
       /\ pendingConnect' = queue
       /\ UNCHANGED <<active, phase, error>>

MutantMustWait(i) == stage[i] \in {"managing", "streaming"}

\* A management action on i waits for its task.
MustWait(i) == i \in running

\* Pair, Forget and UnmountDeveloperImage: at once without a task, else when
\* the task has ended; a later request takes the place of an earlier one.
\* Only an unmount resolves a bare UDID and drops the pending connects.
Manage(r, action) ==
    /\ mgr = "running"
    /\ LET i == IF action = "unmount" THEN Resolve(r) ELSE r
           dropped == IF action = "unmount" THEN {i} ELSE {}
       IN
       /\ pendingReconnect' = pendingReconnect \ dropped
       /\ \/ /\ MustWait(i)
             /\ sessions' = sessions \cup {i}
             /\ pendingConnect' = pendingConnect \ dropped
             /\ pendingManagement' = [pendingManagement EXCEPT ![i] = action]
             /\ StopSessions({i})
             /\ UNCHANGED <<active, phase, error>>
          \/ /\ ~MustWait(i)
             /\ PerformManagement(i, action, pendingConnect \ dropped)
             /\ UNCHANGED <<pendingManagement, stop, shutdown>>
    /\ UNCHANGED <<mgr, running, autoPick, endpoints, ended, stage>>

\* Quit, or every control sender gone: stop_all_sessions signals the running
\* sessions and starts its grace period.
Quit ==
    /\ mgr = "running"
    /\ mgr' = "quitting"
    /\ StopSessions(running \cap sessions)
    /\ UNCHANGED <<sessions, running, pendingConnect, pendingReconnect,
                   pendingManagement, autoPick, endpoints, active, ended,
                   phase, error, stage>>

-----------------------------------------------------------------------------
(***************************************************************************)
(* The other two branches of the manager's select, and the shutdown wait.  *)
(***************************************************************************)

\* A session ended: its pending management action runs, else a requested
\* reconnect is queued.
Ended ==
    /\ mgr = "running"
    /\ ended # <<>>
    /\ LET i == Head(ended) IN
       /\ ended' = Tail(ended)
       /\ running' = running \ {i}
       /\ pendingManagement' = [pendingManagement EXCEPT ![i] = "none"]
       /\ \/ /\ pendingManagement[i] # "none" /\ i \in sessions
             /\ PerformManagement(i, pendingManagement[i], pendingConnect)
             /\ UNCHANGED pendingReconnect
          \/ /\ ~(pendingManagement[i] # "none" /\ i \in sessions)
             /\ pendingReconnect' = pendingReconnect \ {i}
             /\ pendingConnect' = IF i \in pendingReconnect
                                  THEN pendingConnect \cup {i} ELSE pendingConnect
             /\ UNCHANGED <<sessions, active, phase, error>>
    /\ UNCHANGED <<mgr, autoPick, endpoints, stop, shutdown, stage>>

\* The outcome of the loop over the pending selections a scan reports, which
\* it takes in the order of a hash set.  For a device with no reported
\* running selection one of them starts and the others are refused; otherwise
\* all are refused, except one that runs already: it is left alone (or
\* refused, when the other running transport is looked up first).
Admitted(ready, scan, won, refused) ==
    LET free == {i \in ready : RunningSelectionsFor(i[1], scan) = {}} IN
    /\ won \subseteq free
    /\ \A i \in free : \E j \in won : j[1] = i[1]
    /\ \A i, j \in won : i[1] = j[1] => i = j
    /\ refused \subseteq ready
    /\ (ready \ running) \ won \subseteq refused
    /\ refused \cap won = {}
    /\ \A i \in refused \cap running : RunningSelectionsFor(i[1], scan) # {i}

\* What that loop writes; a started session gets fresh slots and the focus.
StartAdmitted(won, refused) ==
    /\ running' = running \cup won
    /\ sessions' = sessions \cup won \cup refused
    /\ active' \in IF won = {} THEN {active} ELSE won
    /\ stage' = [i \in Ids |-> IF i \in won THEN "spawned" ELSE stage[i]]
    /\ stop' = [i \in Ids |-> IF i \in won THEN "armed" ELSE stop[i]]
    /\ shutdown' = [i \in Ids |-> IF i \in won THEN FALSE ELSE shutdown[i]]
    /\ phase' = [i \in Ids |-> IF i \in refused THEN "disconnected" ELSE phase[i]]
    /\ error' = [i \in Ids |-> IF i \in won THEN FALSE
                               ELSE IF i \in refused THEN TRUE ELSE error[i]]

\* The selection, if any, that the automatic pick adds after a scan.
AutoPicks(scan, unpaired) ==
    IF autoPick /\ pendingConnect = {}
    THEN {{i} : i \in StartupCandidates(scan, unpaired)}
    ELSE {}

\* A scan: its outcome is the environment's, and reports each device over
\* both transports, either or none.
Tick ==
    /\ mgr = "running"
    /\ \E scan \in SUBSET Selections :
       /\ DiscoveryLosesLive \/ running \subseteq scan
       /\ endpoints' = scan
       /\ \E unpaired \in SUBSET {d \in Devices : <<d, "usb">> \in scan} :
          LET picks == AutoPicks(scan, unpaired) IN
          \E picked \in IF picks = {} THEN {{}} ELSE picks :
             LET queue == pendingConnect \cup picked
                 ready == queue \cap scan
             IN
             /\ autoPick' = (autoPick /\ picks = {})
             /\ pendingConnect' = queue \ ready
             /\ \E won \in SUBSET ready, refused \in SUBSET ready :
                   /\ Admitted(ready, scan, won, refused)
                   /\ StartAdmitted(won, refused)
    /\ UNCHANGED <<mgr, pendingReconnect, pendingManagement, ended>>

\* stop_all_sessions receives an end notice.
QuitEnded ==
    /\ mgr = "quitting" /\ running # {}
    /\ ended # <<>>
    /\ ended' = Tail(ended)
    /\ running' = running \ {Head(ended)}
    /\ UNCHANGED <<mgr, sessions, pendingConnect, pendingReconnect,
                   pendingManagement, autoPick, endpoints, active, stage>>
    /\ UNCHANGED slotVars

MutantQuitDone ==
    /\ mgr = "quitting" /\ running = {}
    /\ mgr' = "stopped"
    /\ stage' = [i \in Ids |-> "none"]
    /\ UNCHANGED <<sessions, running, pendingConnect, pendingReconnect,
                   pendingManagement, autoPick, endpoints, active, ended>>
    /\ UNCHANGED slotVars

\* It returns when no session runs or its grace period is over; the LocalSet
\* is dropped with the tasks still in it.
QuitDone ==
    /\ mgr = "quitting"
    /\ mgr' = "stopped"
    /\ stage' = [i \in Ids |-> "none"]
    /\ UNCHANGED <<sessions, running, pendingConnect, pendingReconnect,
                   pendingManagement, autoPick, endpoints, active, ended>>
    /\ UNCHANGED slotVars

-----------------------------------------------------------------------------
(***************************************************************************)
(* The session task of selection i (spawn_connected_session), around one   *)
(* run_connected_session future at a time.                                 *)
(***************************************************************************)

MutantFinishSilent(i) ==
    /\ stage' = [stage EXCEPT ![i] = "none"]
    /\ stop' = [stop EXCEPT ![i] = "empty"]
    /\ shutdown' = [shutdown EXCEPT ![i] = FALSE]
    /\ phase' = [phase EXCEPT ![i] = "disconnected"]
    /\ UNCHANGED ended

\* The code after the task's loop: it withdraws the slots, publishes the
\* final phase and reports the end.
Finish(i) ==
    /\ stage' = [stage EXCEPT ![i] = "none"]
    /\ stop' = [stop EXCEPT ![i] = "empty"]
    /\ shutdown' = [shutdown EXCEPT ![i] = FALSE]
    /\ phase' = [phase EXCEPT ![i] = "disconnected"]
    /\ ended' = Append(ended, i)

\* First poll of the task, or the end of a retry delay: a new attempt.
BeginAttempt(i) ==
    /\ stage[i] \in {"spawned", "backoff"}
    /\ stage' = [stage EXCEPT ![i] = "starting"]
    /\ phase' = [phase EXCEPT ![i] = "connecting"]
    /\ UNCHANGED managerVars
    /\ UNCHANGED <<ended, error, stop, shutdown>>

\* An attempt failed before the stop signal was taken.  Only Wi-Fi retries,
\* unless the device wants the host to be authorized again.
AttemptFailed(i, reauthorize) ==
    /\ error' = [error EXCEPT ![i] = TRUE]
    /\ \/ /\ i[2] = "wifi" /\ ~reauthorize
          /\ stage' = [stage EXCEPT ![i] = "backoff"]
          /\ phase' = [phase EXCEPT ![i] = "recovering"]
          /\ UNCHANGED <<ended, stop, shutdown>>
       \/ /\ i[2] # "wifi" \/ reauthorize
          /\ Finish(i)

\* connect_provider, the tunnel or HID setup failed.  After the stop signal
\* the result is dropped and the task ends.
StartupFails(i) ==
    /\ stage[i] = "starting"
    /\ \/ /\ stop[i] = "seen"
          /\ Finish(i)
          /\ UNCHANGED error
       \/ /\ stop[i] # "seen"
          /\ \E reauthorize \in BOOLEAN : AttemptFailed(i, reauthorize)
    /\ UNCHANGED managerVars

\* SESSION_STARTUP_TIMEOUT, which is no longer awaited after the stop signal.
StartupTimesOut(i) ==
    /\ stage[i] = "starting"
    /\ stop[i] # "seen"
    /\ AttemptFailed(i, FALSE)
    /\ UNCHANGED managerVars

\* No screen media: the session goes on with device management alone.
StartupManages(i) ==
    /\ stage[i] = "starting"
    /\ stage' = [stage EXCEPT ![i] = "managing"]
    /\ phase' = [phase EXCEPT ![i] = "connected"]
    /\ error' = [error EXCEPT ![i] = TRUE]
    /\ UNCHANGED managerVars
    /\ UNCHANGED <<ended, stop, shutdown>>

StartupStreams(i) ==
    /\ stage[i] = "starting"
    /\ stage' = [stage EXCEPT ![i] = "streaming"]
    /\ phase' = [phase EXCEPT ![i] = "connected"]
    /\ UNCHANGED managerVars
    /\ UNCHANGED <<ended, error, stop, shutdown>>

MutantTakeShutdown(i) ==
    /\ stage[i] = "streaming"
    /\ shutdown[i]
    /\ stage' = [stage EXCEPT ![i] = "closing"]
    /\ UNCHANGED managerVars
    /\ UNCHANGED slotVars
    /\ UNCHANGED ended

\* The command loop takes Shutdown from its queue.
TakeShutdown(i) ==
    /\ stage[i] \in {"managing", "streaming"}
    /\ shutdown[i]
    /\ stage' = [stage EXCEPT ![i] = "closing"]
    /\ UNCHANGED managerVars
    /\ UNCHANGED slotVars
    /\ UNCHANGED ended

\* One of the media, audio, clipboard or orientation futures ended.
StreamEnds(i) ==
    /\ stage[i] = "streaming"
    /\ stage' = [stage EXCEPT ![i] = "closing"]
    /\ UNCHANGED managerVars
    /\ UNCHANGED slotVars
    /\ UNCHANGED ended

\* The services are down; the media stream is being stopped.
ServicesDown(i) ==
    /\ stage[i] = "closing"
    /\ stage' = [stage EXCEPT ![i] = "stopping"]
    /\ phase' = [phase EXCEPT ![i] = "disconnecting"]
    /\ UNCHANGED managerVars
    /\ UNCHANGED <<ended, error, stop, shutdown>>

\* The session future returned Ok: no retry.
SessionReturns(i) ==
    /\ stage[i] = "stopping"
    /\ Finish(i)
    /\ UNCHANGED managerVars
    /\ UNCHANGED error

\* The task takes the stop signal: it queues Shutdown and awaits the session,
\* or gives up a retry delay.
ObserveStop(i) ==
    /\ stop[i] = "sent"
    /\ \/ /\ stage[i] = "backoff"
          /\ Finish(i)
       \/ /\ stage[i] \notin {"none", "spawned", "backoff"}
          /\ stop' = [stop EXCEPT ![i] = "seen"]
          /\ shutdown' = [shutdown EXCEPT ![i] = TRUE]
          /\ UNCHANGED <<stage, phase, ended>>
    /\ UNCHANGED managerVars
    /\ UNCHANGED error

-----------------------------------------------------------------------------
Request(r) ==
    \/ Connect(r)
    \/ Disconnect(r)
    \/ Reconnect(r)
    \/ \E action \in ManagementActions : Manage(r, action)

Manager == (\E r \in Requests : Request(r)) \/ Quit \/ Ended \/ Tick
               \/ QuitEnded \/ QuitDone

StartupEnds(i) == StartupFails(i) \/ StartupManages(i) \/ StartupStreams(i)

Task(i) ==
    \/ BeginAttempt(i)
    \/ StartupEnds(i)
    \/ StartupTimesOut(i)
    \/ TakeShutdown(i)
    \/ StreamEnds(i)
    \/ ServicesDown(i)
    \/ SessionReturns(i)
    \/ ObserveStop(i)

Next == Manager \/ \E i \in Ids : Task(i)

Spec == Init /\ [][Next]_vars

(***************************************************************************)
(* Fairness: the executor polls every task that can go on, timers fire,    *)
(* and service shutdown is bounded by its own deadline.  Whether the       *)
(* device ever answers a connection attempt is not the code's to decide:   *)
(* only AnsweringSpec assumes it.  Requests, Quit, a lost stream and the   *)
(* choice of an attempt's result carry no fairness.                        *)
(***************************************************************************)
ExecutorFairness ==
    /\ WF_vars(Ended) /\ WF_vars(Tick) /\ WF_vars(QuitEnded) /\ WF_vars(QuitDone)
    /\ \A i \in Selections :
          /\ WF_vars(BeginAttempt(i)) /\ WF_vars(ObserveStop(i))
          /\ WF_vars(StartupTimesOut(i)) /\ WF_vars(TakeShutdown(i))
          /\ WF_vars(ServicesDown(i)) /\ WF_vars(SessionReturns(i))

FairSpec == Spec /\ ExecutorFairness

AnsweringSpec == FairSpec /\ \A i \in Selections : WF_vars(StartupEnds(i))

-----------------------------------------------------------------------------
(***************************************************************************)
(* Correctness.                                                            *)
(***************************************************************************)
Elements(q) == {q[k] : k \in 1..Len(q)}
Distinct(q) == \A j, k \in 1..Len(q) : q[j] = q[k] => j = k

Reported == Elements(ended)

\* The accounting behind `running`: until the manager has stopped, a
\* selection is in it exactly when its one task is alive or that task's end
\* notice waits in the channel, never both and never twice.  A lost or
\* doubled notice would leave a device that can never be connected again, or
\* two tasks that share one set of slots (running.insert and ended.send).
TaskAccounting ==
    mgr # "stopped" =>
        /\ \A i \in Ids : i \in running <=> (stage[i] # "none" \/ i \in Reported)
        /\ \A i \in Reported : stage[i] = "none"
        /\ Distinct(ended)

\* Whatever runs can be stopped: its session is in the map through which
\* Disconnect, Reconnect and Quit reach the stop and command slots, and those
\* slots are open exactly as long as the task lives.
RunningStoppable ==
    /\ running \subseteq sessions
    /\ mgr # "stopped" =>
          \A i \in Ids : /\ stop[i] = "empty" <=> stage[i] = "none"
                         /\ stop[i] \in {"sent", "seen"} => shutdown[i]

\* A pairing, trust removal or unmount only ever waits for a task that has
\* been told to stop or has already reported its end; nothing else would
\* perform it and answer its client.  (Quit drops the waiting actions.)
ManagementAwaitsStop ==
    mgr = "running" =>
        \A i \in Ids : pendingManagement[i] # "none" =>
            /\ i \in running
            /\ stop[i] \in {"sent", "seen"} \/ i \in Reported

\* The focused selection always has a session in the registry, although
\* Forget removes sessions and Disconnect moves the focus.
FocusRegistered == active # NoId => active \in sessions

\* The phases that fit what the task of a selection does.
LivePhase(i) ==
    CASE stage[i] = "starting" -> phase[i] = "connecting"
      [] stage[i] \in {"managing", "streaming", "closing"} -> phase[i] = "connected"
      [] stage[i] = "stopping" -> phase[i] = "disconnecting"
      [] stage[i] = "backoff" -> phase[i] = "recovering"
      [] OTHER -> phase[i] \in {"discovered", "connecting", "disconnected"}

\* The phase a client reads is the one of the live task, although the manager
\* writes the same slot for Connect, Disconnect, Pair and a refused transport.
PhaseTruthful == mgr # "stopped" => \A i \in Ids : LivePhase(i)

\* "The runtime prevents competing active transports for the same physical
\* device": the running selections belong to different devices.
OneTransportPerDevice ==
    \A i, j \in running : i[1] = j[1] => i = j

\* A session leaves the registry only when no task uses its slots: trust
\* removal waits for the task (perform_management_action after Ended).
RemovalAfterTask ==
    [][\A i \in sessions \ sessions' : stage[i] = "none" /\ i \notin running']_vars

\* A requested stop ends the task, whatever the task was doing.
StopCompletes ==
    \A i \in Selections : stop[i] \in {"sent", "seen"} ~> (stage[i] = "none")

\* A management action that waits for a session is eventually performed (or
\* replaced, or the runtime quits).
ManagementServed ==
    \A i \in Selections : pendingManagement[i] # "none" ~>
                             (pendingManagement[i] = "none" \/ mgr = "stopped")

\* Quit terminates, whether or not the devices answer: stop_all_sessions
\* waits no longer than SWITCH_GRACE.
QuitTerminates == mgr = "quitting" ~> mgr = "stopped"

\* The selections that the identifier given at startup names: a bare UDID
\* names every transport of its device.
NamedAtStartup ==
    {i \in Selections : \/ i = InitialSelection
                        \/ InitialSelection = <<i[1], "bare">>}

\* The device named at startup is connected once discovery keeps reporting it
\* ("Request a specific UDID by passing it after --"), as long as no client
\* asks for something else and the runtime does not quit.
InitialDeviceConnects ==
    <>[](endpoints \cap NamedAtStartup # {})
        => <>(mgr # "running" \/ running \cap NamedAtStartup # {})

-----------------------------------------------------------------------------
(* Refinement: what a client and the manager see of a selection.           *)

UseOf(i) ==
    IF stage[i] # "none" THEN "session" ELSE IF i \in running THEN "over" ELSE "free"

Used == [i \in Ids |-> UseOf(i)]

Told == [i \in Ids |-> stage[i] # "none" /\ stop[i] \in {"sent", "seen"}]

Life == INSTANCE SessionLife WITH
    DeviceOf <- [i \in Ids |-> i[1]],
    Actions <- ManagementActions,
    MayOverlap <- DiscoveryLosesLive,
    manager <- mgr,
    use <- Used,
    told <- Told,
    waiting <- pendingManagement,
    registered <- sessions,
    shown <- phase

\* The manager and its tasks keep the promise of a session's life: no session
\* and no management action ever meet on a device, a waiting action is carried
\* out when the end of its session is accounted for and not before, and every
\* published phase follows the ones a client was shown before.
LifePromise == Life!LifeSpec
=============================================================================
