----------------------------- MODULE WdaServices -----------------------------
(***************************************************************************)
(* WebDriverAgent: the service that runs a WDA XCTest runner on the device *)
(* (applications/wda_runner.rs) and the one that sends it commands         *)
(* (applications/wda_automation.rs), over two sessions of a device.  A     *)
(* runner goes by the request that started it.                             *)
(*                                                                         *)
(* A startup is a task of its own that cannot be interrupted: stopping     *)
(* waits for it, up to 30 seconds, while the supervisor of the session     *)
(* aborts a service after 3.                                               *)
(***************************************************************************)
EXTENDS Naturals, Sequences, FiniteSets

CONSTANTS
    RunnerAsks,    \* requests to start or stop the runner
    WdaAsks,       \* automation requests
    NoRunner,
    NoWda,
    MaxRunnerSessions  \* bound: sessions of the device

ASSUME WdaAssumption == NoRunner \notin RunnerAsks /\ NoWda \notin WdaAsks /\ MaxRunnerSessions \in Nat \ {0}

VARIABLES
    wdaSessions,   \* sessions of the device so far
    serving,       \* the runner service: "running", "stopping", "ending" or "ended"
    runnerQueue,   \* its channel
    runnerAsked,   \* what each request asks for
    runnerCaller,  \* what its caller knows
    startup,       \* Startup: the runner whose task is awaited
    managedRunner, \* the RunningRunner
    stopper,       \* the Stop command that waits for a startup
    runnerPhase,   \* WdaRunnerStatus
    runnerOp,      \* the managed operation: "none", "active" or "ended"
    runs,          \* where each runner's task and XCTest run are
    wdaQueue,      \* the channel of the automation service
    wdaJob,        \* its command and the calls left
    wdaAsked, wdaCaller,
    wdaClient      \* the client's session: NoRunner, or the runner it is with

runnerVars == <<serving, runnerQueue, runnerAsked, runnerCaller, startup, managedRunner, stopper, runnerPhase, runnerOp, runs>>
automationVars == <<wdaQueue, wdaJob, wdaAsked, wdaCaller, wdaClient>>
wdaVars == <<wdaSessions, runnerVars, automationVars>>

NoWdaJob == [id |-> NoWda, calls |-> <<>>]

WdaInit ==
    /\ wdaSessions = 1 /\ serving = "running" /\ runnerQueue = <<>>
    /\ runnerAsked = [r \in RunnerAsks |-> "none"] /\ runnerCaller = [r \in RunnerAsks |-> "new"]
    /\ startup = NoRunner /\ managedRunner = NoRunner /\ stopper = NoRunner
    /\ runnerPhase = "stopped" /\ runnerOp = "none" /\ runs = [r \in RunnerAsks |-> "none"]
    /\ wdaQueue = <<>> /\ wdaJob = NoWdaJob /\ wdaAsked = [r \in WdaAsks |-> "none"]
    /\ wdaCaller = [r \in WdaAsks |-> "new"] /\ wdaClient = NoRunner

\* An XCTest run is on the device, and answers.
OnDevice(r) == runs[r] \in {"booting", "ready", "returned"}
Responds(r) == runs[r] \in {"ready", "returned"}
Reachable == \E r \in RunnerAsks : Responds(r)

----------------------------------------------------------------------------
(* serve_wda_runner                                                        *)

\* wda_start, wda_stop and their HTTP handlers.
AskRunner(r, op) ==
    /\ serving # "ended" /\ runnerCaller[r] = "new"
    /\ runnerAsked' = [runnerAsked EXCEPT ![r] = op] /\ runnerCaller' = [runnerCaller EXCEPT ![r] = "waiting"]
    /\ runnerQueue' = Append(runnerQueue, r)
    /\ UNCHANGED <<wdaSessions, serving, startup, managedRunner, stopper, runnerPhase, runnerOp, runs, automationVars>>

\* WDA_RUNNER_START_TIMEOUT, DEVICE_REQUEST_TIMEOUT or APP_WAIT.
RunnerCallerLeaves(r) ==
    /\ runnerCaller[r] = "waiting" /\ runnerCaller' = [runnerCaller EXCEPT ![r] = "gone"]
    /\ UNCHANGED <<wdaSessions, serving, runnerQueue, runnerAsked, startup, managedRunner, stopper, runnerPhase, runnerOp, runs, automationVars>>

TellRunner(rs, a) == runnerCaller' = [r \in RunnerAsks |-> IF r \in rs /\ runnerCaller[r] = "waiting" THEN a ELSE runnerCaller[r]]

\* Start: one runner at a time; a task probes and starts it.
TakeRunnerStart ==
    /\ serving = "running" /\ runnerQueue # <<>> /\ runnerAsked[Head(runnerQueue)] = "start"
    /\ runnerQueue' = Tail(runnerQueue)
    /\ LET r == Head(runnerQueue)
       IN IF startup # NoRunner \/ managedRunner # NoRunner
          THEN TellRunner({r}, "err") /\ UNCHANGED <<startup, runnerPhase, runnerOp, runs>>
          ELSE /\ startup' = r /\ runs' = [runs EXCEPT ![r] = "probing"]
               /\ runnerPhase' = "starting" /\ runnerOp' = "active" /\ UNCHANGED runnerCaller
    /\ UNCHANGED <<wdaSessions, serving, runnerAsked, managedRunner, stopper, automationVars>>

\* start_runner refuses when a WDA answers already, when no developer image
\* is mounted, and for an app that is not a developer's runner.
Preflight(r, ok) ==
    /\ runs[r] = "probing" /\ (ok => ~Reachable)
    /\ runs' = [runs EXCEPT ![r] = IF ok THEN "booting" ELSE "failed"]
    /\ UNCHANGED <<wdaSessions, serving, runnerQueue, runnerAsked, runnerCaller, startup, managedRunner, stopper, runnerPhase, runnerOp, automationVars>>

\* run_until_wda_ready: WDA answers, or the run ended or took too long.
Boots(r, ok) ==
    /\ runs[r] = "booting" /\ runs' = [runs EXCEPT ![r] = IF ok THEN "ready" ELSE "failed"]
    /\ UNCHANGED <<wdaSessions, serving, runnerQueue, runnerAsked, runnerCaller, startup, managedRunner, stopper, runnerPhase, runnerOp, automationVars>>

Finished(r) == runs[r] \in {"ready", "failed"}

\* wait_startup: the task's RunningRunner is kept, or fail_startup.
StartupDone ==
    /\ serving = "running" /\ startup # NoRunner /\ Finished(startup)
    /\ startup' = NoRunner
    /\ IF runs[startup] = "ready"
       THEN /\ managedRunner' = startup /\ runs' = [runs EXCEPT ![startup] = "returned"]
            /\ runnerPhase' = "running" /\ TellRunner({startup}, "ok") /\ UNCHANGED runnerOp
       ELSE /\ runnerPhase' = "failed" /\ runnerOp' = "ended" /\ TellRunner({startup}, "err")
            /\ UNCHANGED <<managedRunner, runs>>
    /\ UNCHANGED <<wdaSessions, serving, runnerQueue, runnerAsked, stopper, automationVars>>

\* wait_runner: the runner does not answer a probe in time, or at all; it is
\* stopped (RunningRunner::stop aborts the run).
RunnerLost ==
    /\ serving = "running" /\ managedRunner # NoRunner
    /\ runs' = [runs EXCEPT ![managedRunner] = "ended"] /\ managedRunner' = NoRunner
    /\ runnerPhase' = "failed" /\ runnerOp' = "ended"
    /\ UNCHANGED <<wdaSessions, serving, runnerQueue, runnerAsked, runnerCaller, startup, stopper, automationVars>>

MutantStops(next) ==
    /\ serving' = next /\ startup' = NoRunner /\ managedRunner' = NoRunner
    /\ runs' = [r \in RunnerAsks |-> IF r = managedRunner THEN "ended" ELSE runs[r]]

\* stop_runner_tasks, once no startup is left to wait for: a runner that a
\* startup returned at the last moment is stopped, and the managed one.
Stops(next) ==
    /\ startup # NoRunner => Finished(startup)
    /\ serving' = next /\ startup' = NoRunner /\ managedRunner' = NoRunner
    /\ runs' = [r \in RunnerAsks |-> IF r \in {startup, managedRunner} THEN "ended" ELSE runs[r]]

\* Stop: the service does nothing else until the startup has ended.
TakeRunnerStop ==
    /\ serving = "running" /\ runnerQueue # <<>> /\ runnerAsked[Head(runnerQueue)] = "stop"
    /\ runnerQueue' = Tail(runnerQueue) /\ serving' = "stopping" /\ stopper' = Head(runnerQueue)
    /\ UNCHANGED <<wdaSessions, runnerAsked, runnerCaller, startup, managedRunner, runnerPhase, runnerOp, runs, automationVars>>
StopDone ==
    /\ serving = "stopping" /\ Stops("running") /\ stopper' = NoRunner /\ runnerPhase' = "stopped"
    /\ runnerOp' = IF runnerOp = "active" THEN "ended" ELSE runnerOp
    /\ runnerCaller' = [r \in RunnerAsks |->
           IF runnerCaller[r] # "waiting" THEN runnerCaller[r]
           ELSE CASE r = stopper -> "ok" [] r = startup -> "err" [] OTHER -> runnerCaller[r]]
    /\ UNCHANGED <<wdaSessions, runnerQueue, runnerAsked, automationVars>>

\* Shutdown is seen between two commands; then the same clean-up.
SeesShutdown ==
    /\ serving = "running" /\ serving' = "ending"
    /\ UNCHANGED <<wdaSessions, runnerQueue, runnerAsked, runnerCaller, startup, managedRunner, stopper, runnerPhase, runnerOp, runs, automationVars>>
RunnerServiceEnds ==
    /\ serving = "ending" /\ Stops("ended") /\ runnerQueue' = <<>>
    /\ runnerOp' = IF runnerOp = "active" THEN "ended" ELSE runnerOp
    /\ TellRunner(RunnerAsks, "err") /\ runnerPhase' = "stopped"
    /\ UNCHANGED <<wdaSessions, runnerAsked, stopper, automationVars>>

\* The supervisor aborts the service: RunningRunner's drop aborts the managed
\* run; the startup task is detached and goes on.
RunnerServiceAborted ==
    /\ serving \in {"stopping", "ending"} /\ serving' = "ended"
    /\ runs' = [r \in RunnerAsks |-> IF r = managedRunner THEN "ended" ELSE runs[r]]
    /\ startup' = NoRunner /\ managedRunner' = NoRunner /\ stopper' = NoRunner /\ runnerQueue' = <<>>
    /\ TellRunner(RunnerAsks, "err") /\ runnerPhase' = "stopped"
    /\ UNCHANGED <<wdaSessions, runnerAsked, runnerOp, automationVars>>

\* The runner that a detached startup returns is dropped, and so aborted.
OrphanDropped(r) ==
    /\ runs[r] = "ready" /\ startup # r /\ runs' = [runs EXCEPT ![r] = "ended"]
    /\ UNCHANGED <<wdaSessions, serving, runnerQueue, runnerAsked, runnerCaller, startup, managedRunner, stopper, runnerPhase, runnerOp, automationVars>>

\* The next session of the device; the registry of operations is replaced.
NextWdaSession ==
    /\ serving = "ended" /\ wdaSessions < MaxRunnerSessions /\ wdaSessions' = wdaSessions + 1
    /\ serving' = "running" /\ runnerOp' = "none" /\ wdaClient' = NoRunner
    /\ wdaQueue' = <<>> /\ wdaJob' = NoWdaJob
    /\ wdaCaller' = [r \in WdaAsks |-> IF wdaCaller[r] = "waiting" THEN "err" ELSE wdaCaller[r]]
    /\ UNCHANGED <<runnerQueue, runnerAsked, runnerCaller, startup, managedRunner, stopper, runnerPhase, runs, wdaAsked>>

----------------------------------------------------------------------------
(* serve_wda_automation                                                    *)

WdaCommands == {"status", "source", "state", "unlock", "find", "inspect", "wait", "click", "type"}

\* The calls of handle_command after ensure_session.  read_device_state:
StateCalls == {<<"locked", "orientation", "window">>}
\* unlock_device asks again after unlocking.
UnlockCalls == {<<"locked", "locked">>, <<"locked", "unlock", "locked">>}
\* find_element_ids and resolve_element; a rectangle that cannot be read is
\* left out.
FindCalls == <<"find">>
\* inspect_element.
InspectCalls == {FindCalls \o <<"attributes">>}
\* wait_for_element polls until the element is as expected or time is up.
WaitCalls == InspectCalls \cup {FindCalls \o <<"attributes">> \o FindCalls \o <<"attributes">>}
CallsOf(op) ==
    CASE op = "state" -> StateCalls
      [] op = "unlock" -> UnlockCalls
      [] op = "find" -> {FindCalls}
      [] op = "inspect" -> InspectCalls
      [] op = "wait" -> WaitCalls
      [] op = "click" -> {FindCalls \o <<"act">>}
      [] OTHER -> {<<"act">>}

AskWda(r, op) ==
    /\ serving # "ended" /\ wdaCaller[r] = "new" /\ wdaAsked' = [wdaAsked EXCEPT ![r] = op]
    /\ wdaCaller' = [wdaCaller EXCEPT ![r] = "waiting"] /\ wdaQueue' = Append(wdaQueue, r)
    /\ UNCHANGED <<wdaSessions, runnerVars, wdaJob, wdaClient>>

\* expires_at passes: WDA_COMMAND_DEADLINE.
WdaExpires(r) ==
    /\ wdaCaller[r] = "waiting" /\ wdaCaller' = [wdaCaller EXCEPT ![r] = "expired"]
    /\ UNCHANGED <<wdaSessions, runnerVars, wdaQueue, wdaJob, wdaAsked, wdaClient>>

TellWda(r, a) == wdaCaller' = [wdaCaller EXCEPT ![r] = IF @ = "waiting" THEN a ELSE @]

\* An expired command is rejected; the others start with the client there is.
TakeWda ==
    /\ wdaJob = NoWdaJob /\ wdaQueue # <<>> /\ serving # "ended" /\ wdaQueue' = Tail(wdaQueue)
    /\ LET r == Head(wdaQueue)
       IN IF wdaCaller[r] = "expired" THEN UNCHANGED wdaJob
          ELSE \E calls \in CallsOf(wdaAsked[r]) : wdaJob' = [id |-> r, calls |-> calls]
    /\ UNCHANGED <<wdaSessions, runnerVars, wdaAsked, wdaCaller, wdaClient>>

NeedsSession == wdaAsked[wdaJob.id] # "status"

\* ensure_session.
StartSession ==
    /\ wdaJob # NoWdaJob /\ NeedsSession /\ wdaClient = NoRunner
    /\ \E r \in RunnerAsks : Responds(r) /\ wdaClient' = r
    /\ UNCHANGED <<wdaSessions, runnerVars, wdaQueue, wdaJob, wdaAsked, wdaCaller>>

\* within(expires_at, ..): a session is with one run of WDA, and gone with it.
WdaCall ==
    /\ wdaJob # NoWdaJob /\ wdaCaller[wdaJob.id] # "expired"
    /\ IF NeedsSession THEN wdaClient # NoRunner /\ Responds(wdaClient) ELSE Reachable
    /\ IF Len(wdaJob.calls) > 1 THEN wdaJob' = [wdaJob EXCEPT !.calls = Tail(@)] /\ UNCHANGED wdaCaller
       ELSE wdaJob' = NoWdaJob /\ TellWda(wdaJob.id, "ok")
    /\ UNCHANGED <<wdaSessions, runnerVars, wdaQueue, wdaAsked, wdaClient>>

\* A call fails or the command expires: the session is closed and the next
\* command starts with a new client.
WdaFails ==
    /\ wdaJob # NoWdaJob /\ wdaJob' = NoWdaJob /\ TellWda(wdaJob.id, "err") /\ wdaClient' = NoRunner
    /\ UNCHANGED <<wdaSessions, runnerVars, wdaQueue, wdaAsked>>

RunnerNext(rs) ==
    \/ \E r \in rs :
        \/ \E op \in {"start", "stop"} : AskRunner(r, op)
        \/ RunnerCallerLeaves(r) \/ OrphanDropped(r)
        \/ \E ok \in BOOLEAN : Preflight(r, ok) \/ Boots(r, ok)
    \/ TakeRunnerStart \/ StartupDone \/ RunnerLost \/ TakeRunnerStop \/ StopDone
    \/ SeesShutdown \/ RunnerServiceEnds \/ RunnerServiceAborted \/ NextWdaSession
AutomationNext ==
    \/ \E r \in WdaAsks : (\E op \in WdaCommands : AskWda(r, op)) \/ WdaExpires(r)
    \/ TakeWda \/ StartSession \/ WdaCall \/ WdaFails

----------------------------------------------------------------------------
\* "Keep the handle supervised by the DeviceHub service on every exit path":
\* a run on the device belongs to the startup the service waits for, is the
\* one it manages, or belongs to a startup that an aborted service left
\* behind.  Within the first session there is at most one, and the service
\* has an active operation as long as it manages a run.
RunnerAccounted ==
    /\ \A r \in RunnerAsks : runs[r] = "returned" => r = managedRunner
    /\ managedRunner # NoRunner => runs[managedRunner] = "returned" /\ startup = NoRunner
    /\ wdaSessions = 1 => Cardinality({r \in RunnerAsks : OnDevice(r)}) <= 1
    /\ serving # "ended" => ((startup # NoRunner \/ managedRunner # NoRunner) <=> runnerOp = "active")
    /\ serving = "running" => (runnerPhase \in {"starting", "running"} <=> runnerOp = "active")
==============================================================================
