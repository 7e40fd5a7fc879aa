----------------------------- MODULE AppControl -----------------------------
(***************************************************************************)
(* Application management (applications/manager.rs) of one session: lists, *)
(* which run in the command loop over the clients the session keeps, and   *)
(* launches and stops, which run in tasks of their own, one at a time,     *)
(* over connections of their own.  Uninstalling is in ManagedOperations.   *)
(*                                                                         *)
(* A call that fails or times out may have had its effect on the device.   *)
(***************************************************************************)
EXTENDS Naturals, Sequences, FiniteSets

CONSTANTS
    AppAsks,      \* requests of HTTP and MCP handlers
    Bundles,      \* applications
    NoAppAsk

ASSUME AppAssumption == NoAppAsk \notin AppAsks

VARIABLES
    appQueue,     \* the session's command channel
    listing,      \* the list command in the loop and its step
    appClients,   \* the clients that are connected
    control,      \* AppControlSlot: is it taken?
    appAsked,     \* the command of each request
    appCaller,    \* what its caller knows
    controls,     \* the step of each launch or stop
    runningApps,  \* applications that run on the device
    launched,     \* how often the device launched an app for each request
    answeredBy    \* which client a list was answered from

appVars == <<appQueue, listing, appClients, control, appAsked, appCaller, controls, runningApps, launched, answeredBy>>

NotListing == [id |-> NoAppAsk, step |-> "none"]
AppCommands == [op : {"list"}, on : {"user", "extended"}] \cup [op : {"launch", "stop"}, on : Bundles]

\* AppClientSet: what could be connected when the session started.
AppInit ==
    /\ appQueue = <<>> /\ listing = NotListing /\ appClients \in SUBSET {"service", "proxy"}
    /\ control = FALSE /\ appAsked = [r \in AppAsks |-> [op |-> "none", on |-> "none"]]
    /\ appCaller = [r \in AppAsks |-> "new"] /\ controls = [r \in AppAsks |-> "none"]
    /\ runningApps \in SUBSET Bundles /\ launched = [r \in AppAsks |-> 0] /\ answeredBy = [r \in AppAsks |-> "none"]

AskApp(r, cmd) ==
    /\ appCaller[r] = "new" /\ appCaller' = [appCaller EXCEPT ![r] = "waiting"]
    /\ appAsked' = [appAsked EXCEPT ![r] = cmd] /\ appQueue' = Append(appQueue, r)
    /\ UNCHANGED <<listing, appClients, control, controls, runningApps, launched, answeredBy>>

\* APP_LIST_REQUEST_TIMEOUT or APP_CONTROL_REQUEST_TIMEOUT, or the client left.
AppCallerLeaves(r) ==
    /\ appCaller[r] = "waiting" /\ appCaller' = [appCaller EXCEPT ![r] = "gone"]
    /\ UNCHANGED <<appQueue, listing, appClients, control, appAsked, controls, runningApps, launched, answeredBy>>

TellApp(r, a) == appCaller' = [appCaller EXCEPT ![r] = IF @ = "waiting" THEN a ELSE @]

----------------------------------------------------------------------------
(* AppManagement::handle                                                   *)

\* AppControlSlot::try_start; the lease goes into the task, and the session
\* gives up the client it has.
TryStart(r) ==
    IF control THEN TellApp(r, "err") /\ UNCHANGED <<control, appClients, controls>>
    ELSE /\ control' = TRUE /\ appClients' = appClients \ {"service"}
         /\ controls' = [controls EXCEPT ![r] = IF appAsked[r].op = "launch" THEN "dvt" ELSE "connect"] /\ UNCHANGED appCaller

TakeApp ==
    /\ listing = NotListing /\ appQueue # <<>> /\ appQueue' = Tail(appQueue)
    /\ LET r == Head(appQueue)
       IN \/ /\ appAsked[r].op = "list" /\ UNCHANGED <<control, appClients, controls, appCaller>>
             /\ listing' = IF appCaller[r] = "waiting" THEN [id |-> r, step |-> "first"] ELSE NotListing
          \/ appAsked[r].op # "list" /\ TryStart(r) /\ UNCHANGED listing
    /\ UNCHANGED <<appAsked, runningApps, launched, answeredBy>>

----------------------------------------------------------------------------
(* list_apps                                                               *)

WideScope(r) == appAsked[r].on = "extended"

ListEnds(r, a) == listing' = NotListing /\ TellApp(r, a)

\* list_user_apps_via_installation_proxy, or list_device_apps: system apps
\* and App Clips come from AppService only.
Lister(r) == IF WideScope(r) THEN "service" ELSE "proxy"
ListApps(ok) ==
    /\ listing.step \in {"first", "retry"} /\ (ok => Lister(listing.id) \in appClients)
    /\ LET r == listing.id
       IN IF ok THEN ListEnds(r, "ok") /\ answeredBy' = [answeredBy EXCEPT ![r] = Lister(r)]
          ELSE IF listing.step = "first" /\ appCaller[r] = "waiting"
          THEN listing' = [listing EXCEPT !.step = "reconnect"] /\ UNCHANGED <<appCaller, answeredBy>>
          ELSE ListEnds(r, "err") /\ UNCHANGED answeredBy
    /\ UNCHANGED <<appQueue, appClients, control, appAsked, controls, runningApps, launched>>

\* reconnect_installation_proxy, or reconnect_app_clients, which needs one of
\* the two.
ReconnectClients(got) ==
    /\ listing.step = "reconnect"
    /\ LET r == listing.id
           old == IF WideScope(r) THEN {"service", "proxy"} ELSE {"proxy"}
       IN /\ got \subseteq old /\ appClients' = (appClients \ old) \cup got
          /\ IF got # {} THEN listing' = [listing EXCEPT !.step = "retry"] /\ UNCHANGED appCaller
             ELSE ListEnds(r, "err")
    /\ UNCHANGED <<appQueue, control, appAsked, controls, runningApps, launched, answeredBy>>

----------------------------------------------------------------------------
(* launch_device_app and stop_device_app_isolated                          *)

Controlled(r, step) == controls' = [controls EXCEPT ![r] = step]
ControlEnds(r, a) == Controlled(r, "done") /\ control' = FALSE /\ TellApp(r, a)
controlUnchanged == <<appQueue, listing, appClients, appAsked, answeredBy>>

\* launch_device_app_via_dvt finds DVT unavailable, or attempts the launch.
DvtConnects(r, ok) ==
    /\ controls[r] = "dvt" /\ Controlled(r, IF ok THEN "dvt launch" ELSE "connect")
    /\ UNCHANGED <<controlUnchanged, control, appCaller, runningApps, launched>>

\* connect_app_control.
ControlConnects(r, ok) ==
    /\ controls[r] = "connect"
    /\ IF ok THEN Controlled(r, IF appAsked[r].op = "launch" THEN "launch" ELSE "resolve") /\ UNCHANGED <<control, appCaller>>
       ELSE ControlEnds(r, "err")
    /\ UNCHANGED <<controlUnchanged, runningApps, launched>>

\* The device launches the app, whether or not its answer comes in time.
DeviceLaunches(r) ==
    /\ runningApps' = runningApps \cup {appAsked[r].on} /\ launched' = [launched EXCEPT ![r] = @ + 1]

MutantAfterAttempt(r, a) == IF a = "ok" \/ controls[r] = "launch" THEN ControlEnds(r, a) ELSE Controlled(r, "connect") /\ UNCHANGED <<control, appCaller>>
\* DvtLaunchOutcome::Attempted: there is no second attempt over CoreDevice.
AfterAttempt(r, a) == ControlEnds(r, a)

LaunchApp(r, a) ==
    /\ controls[r] \in {"dvt launch", "launch"} /\ AfterAttempt(r, a)
    /\ IF a = "ok" THEN DeviceLaunches(r) ELSE DeviceLaunches(r) \/ UNCHANGED <<runningApps, launched>>
    /\ UNCHANGED controlUnchanged

\* stop_device_app: the app's processes are found, killed, and looked for
\* again until none is left or three seconds have passed.
ResolveApp(r, ok) ==
    /\ controls[r] = "resolve"
    /\ IF ok /\ appAsked[r].on \in runningApps THEN Controlled(r, "signal") /\ UNCHANGED <<control, appCaller>>
       ELSE ControlEnds(r, IF ok THEN "ok" ELSE "err")
    /\ UNCHANGED <<controlUnchanged, runningApps, launched>>
KillApp(r, ok) ==
    /\ controls[r] = "signal" /\ Controlled(r, "verify")
    /\ runningApps' = IF ok THEN runningApps \ {appAsked[r].on} ELSE runningApps
    /\ UNCHANGED <<controlUnchanged, control, appCaller, launched>>
VerifyStopped(r, timely) ==
    /\ controls[r] = "verify"
    /\ ControlEnds(r, IF timely /\ appAsked[r].on \notin runningApps THEN "ok" ELSE "err")
    /\ UNCHANGED <<controlUnchanged, runningApps, launched>>

\* Its user starts or leaves an app.
UserTouches(b) ==
    /\ runningApps' = IF b \in runningApps THEN runningApps \ {b} ELSE runningApps \cup {b}
    /\ UNCHANGED <<controlUnchanged, control, appCaller, controls, launched>>

AppNext ==
    \/ \E r \in AppAsks :
        \/ \E cmd \in AppCommands : AskApp(r, cmd)
        \/ AppCallerLeaves(r)
        \/ \E ok \in BOOLEAN : DvtConnects(r, ok) \/ ControlConnects(r, ok) \/ ResolveApp(r, ok) \/ KillApp(r, ok) \/ VerifyStopped(r, ok)
        \/ \E a \in {"ok", "err"} : LaunchApp(r, a)
    \/ TakeApp \/ (\E ok \in BOOLEAN : ListApps(ok)) \/ (\E got \in SUBSET {"service", "proxy"} : ReconnectClients(got))
    \/ \E b \in Bundles : UserTouches(b)

----------------------------------------------------------------------------
\* A launch or stop has the device to itself, and a launch is carried out at
\* most once: a DVT launch that timed out after it had its effect is not
\* repeated over CoreDevice.
ControlledOnce ==
    /\ \A r \in AppAsks : launched[r] <= 1
    /\ Cardinality({r \in AppAsks : controls[r] \notin {"none", "done"}}) = IF control THEN 1 ELSE 0
==============================================================================
