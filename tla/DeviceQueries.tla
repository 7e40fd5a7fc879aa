---------------------------- MODULE DeviceQueries ----------------------------
(***************************************************************************)
(* The services of a session that answer requests by asking the device:    *)
(* provisioning profiles, home screen, paired companions, app icons,       *)
(* screenshots, running processes and app lifecycle.  Each takes one       *)
(* command at a time from a channel of its own and most keep the client    *)
(* they connected for the next command.                                    *)
(*                                                                         *)
(* The protocols carry no request ids: an answer is whatever arrives next. *)
(* A call that timed out leaves its answer to be read by whoever uses the  *)
(* same connection next, so a client is "clean", or "late" when an answer  *)
(* that nobody waits for is still to come.                                 *)
(***************************************************************************)
EXTENDS Naturals, Sequences, FiniteSets, SequencesExt

CONSTANTS
    Services,   \* which of them are looked at
    Requests,   \* requests of HTTP and MCP handlers
    Profiles,   \* provisioning profiles
    Sound,      \* those that are valid, unexpired development profiles
    MaxCached,  \* MAX_CACHE_ENTRIES of the icon cache
    MaxWaiting, \* capacity of a service's channel
    NoRequest

ASSUME QueriesAssumption == Sound \subseteq Profiles /\ {MaxCached, MaxWaiting} \subseteq Nat \ {0} /\ NoRequest \notin Requests

VARIABLES
    service,    \* the service this behaviour is about
    running,    \* has the session not ended?
    clients,    \* "none", "clean" or "late" for each connection
    channel,    \* requests the service has not taken
    job,        \* the command it works on
    caller,     \* what the sender of each request knows
    asked,      \* the command of each request
    mixed,      \* requests answered with the answer to another one
    taken,      \* requests whose caller was there when they were taken
    changed,    \* requests that made the device change something
    installed,  \* profiles on the device
    core,       \* the CoreDevice icon source: failures in a row, disabled?
    cache       \* icons, oldest first

queryVars == <<service, running, clients, channel, job, caller, asked, mixed, taken, changed, installed, core, cache>>

Connections == {"main", "core", "springboard", "screenshotr", "dvt"}
NoJob == [id |-> NoRequest, sources |-> <<>>, todo |-> <<>>, tainted |-> FALSE, found |-> {}]

Command(op) == [op |-> op, profile |-> "none"]

----------------------------------------------------------------------------
(* What each command asks of the device, call by call                      *)

\* supervise_provisioning and handle_command.
ProvisioningCommands ==
    {Command("list")} \cup [op : {"install", "remove", "trust"}, profile : Profiles]
ProvisioningCalls(cmd) ==
    CASE cmd.op = "list" -> <<"copy_all">>
      [] cmd.op = "install" -> <<"install", "verify">>
      [] cmd.op = "remove" -> <<"find", "remove", "verify">>
      [] OTHER -> <<"find", "trust">>

\* load_layout and load_wallpaper; the icon metrics come over a connection of
\* their own and may be missing.
HomeScreenCalls(cmd) == IF cmd.op = "layout" THEN <<"icon_state">> ELSE <<"wallpaper">>
\* list_companions: what cannot be read of one companion is left out.
CompanionCalls == <<"registry", "value">>
\* load_processes and inspect_process; wait_for_process polls until its time
\* is up.
ProcessCalls(cmd) ==
    CASE cmd.op = "processes" -> {<<"running">>}
      [] cmd.op = "inspect" -> {<<"is_running", "name">>}
      [] OTHER -> {<<"is_running", "name">>, <<"is_running", "is_running", "name">>}
\* inspect_app and wait_for_app.
LifecycleCalls(cmd) ==
    IF cmd.op = "inspect" THEN {<<"apps", "processes">>}
    ELSE {<<"apps", "processes">>, <<"apps", "processes", "processes">>}

Commands ==
    CASE service = "provisioning" -> ProvisioningCommands
      [] service = "home" -> {Command("layout"), Command("wallpaper")}
      [] service = "companions" -> {Command("list")}
      [] service = "icons" -> {Command("bundle a"), Command("bundle b")}
      [] service = "screenshot" -> {Command("capture")}
      [] service = "processes" -> {Command("processes"), Command("inspect"), Command("wait")}
      [] OTHER -> {Command("inspect"), Command("wait")}

Calls(cmd) ==
    CASE service = "provisioning" -> {ProvisioningCalls(cmd)}
      [] service = "home" -> {HomeScreenCalls(cmd)}
      [] service = "companions" -> {CompanionCalls}
      [] service = "processes" -> ProcessCalls(cmd)
      [] service = "lifecycle" -> LifecycleCalls(cmd)
      [] OTHER -> {<<"fetch">>}

\* capture tries the client it has, then CoreDevice, screenshotr and DVT;
\* fetch_icon tries CoreDevice unless it is disabled, then SpringBoard.
ScreenshotSources ==
    (IF clients["core"] # "none" THEN <<"core">>
     ELSE IF clients["screenshotr"] # "none" THEN <<"screenshotr">> ELSE <<>>)
    \o <<"core", "screenshotr", "dvt">>
IconSources == IF core.disabled THEN <<"springboard">> ELSE <<"core", "springboard">>
Sources ==
    CASE service = "screenshot" -> ScreenshotSources
      [] service = "icons" -> IconSources
      [] OTHER -> <<"main">>

\* Processes and lifecycle connect for every command, capture_dvt too.
ConnectsEachTime(c) == service \in {"processes", "lifecycle"} \/ c = "dvt"

----------------------------------------------------------------------------
QueryInit ==
    /\ service \in Services /\ running = TRUE
    /\ clients = [c \in Connections |-> "none"] /\ channel = <<>> /\ job = NoJob
    /\ caller = [r \in Requests |-> "new"] /\ asked = [r \in Requests |-> Command("none")]
    /\ mixed = {} /\ taken = {} /\ changed = {} /\ installed \in SUBSET Profiles
    /\ core = [failures |-> 0, disabled |-> FALSE] /\ cache = <<>>

deviceVars == <<changed, installed>>
iconVars == <<core, cache>>

\* A handler sends a command and waits for the reply; the router rejects it
\* when the channel of the service is full.
Ask(r, cmd) ==
    /\ running /\ caller[r] = "new" /\ cmd \in Commands /\ asked' = [asked EXCEPT ![r] = cmd]
    /\ IF Len(channel) < MaxWaiting
       THEN caller' = [caller EXCEPT ![r] = "waiting"] /\ channel' = Append(channel, r)
       ELSE caller' = [caller EXCEPT ![r] = "err"] /\ UNCHANGED channel
    /\ UNCHANGED <<service, running, clients, job, mixed, taken, deviceVars, iconVars>>

\* It gives up: await_response times out, or its own client is gone.
GiveUp(r) ==
    /\ caller[r] = "waiting" /\ caller' = [caller EXCEPT ![r] = "gone"]
    /\ UNCHANGED <<service, running, clients, channel, job, asked, mixed, taken, deviceVars, iconVars>>

Reply(r, answer) == [caller EXCEPT ![r] = IF @ = "waiting" THEN answer ELSE @]

\* Only provisioning connects before it reads a command, again and again.
ConnectProvisioning ==
    /\ running /\ service = "provisioning" /\ clients["main"] = "none" /\ job = NoJob
    /\ clients' = [clients EXCEPT !["main"] = "clean"]
    /\ UNCHANGED <<service, running, channel, job, caller, asked, mixed, taken, deviceVars, iconVars>>

MutantActiveReply(r) == TRUE
\* active_reply: a caller that is gone, or a deadline that passed, ends it
\* before the device is asked anything.
ActiveReply(r) == service # "provisioning" \/ caller[r] = "waiting"

\* serve_app_icons answers from its cache.
CachedIcon(r) == service = "icons" /\ asked[r].op \in Range(cache)

\* loader.load and prepare_provisioning_install refuse an unsound file, and an
\* invalid UUID is refused, before the device is asked.
Refused(cmd) == cmd.op = "install" /\ cmd.profile \notin Sound

TakeCommand ==
    /\ running /\ job = NoJob /\ channel # <<>> /\ channel' = Tail(channel)
    /\ service = "provisioning" => clients["main"] # "none"
    /\ LET r == Head(channel) IN
         \/ /\ ~ActiveReply(r) \/ Refused(asked[r]) \/ CachedIcon(r) \/ service = "provisioning"
            /\ caller' = Reply(r, IF CachedIcon(r) THEN "ok" ELSE "err")
            /\ UNCHANGED <<job, taken>>
         \/ /\ ActiveReply(r) /\ ~Refused(asked[r]) /\ ~CachedIcon(r)
            /\ \E calls \in Calls(asked[r]) :
                 job' = [NoJob EXCEPT !.id = r, !.sources = Sources, !.todo = calls]
            /\ taken' = IF caller[r] = "waiting" THEN taken \cup {r} ELSE taken
            /\ UNCHANGED caller
    /\ UNCHANGED <<service, running, clients, asked, mixed, deviceVars, iconVars>>

----------------------------------------------------------------------------
(* One command                                                             *)

Source == Head(job.sources)

Connect ==
    /\ running /\ job # NoJob /\ clients[Source] = "none"
    /\ clients' = [clients EXCEPT ![Source] = "clean"]
    /\ UNCHANGED <<service, running, channel, job, caller, asked, mixed, taken, deviceVars, iconVars>>

\* CoreDeviceIconSource::failed.
CoreFailed(permanent) ==
    [failures |-> core.failures + 1, disabled |-> permanent \/ core.failures + 1 >= 2]

MutantKeepsClient(why) == service \in {"provisioning", "icons"} /\ why # "error"
\* Does a failure leave the client in place?  reconnect_service of provisioning
\* replaces it after timeouts and protocol errors only; a PNG that does not
\* validate keeps the SpringBoard client; everyone else drops it.
KeepsClient(why) ==
    \/ service = "provisioning" /\ why \in {"refused", "trust"}
    \/ service = "icons" /\ Source = "springboard" /\ why = "refused"

\* The call, or the whole command, failed: the next source is tried, else the
\* caller is told.
QueryFails(why, late) ==
    /\ clients' = [clients EXCEPT ![Source] =
                     IF ~KeepsClient(why) THEN "none" ELSE IF late THEN "late" ELSE @]
    /\ IF service = "icons" /\ Source = "core"
       THEN \E unsupported \in BOOLEAN :
              core' = CoreFailed(why \in {"connect", "timeout"} \/ (why = "error" /\ unsupported))
       ELSE UNCHANGED core
    /\ \/ /\ Len(job.sources) > 1
          /\ job' = [job EXCEPT !.sources = Tail(@)] /\ UNCHANGED caller
       \/ /\ Len(job.sources) = 1 /\ job' = NoJob /\ caller' = Reply(job.id, "err")
    /\ UNCHANGED cache

ConnectFails ==
    /\ running /\ job # NoJob /\ clients[Source] = "none" /\ QueryFails("connect", FALSE)
    /\ UNCHANGED <<service, running, channel, asked, mixed, taken, deviceVars>>

\* What the device does for a call that changes it, or fails to do.
Effect(call, profile) ==
    IF call = "install" THEN installed \cup {profile}
    ELSE IF call = "remove" THEN installed \ {profile} ELSE installed
Mutating == {"install", "remove", "trust"}
DoneBy(call) ==
    /\ installed' \in {installed, Effect(call, asked[job.id].profile)}
    /\ changed' = IF call \in Mutating THEN changed \cup {job.id} ELSE changed

\* handle_command looks at what a listing shows: remove and trust need the
\* profile, trust a sound one, and both changes are verified.
Accepts(call, cmd, onDevice) ==
    CASE call = "find" -> cmd.profile \in onDevice /\ (cmd.op = "trust" => cmd.profile \in Sound)
      [] call = "verify" -> (cmd.profile \in onDevice) = (cmd.op = "install")
      [] OTHER -> TRUE

\* Who looks at what arrived: parse_layout and validate_wallpaper_png, the PNG
\* checks of icons and screenshots.
ChecksAnswers == {"home", "icons", "screenshot"}

\* An answer arrives.  On a late client it is the answer to an earlier call.
CallAnswered ==
    /\ running /\ job # NoJob /\ job.todo # <<>> /\ clients[Source] # "none"
    /\ LET call == Head(job.todo) IN
         /\ DoneBy(call)
         /\ \/ /\ Accepts(call, asked[job.id], installed)
               /\ job' = [job EXCEPT !.todo = Tail(@), !.tainted = @ \/ clients[Source] = "late"]
               /\ UNCHANGED <<clients, caller, iconVars>>
            \/ /\ ~Accepts(call, asked[job.id], installed) \/ service \in ChecksAnswers
               /\ QueryFails("refused", FALSE)
    /\ UNCHANGED <<service, running, channel, asked, mixed, taken>>

\* The device reports an error.  Single values of a companion, and the name of
\* a process, may be missing; trust has a connection of its own.
CallFails ==
    /\ running /\ job # NoJob /\ job.todo # <<>> /\ clients[Source] # "none"
    /\ LET call == Head(job.todo) IN
         IF call \in {"value", "name"}
         THEN job' = [job EXCEPT !.todo = Tail(@)] /\ UNCHANGED <<clients, caller, iconVars>>
         ELSE QueryFails(IF call = "trust" THEN "trust" ELSE "error", FALSE)
    /\ UNCHANGED <<service, running, channel, asked, mixed, taken, deviceVars>>

\* The time is up; the device may have done what it was asked, and its answer
\* is still to come.
CallTimesOut ==
    /\ running /\ job # NoJob /\ job.todo # <<>> /\ clients[Source] # "none"
    /\ LET call == Head(job.todo) IN
         /\ DoneBy(call) \/ UNCHANGED deviceVars
         /\ QueryFails(IF call = "trust" THEN "trust" ELSE "timeout", call # "trust")
    /\ UNCHANGED <<service, running, channel, asked, mixed, taken>>

\* IconCache::insert.
Cached(bundle) ==
    Append(IF Len(cache) >= MaxCached THEN SubSeq(cache, Len(cache) - MaxCached + 2, Len(cache)) ELSE cache, bundle)

Finish ==
    /\ running /\ job # NoJob /\ job.todo = <<>>
    /\ job' = NoJob /\ caller' = Reply(job.id, "ok")
    /\ mixed' = IF job.tainted THEN mixed \cup {job.id} ELSE mixed
    /\ clients' = IF ConnectsEachTime(Source) THEN [clients EXCEPT ![Source] = "none"] ELSE clients
    /\ core' = IF service = "icons" /\ Source = "core" THEN [core EXCEPT !.failures = 0] ELSE core
    /\ cache' = IF service = "icons" THEN Cached(asked[job.id].op) ELSE cache
    /\ UNCHANGED <<service, running, channel, asked, taken, deviceVars>>

\* The session ends: the service returns or is aborted, the replies are
\* dropped.
EndQueries ==
    /\ running /\ running' = FALSE /\ job' = NoJob /\ channel' = <<>>
    /\ clients' = [c \in Connections |-> "none"]
    /\ caller' = [r \in Requests |-> IF caller[r] = "waiting" THEN "closed" ELSE caller[r]]
    /\ UNCHANGED <<service, asked, mixed, taken, deviceVars, iconVars>>

QueryNext ==
    \/ \E r \in Requests : GiveUp(r) \/ \E cmd \in Commands : Ask(r, cmd)
    \/ ConnectProvisioning \/ TakeCommand \/ Connect \/ ConnectFails
    \/ CallAnswered \/ CallFails \/ CallTimesOut \/ Finish \/ EndQueries

QuerySpec == QueryInit /\ [][QueryNext]_queryVars

----------------------------------------------------------------------------
(* Properties                                                              *)

\* No caller gets the answer to someone else's request: whenever a call times
\* out with its answer still to come, the service gives that connection up,
\* over all its early returns, fallbacks and retries (client.take(),
\* reconnect_service, CoreDeviceIconSource::failed).
AnswersOwn == mixed = {}

\* A profile is installed, removed or trusted only for a caller that was still
\* waiting when the service took the request up, also when the service was
\* busy or reconnecting for longer than the caller waits (active_reply).
AbandonedUntouched == changed \subseteq taken
==============================================================================
