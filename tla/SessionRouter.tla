---------------------------- MODULE SessionRouter ----------------------------
(***************************************************************************)
(* The command loop of a connected session (session/router.rs) and what it *)
(* does not hand to a service with a module of its own: application        *)
(* commands, which it runs itself and waits for; details, rename,          *)
(* developer mode, power and crash reports, each in a detached task that   *)
(* outlives the session; and the export of crash reports, a service with a *)
(* channel.  The handlers wait with a timeout of their own.                *)
(*                                                                         *)
(* The name of the device is the number of times it was set.  A call that  *)
(* fails or times out may have had its effect.                             *)
(***************************************************************************)
EXTENDS Naturals, Sequences, FiniteSets

CONSTANTS
    Asks,           \* requests of HTTP and MCP handlers
    Routed,         \* the commands they send
    NoAsk,
    Reports,        \* crash reports
    MaxPort,        \* capacity of the export service's channel
    MaxAttempts     \* DETAILS_RECOVERY_ATTEMPTS

ASSUME RouterAssumption ==
    /\ NoAsk \notin Asks /\ {MaxPort, MaxAttempts} \subseteq Nat \ {0}
    /\ Routed \subseteq {"apps", "details", "rename", "mode", "power", "list", "read", "delete", "export", "browser"}

VARIABLES
    up,             \* is the session connected?
    commands,       \* the session's command channel
    inline,         \* the application command the loop waits for
    port,           \* the channel of the crash report exports
    what,           \* the command of each request
    about,          \* the report it names
    known,          \* what its caller knows
    tasks,          \* the task of each request
    cached,         \* the details cache of the session
    devname,        \* names the device had so far
    mode,           \* the Developer Mode switch: "hidden", "shown" or "on"
    reports,        \* crash reports on the device
    slot,           \* the power slot: is it taken?
    staged          \* files in the staging directory of the browser transfers

asksVars == <<commands, inline, port, what, about, known>>
deviceState == <<devname, mode, reports>>
routerVars == <<up, asksVars, tasks, cached, deviceState, slot, staged>>

NoDetails == [name |-> 0, extras |-> FALSE]
Untasked == [at |-> "none", had |-> NoDetails, left |-> 0, read |-> NoDetails, asOf |-> 0]
Task(at) == [Untasked EXCEPT !.at = at]

\* DeviceManagementBootstrap::prepare: details are read unless that fails or
\* takes too long; the session starts either way.
RouterInit ==
    /\ up = TRUE /\ commands = <<>> /\ inline = NoAsk /\ port = <<>>
    /\ what = [r \in Asks |-> "none"] /\ about = [r \in Asks |-> {}] /\ known = [r \in Asks |-> "new"]
    /\ tasks = [r \in Asks |-> Untasked]
    /\ cached \in {NoDetails, [name |-> 1, extras |-> FALSE]}
    /\ devname = 1 /\ mode \in {"hidden", "on"} /\ reports = Reports /\ slot = FALSE /\ staged = {}

----------------------------------------------------------------------------
(* Handlers                                                                *)

Names(k) == k \in {"read", "delete", "export", "browser"}

\* require_active_session(try_send(..)); browser_export_crash_report prepares
\* the file it wants written first and removes it when nothing was sent.
Send(r, k, p) ==
    /\ known[r] = "new" /\ k \in Routed /\ (p = {} <=> ~Names(k))
    /\ what' = [what EXCEPT ![r] = k] /\ about' = [about EXCEPT ![r] = p]
    /\ known' = [known EXCEPT ![r] = IF up THEN "waiting" ELSE "err"]
    /\ commands' = IF up THEN Append(commands, r) ELSE commands
    /\ staged' = IF k = "browser" /\ up THEN staged \cup {r} ELSE staged
    /\ UNCHANGED <<up, inline, port, tasks, cached, deviceState, slot>>

MutantTold(answered) == known' = [r \in Asks |-> IF r \in DOMAIN answered /\ known[r] = "waiting" THEN answered[r] ELSE known[r]] /\ UNCHANGED staged

\* What its handler does when an answer or the end of a channel reaches it:
\* the browser's handler removes its file, after reading it if all went well.
Told(answered) ==
    LET heard == {r \in DOMAIN answered : known[r] = "waiting"}
    IN  /\ known' = [r \in Asks |-> IF r \in heard THEN answered[r] ELSE known[r]]
        /\ staged' = staged \ heard
Answer(r, a) == Told([x \in {r} |-> a])

\* await_session_result and the other timeouts: the file is removed as well.
HandlerTimesOut(r) ==
    /\ known[r] = "waiting" /\ known' = [known EXCEPT ![r] = "late"] /\ staged' = staged \ {r}
    /\ UNCHANGED <<up, commands, inline, port, what, about, tasks, cached, deviceState, slot>>

\* The client closes its connection: the handler is dropped where it is.
ClientLeaves(r) ==
    /\ known[r] = "waiting" /\ known' = [known EXCEPT ![r] = "left"]
    /\ UNCHANGED <<up, commands, inline, port, what, about, tasks, cached, deviceState, slot, staged>>

----------------------------------------------------------------------------
(* RuntimeSessionCommandRouter::handle                                     *)

Becomes(r, task) == tasks' = [tasks EXCEPT ![r] = task]

Rejected(r) == Answer(r, "err")

\* route: try_send, or a rejection.
Routes(r) ==
    IF Len(port) < MaxPort
    THEN port' = Append(port, r) /\ UNCHANGED <<known, staged>>
    ELSE Rejected(r) /\ UNCHANGED port

\* DevicePowerController::start.  `spawn` is given the lease and its task does
\* not take it along: the lease is dropped, and the slot free again, when
\* `spawn` returns.
StartPower(r) ==
    IF slot THEN Rejected(r) /\ UNCHANGED <<tasks, slot>>
    ELSE Becomes(r, Task("power")) /\ slot' = FALSE /\ UNCHANGED <<known, staged>>

\* The arms of `handle`: application commands are awaited in the loop, others
\* go to a service or to a task of their own.
HandleApps(r) == inline' = r /\ UNCHANGED <<port, tasks, slot, known, staged>>
HandleRouted(r) == Routes(r) /\ UNCHANGED <<inline, tasks, slot>>
HandlePower(r) == StartPower(r) /\ UNCHANGED <<inline, port>>
HandleDetached(r) == Becomes(r, Task(what[r])) /\ UNCHANGED <<inline, port, slot, known, staged>>

Handle ==
    /\ up /\ inline = NoAsk /\ commands # <<>> /\ commands' = Tail(commands)
    /\ LET r == Head(commands)
       IN \/ what[r] = "apps" /\ HandleApps(r)
          \/ what[r] = "power" /\ HandlePower(r)
          \/ what[r] \in {"export", "browser"} /\ HandleRouted(r)
          \/ what[r] \in {"details", "rename", "mode", "list", "read", "delete"} /\ HandleDetached(r)
    /\ UNCHANGED <<up, what, about, cached, deviceState>>

\* AppManagement::handle returns.
AppsDone(a) ==
    /\ inline # NoAsk /\ inline' = NoAsk /\ Answer(inline, a)
    /\ UNCHANGED <<up, commands, port, what, about, tasks, cached, deviceState, slot>>

----------------------------------------------------------------------------
(* refresh_device_details                                                  *)

\* The task looks at the cache once; without details it tries again.
BeginDetails(r) ==
    /\ tasks[r].at = "details"
    /\ Becomes(r, [Untasked EXCEPT !.at = "reading", !.had = cached,
                               !.left = IF cached # NoDetails THEN 1 ELSE MaxAttempts])
    /\ UNCHANGED <<up, asksVars, cached, deviceState, slot, staged>>

\* read_device_details, within DETAILS_REFRESH_TIMEOUT.
ReadDetails(r, ok) ==
    /\ tasks[r].at = "reading"
    /\ LET t == tasks[r]
       IN Becomes(r, IF ok THEN [t EXCEPT !.at = "joining", !.read = [name |-> devname, extras |-> FALSE]]
                   ELSE IF t.left > 1 THEN [t EXCEPT !.left = @ - 1]
                   ELSE [t EXCEPT !.at = "joining"])
    /\ UNCHANGED <<up, asksVars, cached, deviceState, slot, staged>>

\* select_device_details.
SelectDetails(t) == IF t.read # NoDetails THEN t.read ELSE t.had

\* Battery, Developer Mode, developer image and activation state: each read
\* may fail and leave what is there.
Extended(d, extras) == [d EXCEPT !.extras = @ \/ extras]

\* The four reads are joined, the cache is written and the caller answered.
FinishDetails(r, extras) ==
    /\ tasks[r].at = "joining"
    /\ LET d == SelectDetails(tasks[r])
           full == Extended(d, extras)
       IN IF d = NoDetails
          THEN Becomes(r, [tasks[r] EXCEPT !.at = "done"]) /\ Answer(r, "err") /\ UNCHANGED cached
          ELSE Becomes(r, [tasks[r] EXCEPT !.at = "done"]) /\ Answer(r, "ok") /\ cached' = full
    /\ UNCHANGED <<up, commands, inline, port, what, about, deviceState, slot>>

----------------------------------------------------------------------------
(* Rename, Developer Mode, power                                           *)

Ending(r, a) == Becomes(r, [tasks[r] EXCEPT !.at = "done"]) /\ Answer(r, a)
sessionSide == <<up, commands, inline, port, what, about, cached, slot>>

\* rename_device: set_value, then the name is read back.
SetName(r) ==
    /\ tasks[r].at = "rename" /\ devname' = devname + 1
    /\ Becomes(r, [Task("verifying") EXCEPT !.asOf = devname + 1])
    /\ UNCHANGED <<sessionSide, mode, reports, known, staged>>
VerifyName(r) ==
    /\ tasks[r].at = "verifying" /\ Ending(r, IF devname = tasks[r].asOf THEN "ok" ELSE "err")
    /\ UNCHANGED <<sessionSide, deviceState>>

\* reveal_developer_mode_option: nothing is asked of a device that has it on.
RevealMode(r, a) ==
    /\ tasks[r].at = "mode" /\ Ending(r, a) /\ mode' = IF mode = "on" THEN mode ELSE "shown"
    /\ UNCHANGED <<sessionSide, devname, reports>>

\* The diagnostics relay accepts the power command.
PowerDone(r) ==
    /\ tasks[r].at = "power" /\ Ending(r, "ok") /\ UNCHANGED <<sessionSide, deviceState>>

\* A call of a task fails, or the task's timeout ends it.
TaskFails(r) ==
    /\ tasks[r].at \in {"rename", "verifying", "mode", "power", "list", "read", "reading report", "delete", "deleting"}
    /\ Ending(r, "err") /\ UNCHANGED <<sessionSide, deviceState>>

----------------------------------------------------------------------------
(* Crash reports                                                           *)

\* list_crash_reports: directories are read one after the other.
ListReports(r) ==
    /\ tasks[r].at = "list" /\ Ending(r, "ok") /\ UNCHANGED <<sessionSide, deviceState>>

\* read_crash_report and delete_crash_report look at the file first.
Inspect(r) ==
    /\ tasks[r].at \in {"read", "delete"}
    /\ IF about[r] \subseteq reports THEN Becomes(r, Task(IF what[r] = "read" THEN "reading report" ELSE "deleting")) /\ UNCHANGED <<known, staged>>
       ELSE Ending(r, "err")
    /\ UNCHANGED <<sessionSide, deviceState>>
\* read_exact_report: a report that changed meanwhile is an error.
ReadReport(r) ==
    /\ tasks[r].at = "reading report" /\ Ending(r, IF about[r] \subseteq reports THEN "ok" ELSE "err")
    /\ UNCHANGED <<sessionSide, deviceState>>
DeleteReport(r, a) ==
    /\ tasks[r].at = "deleting" /\ reports' = reports \ about[r]
    /\ Ending(r, IF about[r] \subseteq reports THEN a ELSE "err")
    /\ UNCHANGED <<sessionSide, devname, mode>>

Exporting(r) == tasks[r].at \in {"download", "writing"}

\* serve_crash_report_exports takes one command at a time and does not look
\* whether its caller is still there.
TakeExport ==
    /\ up /\ port # <<>> /\ ~\E r \in Asks : Exporting(r)
    /\ port' = Tail(port) /\ Becomes(Head(port), Task("download"))
    /\ UNCHANGED <<up, commands, inline, what, about, known, cached, deviceState, slot, staged>>
\* download_crash_report.
Download(r, ok) ==
    /\ tasks[r].at = "download"
    /\ IF ok /\ about[r] \subseteq reports THEN Becomes(r, Task("writing")) /\ UNCHANGED <<known, staged>>
       ELSE ~ok /\ Ending(r, "err")
    /\ UNCHANGED <<sessionSide, deviceState>>
\* create_writer makes the file (again), then the bytes are written.
CreateExport(r) ==
    /\ tasks[r].at = "writing" /\ what[r] = "browser" /\ r \notin staged /\ staged' = staged \cup {r}
    /\ UNCHANGED <<sessionSide, tasks, known, deviceState>>
WriteExport(r, a) ==
    /\ tasks[r].at = "writing" /\ (what[r] = "browser" /\ a = "ok" => r \in staged) /\ Ending(r, a)
    /\ UNCHANGED <<sessionSide, deviceState>>

----------------------------------------------------------------------------
Dropped == {r \in Asks : Exporting(r) \/ r = inline \/ \E i \in DOMAIN commands : commands[i] = r \/ \E j \in DOMAIN port : port[j] = r}

\* The session ends: what is in its channels is dropped, the export service
\* cancels its command, the detached tasks go on.
EndSession ==
    /\ up /\ up' = FALSE /\ commands' = <<>> /\ port' = <<>> /\ inline' = NoAsk
    /\ Told([r \in Dropped |-> "err"])
    /\ tasks' = [r \in Asks |-> IF Exporting(r) THEN Task("done") ELSE tasks[r]]
    /\ UNCHANGED <<what, about, cached, deviceState, slot>>

RouterNext ==
    \/ \E r \in Asks :
        \/ \E k \in Routed : \E p \in {{}} \cup {{x} : x \in Reports} : Send(r, k, p)
        \/ HandlerTimesOut(r) \/ ClientLeaves(r) \/ BeginDetails(r) \/ SetName(r) \/ VerifyName(r)
        \/ PowerDone(r) \/ TaskFails(r) \/ ListReports(r) \/ Inspect(r) \/ ReadReport(r) \/ CreateExport(r)
        \/ \E ok \in BOOLEAN : ReadDetails(r, ok) \/ FinishDetails(r, ok) \/ Download(r, ok)
        \/ \E a \in {"ok", "err"} : RevealMode(r, a) \/ DeleteReport(r, a) \/ WriteExport(r, a)
    \/ \E a \in {"ok", "err"} : AppsDone(a)
    \/ Handle \/ TakeExport \/ EndSession

----------------------------------------------------------------------------
\* A browser export leaves nothing in the staging directory: once its handler
\* has answered, its file is gone and stays gone, unless the handler gave up
\* on an export that was still going on.
StagedFilesOwned ==
    \A r \in staged : known[r] \in {"waiting", "left"} \/ (known[r] = "late" /\ tasks[r].at \in {"writing", "done"})

\* "Serialized, bounded device power operations": no two power commands run
\* at a time.
PowerExclusive == Cardinality({r \in Asks : tasks[r].at = "power"}) <= 1
==============================================================================
