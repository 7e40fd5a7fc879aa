------------------------------ MODULE Transfers ------------------------------
(***************************************************************************)
(* The storage services of a device session: application storage through   *)
(* House Arrest ("apps", storage/application.rs) and the public media      *)
(* container ("public", storage/public.rs), the activity slots through     *)
(* which a transfer is watched and cancelled (core storage.rs), and the    *)
(* HTTP handlers that stage browser files and wait (http/storage.rs).      *)
(*                                                                         *)
(* A service handles one command at a time.  A transfer writes to a        *)
(* temporary sibling and commits it with a rename; a directory is a tree   *)
(* of such files below one temporary.  What is on the device is one        *)
(* directory per service.                                                  *)
(***************************************************************************)
EXTENDS Naturals, Sequences, FiniteSets

CONSTANTS
    Requests,      \* HTTP requests, numbered in the order they arrive
    NoRequest,
    Names,         \* names in the device directory
    Stored,        \* what the directory may hold at first
    Submitted,     \* what each request may ask
    Bundles,       \* applications
    ChanCap,       \* capacity of a service's command channel
    MaxFaults      \* bound: cancellations, timeouts, dropped handlers, session
                   \* ends and changes the device makes by itself

Services == {"apps", "public"}
Kinds == {"none", "file", "dir"}
TransferOps == {"importFile", "importDir", "export"}
MetadataOps == {"list", "preview", "mkdir", "rename", "delete"}
\* A browser uploads a file or downloads anything.
Asks == {a \in [op : TransferOps \cup MetadataOps, name : Names, bundle : Bundles, browser : BOOLEAN] :
           a.browser => a.op \in {"importFile", "export"}}

ASSUME TransferAssumption ==
    /\ Submitted \in [Requests -> SUBSET Asks] /\ Stored \subseteq [Names -> Kinds]
    /\ Requests \subseteq Nat /\ NoRequest \notin Requests
    /\ ChanCap \in Nat \ {0} /\ MaxFaults \in Nat

VARIABLES
    service,   \* the service of this behaviour: the two share no state
    ask,       \* what each request asks for
    handler,   \* its HTTP handler
    answer,    \* what the handler was told
    delayed,   \* requests that found the service busy
    staging,   \* requests whose staging directory exists
    chan,      \* command channel of each service
    job,       \* the command a service handles
    client,    \* the public service's AFC connection
    slot,      \* activity slot of each service
    opPhase,   \* phase of the request's managed operation
    asking,    \* an operation whose cancellation is being passed on
    cancelOf,  \* transfers that were running when a cancellation was accepted
    temp,      \* requests whose temporary exists
    target,    \* host destination of an export
    kept,      \* requests whose old destination is kept as a backup
    entries,   \* the device directory of each service
    up,        \* the device session
    faults     \* disturbances so far

transferVars == <<service, ask, handler, answer, delayed, staging, chan, job, client, slot, opPhase, asking,
                  cancelOf, temp, target, kept, entries, up, faults>>
httpVars == <<ask, handler, answer, delayed, staging>>
hostVars == <<temp, target, kept>>

NoAsk == [op |-> "list"]
Idle == [req |-> NoRequest, at |-> "idle", kind |-> "none", error |-> "none", raced |-> FALSE]
NoActivity == [req |-> NoRequest, state |-> "idle", cancelled |-> FALSE]

TransferInit ==
    /\ service \in Services
    /\ ask = [r \in Requests |-> NoAsk] /\ handler = [r \in Requests |-> "none"]
    /\ answer = [r \in Requests |-> "none"] /\ delayed = {} /\ staging = {}
    /\ chan = <<>> /\ job = Idle
    /\ client = FALSE /\ slot = NoActivity
    /\ opPhase = [r \in Requests |-> "none"] /\ asking = NoRequest /\ cancelOf = {}
    /\ temp = {} /\ target = [r \in Requests |-> "none"] /\ kept = {}
    /\ entries \in Stored
    /\ up = TRUE /\ faults = 0

Disturbs == faults < MaxFaults /\ faults' = faults + 1 /\ UNCHANGED service

----------------------------------------------------------------------------
(* HTTP handlers                                                           *)

Arrives(r) == handler[r] = "none" /\ \A q \in Requests : q < r => handler[q] # "none"

\* A handler of the browser stages an upload or prepares a download.
Stages(r, a) ==
    /\ Arrives(r) /\ a.browser
    /\ ask' = [ask EXCEPT ![r] = a] /\ handler' = [handler EXCEPT ![r] = "staged"]
    /\ staging' = staging \cup {r}
    /\ UNCHANGED <<answer, delayed, chan, job, client, slot, opPhase, asking, cancelOf, hostVars,
                   entries, up, faults, service>>
\* The others name a path of the host.
Asked(r, a) ==
    /\ Arrives(r) /\ ~a.browser
    /\ ask' = [ask EXCEPT ![r] = a] /\ handler' = [handler EXCEPT ![r] = "staged"]
    /\ \E t \in (IF a.op = "export" THEN {"none", "old"} ELSE {"none"}) : target' = [target EXCEPT ![r] = t]
    /\ UNCHANGED <<answer, delayed, staging, chan, job, client, slot, opPhase, asking, cancelOf,
                   temp, kept, entries, up, faults, service>>

BrowserAppDocument(r, a) == service = "apps" /\ Stages(r, a)
BrowserDeviceFile(r, a) == service = "public" /\ Stages(r, a)
AppDocuments(r, a) == service = "apps" /\ a.op \in TransferOps \cup {"list", "preview"} /\ Asked(r, a)
DeviceFiles(r, a) == service = "public" /\ a.op \in TransferOps \cup {"list", "preview"} /\ Asked(r, a)
ChangeAppDocument(r, a) == service = "apps" /\ a.op \in {"mkdir", "rename", "delete"} /\ Asked(r, a)
ChangeDeviceFile(r, a) == service = "public" /\ a.op \in {"mkdir", "rename", "delete"} /\ Asked(r, a)

\* dispatch_*_command and the session's router: no session, or a full channel.
Dispatch(r) ==
    LET taken == up /\ Len(chan) < ChanCap
    IN /\ handler[r] = "staged"
       /\ handler' = [handler EXCEPT ![r] = IF taken THEN "waiting" ELSE "answered"]
       /\ answer' = [answer EXCEPT ![r] = IF taken THEN "none" ELSE "failed"]
       /\ chan' = IF taken THEN Append(chan, r) ELSE chan
       /\ delayed' = IF taken /\ (chan # <<>> \/ job # Idle) THEN delayed \cup {r} ELSE delayed
       /\ UNCHANGED <<ask, staging, job, client, slot, opPhase, asking, cancelOf, hostVars,
                      entries, up, faults, service>>

GivesUp(r) ==
    /\ Disturbs /\ handler[r] = "waiting"
    /\ handler' = [handler EXCEPT ![r] = "answered"] /\ answer' = [answer EXCEPT ![r] = "timeout"]
    /\ UNCHANGED <<ask, delayed, staging, chan, job, client, slot, opPhase, asking, cancelOf,
                   hostVars, entries, up>>
\* await_app_document_response waits 11 minutes, less than a transfer may take.
AwaitAppDocument(r) == service = "apps" /\ GivesUp(r)
\* await_device_file_response waits 31 minutes: longer than a transfer, unless
\* it had to wait for another one first.
AwaitDeviceFile(r) == service = "public" /\ r \in delayed /\ GivesUp(r)

MutantHandlerEnds(r) ==
    /\ handler[r] = "answered"
    /\ handler' = [handler EXCEPT ![r] = "done"]
    /\ staging' = IF answer[r] = "timeout" THEN staging ELSE staging \ {r}
    /\ target' = IF ask[r].browser THEN [target EXCEPT ![r] = "none"] ELSE target
    /\ temp' = IF ask[r].browser /\ ask[r].op = "export" THEN temp \ {r} ELSE temp
    /\ UNCHANGED <<ask, answer, delayed, chan, job, client, slot, opPhase, asking, cancelOf, kept,
                   entries, up, faults, service>>

\* The end of a browser handler: read_and_remove or remove.
HandlerEnds(r) ==
    /\ handler[r] = "answered"
    /\ handler' = [handler EXCEPT ![r] = "done"]
    /\ staging' = staging \ {r}
    /\ target' = IF ask[r].browser THEN [target EXCEPT ![r] = "none"] ELSE target
    /\ temp' = IF ask[r].browser /\ ask[r].op = "export" THEN temp \ {r} ELSE temp
    /\ UNCHANGED <<ask, answer, delayed, chan, job, client, slot, opPhase, asking, cancelOf, kept,
                   entries, up, faults, service>>

\* The client closes its connection and the handler is dropped.
HandlerDropped(r) ==
    /\ Disturbs /\ handler[r] \in {"staged", "waiting"}
    /\ handler' = [handler EXCEPT ![r] = "dropped"]
    /\ UNCHANGED <<ask, answer, delayed, staging, chan, job, client, slot, opPhase, asking,
                   cancelOf, hostVars, entries, up>>

\* Reply to the handler, if it still waits.
Told(r, e) ==
    /\ handler' = IF handler[r] = "waiting" THEN [handler EXCEPT ![r] = "answered"] ELSE handler
    /\ answer' = IF handler[r] = "waiting" THEN [answer EXCEPT ![r] = e] ELSE answer
    /\ UNCHANGED <<ask, delayed, staging>>

----------------------------------------------------------------------------
(* Activity slots                                                          *)

MutantStarted(r) == [slot EXCEPT !.req = r, !.state = "running"]

Started(r) == [req |-> r, state |-> "running", cancelled |-> FALSE]

\* finish: a cancellation is recognised anywhere in the text of the error.
Finished(r, e) ==
    IF slot.req # r \/ slot.state # "running" THEN slot
    ELSE [slot EXCEPT !.state = CASE e = "none" -> "succeeded"
                                     [] e \in {"cancelled", "wrapped"} -> "cancelled"
                                     [] OTHER -> "failed"]

IsCancelled(r) == slot.req = r /\ slot.state = "running" /\ slot.cancelled

\* DELETE .../storage/activity: scoped to the application.
CancelAppActivity(b) ==
    LET r == slot.req
    IN /\ Disturbs /\ service = "apps" /\ slot.state = "running" /\ ask[r].bundle = b
       /\ slot' = [slot EXCEPT !.cancelled = TRUE] /\ cancelOf' = cancelOf \cup {r}
       /\ UNCHANGED <<httpVars, chan, job, client, opPhase, asking, hostVars, entries, up>>

\* DELETE /api/device/files/activity.
CancelFileActivity ==
    /\ service = "public" /\ Disturbs /\ slot.state = "running"
    /\ slot' = [slot EXCEPT !.cancelled = TRUE]
    /\ cancelOf' = cancelOf \cup {slot.req}
    /\ UNCHANGED <<httpVars, chan, job, client, opPhase, asking, hostVars, entries, up>>

Active == {"running", "cancelling"}

\* ManagedOperationController::cancel marks the record, then looks for a
\* running transfer of the application, or for any transfer.
CancelOperation(r) ==
    /\ Disturbs /\ asking = NoRequest /\ opPhase[r] \in Active
    /\ opPhase' = [opPhase EXCEPT ![r] = "cancelling"] /\ asking' = r
    /\ UNCHANGED <<httpVars, chan, job, client, slot, cancelOf, hostVars, entries, up>>

PassCancelOn ==
    LET r == asking
        found == slot.state = "running" /\ (service = "apps" => ask[slot.req].bundle = ask[r].bundle)
    IN /\ asking # NoRequest /\ asking' = NoRequest
       /\ slot' = IF found THEN [slot EXCEPT !.cancelled = TRUE] ELSE slot
       /\ cancelOf' = IF found THEN cancelOf \cup {slot.req} ELSE cancelOf
       /\ opPhase' = IF ~found /\ opPhase[r] = "cancelling"
                     THEN [opPhase EXCEPT ![r] = "running"] ELSE opPhase
       /\ UNCHANGED <<httpVars, chan, job, client, hostVars, entries, up, faults, service>>

----------------------------------------------------------------------------
(* The services                                                            *)

To(at) == job' = [job EXCEPT !.at = at]
Fails(at, e) == job' = [job EXCEPT !.at = at, !.error = e]
serviceRest == <<chan, client, asking, cancelOf, up, faults, service>>

\* The metadata commands: what they do to the directory when they succeed.
CreateDirectory(n) == entries[n] = "none" /\ entries' = [entries EXCEPT ![n] = "dir"]
RenameEntry(n) ==
    \E m \in Names : /\ entries[n] # "none" /\ entries[m] = "none"
                     /\ entries' = [entries EXCEPT ![n] = "none", ![m] = entries[n]]
DeleteDocument(n) == entries[n] # "none" /\ entries' = [entries EXCEPT ![n] = "none"]
DeletePath(n) == entries[n] # "none" /\ entries' = [entries EXCEPT ![n] = "none"]
Metadata(r) ==
    LET n == ask[r].name
    IN \/ ask[r].op \in {"list", "preview"} /\ UNCHANGED entries
       \/ ask[r].op = "mkdir" /\ CreateDirectory(n)
       \/ ask[r].op = "rename" /\ RenameEntry(n)
       \/ ask[r].op = "delete" /\ (IF service = "apps" THEN DeleteDocument(n) ELSE DeletePath(n))

Received == up /\ job = Idle /\ chan # <<>>

\* serve and handle for application storage: every command connects anew.
ServeApps ==
    LET r == Head(chan)
    IN /\ Received /\ service = "apps" /\ chan' = Tail(chan)
       /\ IF ask[r].op \in TransferOps
          THEN /\ opPhase' = [opPhase EXCEPT ![r] = "running"]
               /\ job' = [Idle EXCEPT !.req = r, !.at = "begun"]
               /\ UNCHANGED <<entries, httpVars>>
          ELSE /\ \/ Metadata(r) /\ Told(r, "none")
                  \/ UNCHANGED entries /\ Told(r, "failed")
               /\ UNCHANGED <<job, opPhase>>
       /\ UNCHANGED <<client, slot, asking, cancelOf, hostVars, up, faults, service>>

\* The reply is an error and nothing else changes.
Rejected(r) == Told(r, "failed") /\ UNCHANGED <<entries, job, opPhase>>

\* serve and handle for public files: one connection, opened on demand and
\* given up after an error.
ServePublic ==
    LET r == Head(chan)
    IN /\ Received /\ service = "public" /\ chan' = Tail(chan)
       /\ \/ /\ ask[r].op \in TransferOps /\ client' = TRUE
             /\ opPhase' = [opPhase EXCEPT ![r] = "running"]
             /\ job' = [Idle EXCEPT !.req = r, !.at = "begun"]
             /\ UNCHANGED <<entries, httpVars>>
          \/ /\ ask[r].op \in MetadataOps /\ client' = TRUE /\ Metadata(r) /\ Told(r, "none")
             /\ UNCHANGED <<job, opPhase>>
          \/ /\ ~client /\ UNCHANGED client /\ Rejected(r)
          \/ /\ ask[r].op \in MetadataOps /\ client' = (ask[r].op = "preview") /\ Rejected(r)
       /\ UNCHANGED <<slot, asking, cancelOf, hostVars, up, faults, service>>

\* activity.start, after the record was begun.
StartActivity ==
    /\ job.at = "begun" /\ To("open")
    /\ slot' = Started(job.req)
    /\ UNCHANGED <<httpVars, opPhase, hostVars, entries, serviceRest>>

\* The common shape of the opening steps: a cancellation seen at the start, a
\* refused or failed step, or the temporary that the copy fills.
Opens(ready, kind) ==
    LET r == job.req
    IN /\ \/ IsCancelled(r) /\ Fails("finish", "cancelled") /\ UNCHANGED temp
          \/ \E e \in {"failed", "lost"} : Fails("finish", e) /\ UNCHANGED temp
          \/ /\ ready /\ ~IsCancelled(r) /\ temp' = temp \cup {r}
             /\ job' = [job EXCEPT !.at = "copy", !.kind = kind]
       /\ UNCHANGED <<httpVars, slot, opPhase, target, kept, entries, serviceRest>>

\* An export takes a file, or a directory to a new destination; a staged
\* destination needs its directory.
Exportable(r) ==
    LET k == entries[ask[r].name]
    IN /\ k \in {"file", "dir"} /\ (k = "dir" => target[r] = "none")
       /\ (ask[r].browser => r \in staging)

MutantFree(n) == TRUE

\* ensure_name_available.
Free(n) == entries[n] = "none"

Importable(r) == Free(ask[r].name) /\ (ask[r].browser => r \in staging)

ExportPath ==
    /\ service = "apps" /\ job.at = "open" /\ ask[job.req].op = "export"
    /\ Opens(Exportable(job.req), entries[ask[job.req].name])
ExportPublic ==
    /\ service = "public" /\ job.at = "open" /\ ask[job.req].op = "export"
    /\ Opens(Exportable(job.req), entries[ask[job.req].name])
ImportPath ==
    /\ service = "apps" /\ job.at = "open" /\ ask[job.req].op \in {"importFile", "importDir"}
    /\ Opens(Importable(job.req), IF ask[job.req].op = "importDir" THEN "dir" ELSE "file")
ImportPublic ==
    /\ service = "public" /\ job.at = "open" /\ ask[job.req].op \in {"importFile", "importDir"}
    /\ Opens(Importable(job.req), IF ask[job.req].op = "importDir" THEN "dir" ELSE "file")

\* TransferProgress::copy fails the file it copies, with its own text around
\* the cancellation.
CopyFails ==
    \/ IsCancelled(job.req) /\ Fails("cleanup", "wrapped")
    \/ \E e \in {"failed", "lost"} : Fails("cleanup", e)
\* Between the entries of a tree a cancellation is returned as it is.
TreeFails == CopyFails \/ (IsCancelled(job.req) /\ Fails("cleanup", "cancelled"))
copyRest == <<httpVars, slot, opPhase, hostVars, entries, serviceRest>>
Copying(s, exports, kind) ==
    /\ job.at = "copy" /\ service = s /\ job.kind = kind /\ (ask[job.req].op = "export") = exports
    /\ UNCHANGED copyRest

ExportRegularFile == Copying("apps", TRUE, "file") /\ (To("commit") \/ CopyFails)
ExportDirectory == Copying("apps", TRUE, "dir") /\ (To("commit") \/ TreeFails)
UploadRegularFile == Copying("apps", FALSE, "file") /\ (To("commit") \/ CopyFails)
ImportDirectory == Copying("apps", FALSE, "dir") /\ (To("commit") \/ TreeFails)
ExportPublicFile == Copying("public", TRUE, "file") /\ (To("commit") \/ CopyFails)
ExportPublicDirectory == Copying("public", TRUE, "dir") /\ (To("commit") \/ TreeFails)
UploadPublicFile == Copying("public", FALSE, "file") /\ (To("commit") \/ CopyFails)
ImportPublicDirectory == Copying("public", FALSE, "dir") /\ (To("commit") \/ TreeFails)

\* The last check, then the rename on the device.
CommitImport ==
    LET r == job.req
    IN /\ job.at = "commit" /\ ask[r].op # "export"
       /\ \/ /\ ~IsCancelled(r) /\ To("inspect") /\ temp' = temp \ {r}
             /\ entries' = [entries EXCEPT ![ask[r].name] = job.kind]
          \/ IsCancelled(r) /\ Fails("cleanup", "cancelled") /\ UNCHANGED <<temp, entries>>
          \/ \E e \in {"failed", "lost"} : Fails("cleanup", e) /\ UNCHANGED <<temp, entries>>
       /\ UNCHANGED <<httpVars, slot, opPhase, target, kept, serviceRest>>

\* get_file_info of the committed item; its failure fails the import.
InspectImport ==
    /\ job.at = "inspect"
    /\ \/ To("finish") \/ Fails("cleanup", "lost")
    /\ UNCHANGED <<httpVars, slot, opPhase, hostVars, entries, serviceRest>>

\* The last check of an export, then replace_local_file: preserve the old
\* file, move the new one into place, drop the old one.  A directory is moved
\* at once.
CommitExport ==
    LET r == job.req
    IN /\ job.at = "commit" /\ ask[r].op = "export"
       /\ \/ IsCancelled(r) /\ Fails("cleanup", "cancelled") /\ UNCHANGED <<target, kept>>
          \/ Fails("cleanup", "failed") /\ UNCHANGED <<target, kept>>
          \/ /\ ~IsCancelled(r) /\ To("swap")
             /\ target' = [target EXCEPT ![r] = IF @ = "old" THEN "moved" ELSE @]
             /\ kept' = IF target[r] = "old" THEN kept \cup {r} ELSE kept
       /\ UNCHANGED <<httpVars, slot, opPhase, temp, entries, serviceRest>>
MutantSwap ==
    LET r == job.req
    IN /\ job.at = "swap"
       /\ \/ /\ ask[r].browser => r \in staging
             /\ target' = [target EXCEPT ![r] = "new"] /\ temp' = temp \ {r} /\ To("discard")
             /\ UNCHANGED kept
          \/ /\ Fails("cleanup", "failed") /\ UNCHANGED <<temp, target>> /\ kept' = kept \ {r}
       /\ UNCHANGED <<httpVars, slot, opPhase, entries, serviceRest>>
Swap ==
    LET r == job.req
    IN /\ job.at = "swap"
       /\ \/ /\ ask[r].browser => r \in staging
             /\ target' = [target EXCEPT ![r] = "new"] /\ temp' = temp \ {r} /\ To("discard")
             /\ UNCHANGED kept
          \/ /\ Fails("cleanup", "failed") /\ UNCHANGED temp
             /\ target' = IF r \in kept THEN [target EXCEPT ![r] = "old"] ELSE target
             /\ kept' = kept \ {r}
       /\ UNCHANGED <<httpVars, slot, opPhase, entries, serviceRest>>
Discard ==
    /\ job.at = "discard" /\ To("finish") /\ kept' = kept \ {job.req}
    /\ UNCHANGED <<httpVars, slot, opPhase, temp, target, entries, serviceRest>>

MutantCleanup ==
    /\ job.at = "cleanup" /\ To("finish")
    /\ UNCHANGED <<httpVars, slot, opPhase, hostVars, entries, serviceRest>>

\* The error path removes the temporary; over a lost connection it cannot
\* remove the one on the device.
Cleanup ==
    LET r == job.req
    IN /\ job.at = "cleanup" /\ To("finish")
       /\ temp' = IF job.error = "lost" /\ ask[r].op # "export" THEN temp ELSE temp \ {r}
       /\ UNCHANGED <<httpVars, slot, opPhase, target, kept, entries, serviceRest>>

\* TRANSFER_TIMEOUT drops the transfer where it stands.
TransferTimeout ==
    /\ Disturbs /\ job.at \in {"open", "copy", "commit", "inspect", "swap", "discard", "cleanup"}
    /\ Fails("finish", "timeout")
    /\ UNCHANGED <<httpVars, slot, opPhase, hostVars, entries, chan, client, asking, cancelOf, up>>

FinishActivity ==
    /\ job.at = "finish" /\ To("record")
    /\ slot' = Finished(job.req, job.error)
    /\ UNCHANGED <<httpVars, opPhase, hostVars, entries, serviceRest>>

\* finish_managed_transfer of application storage compares the whole text.
AppOutcome(e) == CASE e = "none" -> "succeeded" [] e = "cancelled" -> "cancelled" [] OTHER -> "failed"
\* That of public files looks for it in the text.
FileOutcome(e) ==
    CASE e = "none" -> "succeeded" [] e \in {"cancelled", "wrapped"} -> "cancelled" [] OTHER -> "failed"
FinishRecord ==
    LET r == job.req  e == job.error
        end == IF service = "apps" THEN AppOutcome(e) ELSE FileOutcome(e)
    IN /\ job.at = "record"
       /\ opPhase' = IF opPhase[r] \in Active THEN [opPhase EXCEPT ![r] = end] ELSE opPhase
       /\ job' = Idle /\ Told(r, e)
       /\ client' = IF service = "public" /\ FileOutcome(e) = "failed" THEN FALSE ELSE client
       /\ UNCHANGED <<slot, hostVars, entries, chan, asking, cancelOf, up, faults, service>>

----------------------------------------------------------------------------
(* The session and the device                                              *)

\* The session ends: idle services reset their slot and leave, a busy one is
\* aborted when it outlives the grace; waiting callers see a closed channel; records are cancelled.
EndSession ==
    /\ Disturbs /\ up /\ up' = FALSE /\ client' = FALSE
    /\ chan' = <<>> /\ job' = Idle
    /\ slot' = IF job = Idle THEN NoActivity ELSE slot
    /\ opPhase' = [r \in Requests |-> IF opPhase[r] \in Active THEN "cancelled" ELSE opPhase[r]]
    /\ handler' = [r \in Requests |-> IF handler[r] = "waiting" THEN "answered" ELSE handler[r]]
    /\ answer' = [r \in Requests |-> IF handler[r] = "waiting" THEN "closed" ELSE answer[r]]
    /\ UNCHANGED <<ask, delayed, staging, asking, cancelOf, hostVars, entries>>

MutantStartSession ==
    /\ ~up /\ up' = TRUE
    /\ UNCHANGED <<httpVars, chan, job, client, slot, opPhase, asking, cancelOf, hostVars, entries, faults, service>>

\* The services of the next session reset the slots first.
StartSession ==
    /\ ~up /\ up' = TRUE
    /\ slot' = NoActivity
    /\ UNCHANGED <<httpVars, chan, job, client, opPhase, asking, cancelOf, hostVars, entries, faults, service>>

\* The device's own apps change the directory.
DeviceChange(n, k) ==
    /\ Disturbs /\ entries[n] # k
    /\ entries' = [entries EXCEPT ![n] = k]
    /\ job' = [job EXCEPT !.raced = job.req # NoRequest]
    /\ UNCHANGED <<httpVars, chan, client, slot, opPhase, asking, cancelOf, hostVars, up>>

Transfer ==
    \/ StartActivity \/ ExportPath \/ ExportPublic \/ ImportPath \/ ImportPublic
    \/ ExportRegularFile \/ ExportDirectory \/ UploadRegularFile \/ ImportDirectory
    \/ ExportPublicFile \/ ExportPublicDirectory \/ UploadPublicFile \/ ImportPublicDirectory
    \/ CommitImport
    \/ InspectImport \/ CommitExport \/ Swap \/ Discard \/ Cleanup
    \/ TransferTimeout \/ FinishActivity \/ FinishRecord

TransferNext ==
    \/ \E r \in Requests : \E a \in Submitted[r] :
          \/ BrowserAppDocument(r, a) \/ BrowserDeviceFile(r, a) \/ AppDocuments(r, a)
          \/ DeviceFiles(r, a) \/ ChangeAppDocument(r, a) \/ ChangeDeviceFile(r, a)
    \/ \E r \in Requests : \/ Dispatch(r) \/ AwaitAppDocument(r) \/ AwaitDeviceFile(r) \/ HandlerEnds(r) \/ HandlerDropped(r)
                           \/ CancelOperation(r)
    \/ \E b \in Bundles : CancelAppActivity(b)
    \/ CancelFileActivity \/ PassCancelOn \/ ServeApps \/ ServePublic
    \/ Transfer
    \/ EndSession \/ StartSession
    \/ \E n \in Names, k \in Kinds : DeviceChange(n, k)

\* Every await of a service and of a handler ends, at the latest by a timeout.
TransferFairness ==
    /\ WF_transferVars(ServeApps) /\ WF_transferVars(ServePublic)
    /\ WF_transferVars(Transfer)
    /\ \A r \in Requests : WF_transferVars(Dispatch(r)) /\ WF_transferVars(HandlerEnds(r))

TransferSpec == TransferInit /\ [][TransferNext]_transferVars /\ TransferFairness

----------------------------------------------------------------------------
(* Properties                                                              *)

\* A transfer that ends as cancelled was running when somebody cancelled it:
\* activity.start forgets a cancellation that came too late for the last one.
CancelledWhenAsked ==
    \A r \in Requests : answer[r] \in {"cancelled", "wrapped"} => r \in cancelOf

\* What is left behind: a temporary outlives its transfer only when the
\* connection was lost, the transfer timed out or the session was torn down.
TemporariesRemoved ==
    \A r \in Requests :
        r \in temp /\ job.req # r =>
            answer[r] \in {"lost", "timeout", "closed"} \/ handler[r] = "dropped"

\* A file that an export replaces is never lost: it is in place or kept as a
\* backup until the new one is in place (replace_local_file).
OldFileKept ==
    \A r \in Requests : target[r] = "moved" => r \in kept

\* The slot shows a running transfer only while the service works on it,
\* also after a session whose services were aborted.
RunningServed ==
    up /\ slot.state = "running" => job.req = slot.req /\ job.at # "begun"

\* A committed import replaces an entry only when the device itself created it
\* after the name was found free.
NeverReplaces ==
    [][\A n \in Names :
          job.at = "commit" /\ entries'[n] # entries[n] =>
              entries[n] = "none" \/ job.raced \/ job'.raced]_transferVars

\* Every staging directory is removed, unless the handler was dropped.
StagingRemoved == \A r \in Requests : r \in staging ~> r \notin staging \/ handler[r] = "dropped"
=============================================================================
