--------------------------- MODULE TransfersProofs ---------------------------
(***************************************************************************)
(* Proofs about Transfers for every set of requests, what they may ask,    *)
(* every content of the device directory and every number of disturbances. *)
(***************************************************************************)
EXTENDS Transfers, TLAPS

JobStages == {"idle", "begun", "open", "copy", "commit", "inspect", "swap", "discard",
              "cleanup", "finish", "record"}
Errors == {"none", "failed", "lost", "cancelled", "wrapped", "timeout"}
Jobs == [req : Requests \cup {NoRequest}, at : JobStages, kind : Kinds, error : Errors,
         raced : BOOLEAN]
Slots == [req : Requests \cup {NoRequest},
          state : {"idle", "running", "succeeded", "cancelled", "failed"},
          cancelled : BOOLEAN]

\* What the variables hold.
HttpType ==
    /\ ask \in [Requests -> Asks \cup {NoAsk}]
    /\ handler \in [Requests -> {"none", "staged", "waiting", "answered", "done", "dropped"}]
    /\ answer \in [Requests -> Errors \cup {"closed"}]
    /\ chan \in Seq(Requests)

RecordType ==
    /\ slot \in Slots
    /\ opPhase \in [Requests -> Active \cup {"none", "succeeded", "cancelled", "failed"}]
    /\ asking \in Requests \cup {NoRequest}
    /\ cancelOf \subseteq Requests

FilesType ==
    /\ temp \subseteq Requests
    /\ target \in [Requests -> {"none", "old", "moved", "new"}]
    /\ kept \subseteq Requests
    /\ entries \in [Names -> Kinds]

TransferTypeOK == service \in Services /\ up \in BOOLEAN /\ job \in Jobs
                     /\ HttpType /\ RecordType /\ FilesType

Pending == {chan[n] : n \in 1..Len(chan)}

\* A command is queued or handled once, for a handler that asked for it; that
\* handler waits, was dropped or gave up.
JobsDistinct ==
    /\ job.at = "idle" <=> job.req = NoRequest
    /\ slot.state = "running" => slot.req \in Requests
    /\ \A r \in Requests : handler[r] # "none" => ask[r] \in Asks
    /\ \A r \in Requests : r \in Pending \/ job.req = r =>
          /\ handler[r] \in {"waiting", "answered", "done", "dropped"}
          /\ handler[r] \in {"answered", "done"} => answer[r] = "timeout"
    /\ \A j, k \in 1..Len(chan) : chan[j] = chan[k] => j = k
    /\ job.req \notin Pending
    /\ job.at \in {"begun", "open"} => job.error = "none"

-----------------------------------------------------------------------------
(***************************************************************************)
(* The operators the actions are built from.                               *)
(***************************************************************************)

\* The steps of a transfer keep its request.
LEMMA ToFacts ==
    ASSUME job \in Jobs, NEW at \in JobStages, To(at)
    PROVE  /\ job' \in Jobs /\ job'.req = job.req /\ job'.at = at
           /\ job'.error = job.error /\ job'.kind = job.kind /\ job'.raced = job.raced
BY DEF Jobs, To

LEMMA FailsFacts ==
    ASSUME job \in Jobs, NEW at \in JobStages, NEW e \in Errors, Fails(at, e)
    PROVE  /\ job' \in Jobs /\ job'.req = job.req /\ job'.at = at
           /\ job'.error = e /\ job'.kind = job.kind /\ job'.raced = job.raced
BY DEF Jobs, Fails

LEMMA OpenFacts ==
    ASSUME job \in Jobs, NEW k \in Kinds, job' = [job EXCEPT !.at = "copy", !.kind = k]
    PROVE  /\ job' \in Jobs /\ job'.req = job.req /\ job'.at = "copy"
           /\ job'.error = job.error /\ job'.raced = job.raced
BY DEF Jobs, JobStages

LEMMA IdleFacts ==
    /\ Idle \in Jobs /\ Idle.at = "idle" /\ Idle.req = NoRequest
    /\ NoActivity \in Slots /\ NoActivity.state = "idle" /\ ~NoActivity.cancelled
    /\ \A r \in Requests : /\ [Idle EXCEPT !.req = r, !.at = "begun"] \in Jobs
                           /\ [Idle EXCEPT !.req = r, !.at = "begun"].req = r
                           /\ [Idle EXCEPT !.req = r, !.at = "begun"].at = "begun"
                           /\ [Idle EXCEPT !.req = r, !.at = "begun"].error = "none"
                           /\ [Idle EXCEPT !.req = r, !.at = "begun"].raced = FALSE
                           /\ Started(r) \in Slots
BY DEF Idle, Jobs, JobStages, Kinds, Errors, NoActivity, Slots, Started

LEMMA ChanFacts ==
    ASSUME NEW q \in Seq(Requests), \A j, k \in 1..Len(q) : q[j] = q[k] => j = k,
           NEW S, S = {q[n] : n \in 1..Len(q)}
    PROVE  /\ S \subseteq Requests
           /\ \A r \in Requests \ S :
                 /\ Append(q, r) \in Seq(Requests)
                 /\ {Append(q, r)[n] : n \in 1..Len(Append(q, r))} = S \cup {r}
                 /\ \A j, k \in 1..Len(Append(q, r)) :
                       Append(q, r)[j] = Append(q, r)[k] => j = k
           /\ q # <<>> =>
                 /\ Head(q) \in S /\ Tail(q) \in Seq(Requests)
                 /\ {Tail(q)[n] : n \in 1..Len(Tail(q))} = S \ {Head(q)}
                 /\ \A j, k \in 1..Len(Tail(q)) : Tail(q)[j] = Tail(q)[k] => j = k
<1>1. S \subseteq Requests
  OBVIOUS
<1>2. ASSUME NEW r \in Requests \ S
      PROVE  /\ Append(q, r) \in Seq(Requests)
             /\ {Append(q, r)[n] : n \in 1..Len(Append(q, r))} = S \cup {r}
             /\ \A j, k \in 1..Len(Append(q, r)) :
                   Append(q, r)[j] = Append(q, r)[k] => j = k
  <2>1. /\ Append(q, r) \in Seq(Requests) /\ Len(q) \in Nat
        /\ Len(Append(q, r)) = Len(q) + 1
    OBVIOUS
  <2>2. \A n \in 1..(Len(q) + 1) : Append(q, r)[n] = IF n = Len(q) + 1 THEN r ELSE q[n]
    OBVIOUS
  <2>3. {Append(q, r)[n] : n \in 1..Len(Append(q, r))} = S \cup {r}
    BY <2>1, <2>2
  <2>4. \A n \in 1..Len(q) : q[n] # r
    BY <1>2
  <2>5. \A j, k \in 1..Len(Append(q, r)) : Append(q, r)[j] = Append(q, r)[k] => j = k
    BY <2>1, <2>2, <2>4
  <2> QED BY <2>1, <2>3, <2>5
<1>3. ASSUME q # <<>>
      PROVE  /\ Head(q) \in S /\ Tail(q) \in Seq(Requests)
             /\ {Tail(q)[n] : n \in 1..Len(Tail(q))} = S \ {Head(q)}
             /\ \A j, k \in 1..Len(Tail(q)) : Tail(q)[j] = Tail(q)[k] => j = k
  <2>1. /\ Len(q) \in Nat /\ Len(q) >= 1 /\ Head(q) = q[1]
        /\ Tail(q) \in Seq(Requests) /\ Len(Tail(q)) = Len(q) - 1
    BY <1>3
  <2>2. \A n \in 1..Len(Tail(q)) : Tail(q)[n] = q[n + 1]
    BY <1>3
  <2>3. \A j, k \in 1..Len(Tail(q)) : Tail(q)[j] = Tail(q)[k] => j = k
    BY <2>1, <2>2
  <2>4. Head(q) \in S
    BY <2>1
  <2>5. {Tail(q)[n] : n \in 1..Len(Tail(q))} \subseteq S \ {Head(q)}
    BY <2>1, <2>2
  <2>6. ASSUME NEW e \in S \ {Head(q)} PROVE e \in {Tail(q)[n] : n \in 1..Len(Tail(q))}
    <3>1. PICK n \in 1..Len(q) : e = q[n]
      OBVIOUS
    <3>2. n - 1 \in 1..Len(Tail(q)) /\ Tail(q)[n - 1] = q[n]
      BY <3>1, <2>1, <2>2, <2>6
    <3> QED BY <3>1, <3>2
  <2> QED BY <2>1, <2>3, <2>4, <2>5, <2>6
<1> QED BY <1>1, <1>2, <1>3
\* Opening a transfer: it fails or is cancelled, or its temporary is there and,
\* for an import, its name was free.
OpenShape ==
    /\ job.at = "open"
    /\ \/ /\ \E e \in {"failed", "lost", "cancelled"} :
                Fails("finish", e) /\ (e = "cancelled" => IsCancelled(job.req))
          /\ UNCHANGED temp
       \/ /\ \E k \in Kinds : job' = [job EXCEPT !.at = "copy", !.kind = k]
          /\ temp' = temp \cup {job.req}
          /\ ask[job.req].op # "export" => entries[ask[job.req].name] = "none"
    /\ UNCHANGED <<httpVars, slot, opPhase, target, kept, entries, serviceRest>>

LEMMA OpenStep ==
    ASSUME TransferTypeOK, JobsDistinct,
           ExportPath \/ ExportPublic \/ ImportPath \/ ImportPublic
    PROVE  OpenShape
<1> DEFINE r == job.req
<1>1. job.at = "open"
  BY DEF ExportPath, ExportPublic, ImportPath, ImportPublic
<1>2. r \in Requests /\ ask[r] \in Asks
  BY <1>1 DEF TransferTypeOK, Jobs, JobsDistinct
<1>3. entries[ask[r].name] \in Kinds
  BY <1>2 DEF TransferTypeOK, FilesType, Asks
<1>4. PICK ready \in BOOLEAN, k \in Kinds :
         /\ Opens(ready, k)
         /\ ready /\ ask[r].op # "export" => entries[ask[r].name] = "none"
  <2>1. CASE ExportPath \/ ExportPublic
    <3>1. Opens(Exportable(r), entries[ask[r].name]) /\ ask[r].op = "export"
      BY <2>1 DEF ExportPath, ExportPublic
    <3>2. Exportable(r) \in BOOLEAN
      BY DEF Exportable
    <3> QED BY <1>3, <3>1, <3>2
  <2>2. CASE ImportPath \/ ImportPublic
    <3>1. Opens(Importable(r), IF ask[r].op = "importDir" THEN "dir" ELSE "file")
      BY <2>2 DEF ImportPath, ImportPublic
    <3>2. Importable(r) \in BOOLEAN /\ (Importable(r) => entries[ask[r].name] = "none")
      BY DEF Importable, Free
    <3>3. (IF ask[r].op = "importDir" THEN "dir" ELSE "file") \in Kinds
      BY DEF Kinds
    <3> QED BY <3>1, <3>2, <3>3
  <2> QED BY <2>1, <2>2
<1> QED BY <1>1, <1>4 DEF Opens, OpenShape

\* Copying: done, or failed; only a cancelled transfer fails as cancelled.
CopyShape ==
    /\ job.at = "copy"
    /\ \/ To("commit")
       \/ \E e \in {"failed", "lost", "cancelled", "wrapped"} :
             /\ Fails("cleanup", e)
             /\ e \in {"cancelled", "wrapped"} => IsCancelled(job.req)
    /\ UNCHANGED copyRest

Copies == \/ ExportRegularFile \/ ExportDirectory \/ UploadRegularFile \/ ImportDirectory
          \/ ExportPublicFile \/ ExportPublicDirectory \/ UploadPublicFile
          \/ ImportPublicDirectory

LEMMA CopyStep ==
    ASSUME Copies
    PROVE  CopyShape
<1>1. \/ \E s, x, k : Copying(s, x, k) /\ (To("commit") \/ CopyFails)
      \/ \E s, x, k : Copying(s, x, k) /\ (To("commit") \/ TreeFails)
  BY DEF Copies, ExportRegularFile, ExportDirectory, UploadRegularFile, ImportDirectory,
         ExportPublicFile, ExportPublicDirectory, UploadPublicFile, ImportPublicDirectory
<1>2. job.at = "copy" /\ UNCHANGED copyRest
  BY <1>1 DEF Copying
<1>3. To("commit") \/ TreeFails
  BY <1>1 DEF TreeFails
<1>4. ASSUME TreeFails
      PROVE  \E e \in {"failed", "lost", "cancelled", "wrapped"} :
                /\ Fails("cleanup", e)
                /\ e \in {"cancelled", "wrapped"} => IsCancelled(job.req)
  BY <1>4 DEF TreeFails, CopyFails
<1> QED BY <1>2, <1>3, <1>4 DEF CopyShape

\* The steps of a transfer.
LEMMA TransferCases ==
    ASSUME TransferTypeOK, JobsDistinct, Transfer
    PROVE  \/ StartActivity \/ OpenShape \/ CopyShape \/ CommitImport \/ InspectImport
           \/ CommitExport \/ Swap \/ Discard \/ Cleanup \/ TransferTimeout
           \/ FinishActivity \/ FinishRecord
BY OpenStep, CopyStep DEF Transfer, Copies

\* Where the stages of a transfer are entered from.
EnteredBy(at) ==
    /\ at = "copy" => OpenShape
    /\ at = "commit" => CopyShape
    /\ at = "inspect" => CommitImport
    /\ at = "discard" => Swap
    /\ at = "record" => FinishActivity

\* A step of a transfer at work, up to its record: the job keeps its request,
\* and fails as cancelled only when it was cancelled.
LEMMA WorkKeepsJob ==
    ASSUME TransferTypeOK, JobsDistinct, Transfer, ~FinishRecord
    PROVE  /\ job.at # "idle" /\ job.req \in Requests
           /\ job' \in Jobs /\ job'.req = job.req /\ job'.at \notin {"idle", "begun"}
           /\ EnteredBy(job'.at) /\ job'.raced = job.raced
           /\ job'.error \in {"cancelled", "wrapped"} =>
                 job.error = job'.error \/ IsCancelled(job.req)
           /\ job'.at = "open" => job'.error = job.error /\ job.at = "begun"
           /\ UNCHANGED <<httpVars, chan, client, asking, cancelOf, up, service, opPhase>>
<1> DEFINE Goal ==
      /\ job.at # "idle" /\ job.req \in Requests
      /\ job' \in Jobs /\ job'.req = job.req /\ job'.at \notin {"idle", "begun"}
      /\ EnteredBy(job'.at) /\ job'.raced = job.raced
      /\ job'.error \in {"cancelled", "wrapped"} =>
            job.error = job'.error \/ IsCancelled(job.req)
      /\ job'.at = "open" => job'.error = job.error /\ job.at = "begun"
      /\ UNCHANGED <<httpVars, chan, client, asking, cancelOf, up, service, opPhase>>
<1> DEFINE Rest == UNCHANGED <<httpVars, chan, client, asking, cancelOf, up, service, opPhase>>
<1>0. job \in Jobs /\ (job.at # "idle" => job.req \in Requests)
  BY DEF TransferTypeOK, JobsDistinct, Jobs
<1>1. ASSUME NEW at \in JobStages \ {"idle", "begun"}, job.at # "idle", To(at), Rest,
             at = "open" => job.at = "begun", EnteredBy(at)
      PROVE  Goal
  <2>1. /\ job' \in Jobs /\ job'.req = job.req /\ job'.at = at /\ job'.raced = job.raced
        /\ job'.error = job.error
    BY <1>0, <1>1, ToFacts
  <2> QED BY <1>0, <1>1, <2>1
<1>2. ASSUME NEW at \in {"finish", "cleanup"}, NEW e \in Errors, job.at # "idle",
             Fails(at, e), Rest,
             e \in {"cancelled", "wrapped"} => IsCancelled(job.req)
      PROVE  Goal
  <2>1. at \in JobStages /\ at \notin {"idle", "begun", "open"}
    BY DEF JobStages
  <2>2. /\ job' \in Jobs /\ job'.req = job.req /\ job'.at = at /\ job'.raced = job.raced
        /\ job'.error = e
    BY <1>0, <1>2, <2>1, FailsFacts
  <2>3. EnteredBy(at)
    BY DEF EnteredBy
  <2> QED BY <1>0, <1>2, <2>1, <2>2, <2>3
<1>3. {"open", "copy", "commit", "inspect", "swap", "discard", "cleanup", "finish",
       "record"} \subseteq JobStages \ {"idle", "begun"}
      /\ {"failed", "lost", "cancelled", "wrapped", "timeout"} \subseteq Errors
  BY DEF JobStages, Errors
<1>4. CASE StartActivity
  BY <1>1, <1>3, <1>4 DEF StartActivity, serviceRest, EnteredBy
<1>5. CASE OpenShape
  <2>1. Rest /\ job.at # "idle"
    BY <1>5 DEF OpenShape, serviceRest
  <2>2. CASE \E e \in {"failed", "lost", "cancelled"} :
                Fails("finish", e) /\ (e = "cancelled" => IsCancelled(job.req))
    BY <1>2, <1>3, <2>1, <2>2
  <2>3. ASSUME NEW k \in Kinds, job' = [job EXCEPT !.at = "copy", !.kind = k]
        PROVE  Goal
    <3>1. /\ job' \in Jobs /\ job'.req = job.req /\ job'.at = "copy"
          /\ job'.raced = job.raced /\ job'.error = job.error
      BY <1>0, <2>3, OpenFacts
    <3>2. EnteredBy("copy")
      BY <1>5 DEF EnteredBy
    <3> QED BY <1>0, <2>1, <3>1, <3>2
  <2> QED BY <1>5, <2>2, <2>3 DEF OpenShape
<1>6. CASE CopyShape
  <2>1. Rest /\ job.at # "idle"
    BY <1>6 DEF CopyShape, copyRest, serviceRest
  <2>2. EnteredBy("commit")
    BY <1>6 DEF EnteredBy
  <2> QED BY <1>1, <1>2, <1>3, <1>6, <2>1, <2>2 DEF CopyShape
<1>7. CASE CommitImport
  <2>1. Rest /\ job.at # "idle"
    BY <1>7 DEF CommitImport, serviceRest
  <2>2. EnteredBy("inspect")
    BY <1>7 DEF EnteredBy
  <2> QED BY <1>1, <1>2, <1>3, <1>7, <2>1, <2>2 DEF CommitImport
<1>8. CASE InspectImport
  <2>1. Rest /\ job.at # "idle"
    BY <1>8 DEF InspectImport, serviceRest
  <2>2. EnteredBy("finish")
    BY <1>8 DEF EnteredBy
  <2> QED BY <1>1, <1>2, <1>3, <1>8, <2>1, <2>2 DEF InspectImport
<1>9. CASE CommitExport
  <2>1. Rest /\ job.at # "idle"
    BY <1>9 DEF CommitExport, serviceRest
  <2>2. EnteredBy("swap")
    BY <1>9 DEF EnteredBy
  <2> QED BY <1>1, <1>2, <1>3, <1>9, <2>1, <2>2 DEF CommitExport
<1>10. CASE Swap
  <2>1. Rest /\ job.at # "idle"
    BY <1>10 DEF Swap, serviceRest
  <2>2. EnteredBy("discard")
    BY <1>10 DEF EnteredBy
  <2> QED BY <1>1, <1>2, <1>3, <1>10, <2>1, <2>2 DEF Swap
<1>11. CASE Discard \/ Cleanup \/ FinishActivity
  <2>1. Rest /\ job.at # "idle"
    BY <1>11 DEF Discard, Cleanup, FinishActivity, serviceRest
  <2>2. EnteredBy("finish") /\ (FinishActivity => EnteredBy("record"))
    BY DEF EnteredBy
  <2> QED BY <1>1, <1>3, <1>11, <2>1, <2>2 DEF Discard, Cleanup, FinishActivity
<1>12. CASE TransferTimeout
  <2>1. Rest /\ job.at # "idle"
    BY <1>12 DEF TransferTimeout, Disturbs
  <2> QED BY <1>2, <1>3, <1>12, <2>1 DEF TransferTimeout
<1> QED BY <1>4, <1>5, <1>6, <1>7, <1>8, <1>9, <1>10, <1>11, <1>12, TransferCases
\* The handlers: what they do leaves the services alone, except for the
\* command they queue.
HttpStep(r) ==
    \/ \E a \in Submitted[r] :
          \/ BrowserAppDocument(r, a) \/ BrowserDeviceFile(r, a) \/ AppDocuments(r, a)
          \/ DeviceFiles(r, a) \/ ChangeAppDocument(r, a) \/ ChangeDeviceFile(r, a)
    \/ Dispatch(r) \/ AwaitAppDocument(r) \/ AwaitDeviceFile(r) \/ HandlerEnds(r)
    \/ HandlerDropped(r)

CancelStep == (\E r \in Requests : CancelOperation(r)) \/ (\E b \in Bundles : CancelAppActivity(b))
                 \/ CancelFileActivity \/ PassCancelOn

LEMMA NextCases ==
    ASSUME TransferNext
    PROVE  \/ \E r \in Requests : HttpStep(r)
           \/ CancelStep \/ ServeApps \/ ServePublic
           \/ Transfer /\ ~FinishRecord
           \/ FinishRecord
           \/ EndSession \/ StartSession
           \/ \E n \in Names, k \in Kinds : DeviceChange(n, k)
BY DEF TransferNext, HttpStep, CancelStep

LEMMA HttpCases ==
    ASSUME NEW r \in Requests, HttpStep(r)
    PROVE  /\ UNCHANGED <<job, slot, opPhase, asking, cancelOf, kept, entries, up, service>>
           /\ \/ \E a \in Asks : Stages(r, a) \/ Asked(r, a)
              \/ Dispatch(r) \/ GivesUp(r) \/ HandlerEnds(r) \/ HandlerDropped(r)
<1>1. Submitted[r] \subseteq Asks
  BY TransferAssumption
<1>2. \/ \E a \in Asks : Stages(r, a) \/ Asked(r, a)
      \/ Dispatch(r) \/ GivesUp(r) \/ HandlerEnds(r) \/ HandlerDropped(r)
  BY <1>1 DEF HttpStep, BrowserAppDocument, BrowserDeviceFile, AppDocuments, DeviceFiles,
          ChangeAppDocument, ChangeDeviceFile, AwaitAppDocument, AwaitDeviceFile
<1>3. UNCHANGED <<job, slot, opPhase, asking, cancelOf, kept, entries, up, service>>
  BY <1>2 DEF Stages, Asked, Dispatch, GivesUp, HandlerEnds, HandlerDropped, Disturbs, hostVars
<1> QED BY <1>2, <1>3

\* Serving takes the oldest command: a transfer becomes the job, the rest is
\* answered at once.
ServeShape(r) ==
    /\ up /\ job = Idle /\ chan # <<>> /\ r = Head(chan) /\ chan' = Tail(chan)
    /\ \/ /\ job' = [Idle EXCEPT !.req = r, !.at = "begun"]
          /\ opPhase' = [opPhase EXCEPT ![r] = "running"]
          /\ UNCHANGED <<httpVars, entries>>
       \/ /\ \E e \in {"none", "failed"} : Told(r, e)
          /\ UNCHANGED <<job, opPhase>>
          /\ entries' = entries \/ Metadata(r)
    /\ UNCHANGED <<slot, asking, cancelOf, hostVars, up, faults, service>>

LEMMA ServeCases ==
    ASSUME ServeApps \/ ServePublic
    PROVE  ServeShape(Head(chan))
<1>1. CASE ServeApps
  BY <1>1 DEF ServeApps, ServeShape, Received
<1>2. CASE ServePublic
  BY <1>2 DEF ServePublic, ServeShape, Received, Rejected
<1> QED BY <1>1, <1>2

LEMMA MetadataType ==
    ASSUME entries \in [Names -> Kinds], NEW r, ask[r] \in Asks, Metadata(r)
    PROVE  entries' \in [Names -> Kinds]
<1>1. ask[r].name \in Names
  BY DEF Asks
<1>2. "none" \in Kinds /\ "dir" \in Kinds
  BY DEF Kinds
<1> QED BY <1>1, <1>2 DEF Metadata, CreateDirectory, RenameEntry, DeleteDocument, DeletePath

LEMMA ToldType ==
    ASSUME HttpType, NEW r \in Requests, NEW e \in Errors, Told(r, e), chan' \in Seq(Requests)
    PROVE  HttpType'
<1>1. ask' \in [Requests -> Asks' \cup {NoAsk}]
  <2>1. Asks' = Asks
    BY DEF Asks
  <2>2. ask' = ask
    BY DEF Told
  <2> QED BY <2>1, <2>2 DEF HttpType
<1>2. handler' \in [Requests -> {"none", "staged", "waiting", "answered", "done", "dropped"}]
  BY DEF HttpType, Told
<1>3. answer' \in [Requests -> Errors \cup {"closed"}]
  BY DEF HttpType, Told
<1> QED BY <1>1, <1>2, <1>3 DEF HttpType, Errors

\* Cancelling marks the running activity, if it finds one.
LEMMA CancelCases ==
    ASSUME TransferTypeOK, JobsDistinct, CancelStep
    PROVE  /\ UNCHANGED <<httpVars, chan, job, hostVars, entries, up, service>>
           /\ \/ slot' = slot /\ cancelOf' = cancelOf
              \/ /\ slot.state = "running" /\ slot' = [slot EXCEPT !.cancelled = TRUE]
                 /\ cancelOf' = cancelOf \cup {slot.req}
           /\ asking' \in Requests \cup {NoRequest}
           /\ opPhase' \in [Requests -> Active \cup {"none", "succeeded", "cancelled", "failed"}]
<1>0. RecordType
  BY DEF TransferTypeOK
<1>1. CASE (\E b \in Bundles : CancelAppActivity(b)) \/ CancelFileActivity
  BY <1>0, <1>1 DEF CancelAppActivity, CancelFileActivity, Disturbs, RecordType
<1>2. ASSUME NEW r \in Requests, CancelOperation(r)
      PROVE  /\ UNCHANGED <<httpVars, chan, job, hostVars, entries, up, service, slot, cancelOf>>
             /\ asking' \in Requests \cup {NoRequest}
             /\ opPhase' \in [Requests -> Active \cup {"none", "succeeded", "cancelled", "failed"}]
  BY <1>0, <1>2 DEF CancelOperation, Disturbs, RecordType, Active
<1>3. CASE PassCancelOn
  BY <1>0, <1>3 DEF PassCancelOn, RecordType, Active
<1> QED BY <1>1, <1>2, <1>3 DEF CancelStep

\* The activity during the steps of a transfer.
LEMMA WorkSlot ==
    ASSUME TransferTypeOK, JobsDistinct, Transfer, ~FinishRecord
    PROVE  \/ StartActivity /\ slot' = Started(job.req)
           \/ FinishActivity /\ slot' = Finished(job.req, job.error)
           \/ ~StartActivity /\ ~FinishActivity /\ slot' = slot
<1>1. CASE StartActivity
  BY <1>1 DEF StartActivity
<1>2. CASE FinishActivity
  BY <1>2 DEF FinishActivity
<1>3. CASE ~StartActivity /\ ~FinishActivity
  BY <1>3, TransferCases DEF OpenShape, CopyShape, copyRest, CommitImport,
     InspectImport, CommitExport, Swap, Discard, Cleanup, TransferTimeout
<1> QED BY <1>1, <1>2, <1>3

-----------------------------------------------------------------------------
LEMMA TypeStep ==
    ASSUME TransferTypeOK, JobsDistinct, TransferNext
    PROVE  TransferTypeOK'
<1>0. /\ service \in Services /\ up \in BOOLEAN /\ job \in Jobs
      /\ HttpType /\ RecordType /\ FilesType
  BY DEF TransferTypeOK
<1>1. ASSUME NEW r \in Requests, HttpStep(r) PROVE TransferTypeOK'
  <2>1. UNCHANGED <<job, slot, opPhase, asking, cancelOf, kept, entries, up, service>>
    BY <1>1, HttpCases
  <2>2. HttpType' /\ temp' \subseteq Requests
        /\ target' \in [Requests -> {"none", "old", "moved", "new"}]
    <3>1. ASSUME NEW a \in Asks, Stages(r, a) \/ Asked(r, a)
          PROVE  HttpType' /\ temp' \subseteq Requests
                 /\ target' \in [Requests -> {"none", "old", "moved", "new"}]
      <4>1. /\ ask' = [ask EXCEPT ![r] = a] /\ handler' = [handler EXCEPT ![r] = "staged"]
            /\ UNCHANGED <<answer, chan, temp>>
        BY <3>1 DEF Stages, Asked, hostVars
      <4>2. \/ target' = target
            \/ target' = [target EXCEPT ![r] = "none"]
            \/ target' = [target EXCEPT ![r] = "old"]
        BY <3>1 DEF Stages, Asked, hostVars
      <4>3. HttpType'
        <5>1. ask' \in [Requests -> Asks \cup {NoAsk}]
          BY <1>0, <4>1 DEF HttpType
        <5> QED BY <1>0, <4>1, <5>1 DEF HttpType, Asks, Errors
      <4> QED BY <1>0, <4>1, <4>2, <4>3 DEF FilesType
    <3>2. CASE Dispatch(r)
      <4>1. chan' \in Seq(Requests)
        BY <1>0, <3>2 DEF Dispatch, HttpType
      <4>2. answer' \in [Requests -> Errors \cup {"closed"}]
        BY <1>0, <3>2 DEF Dispatch, HttpType, Errors
      <4>3. HttpType'
        BY <1>0, <3>2, <4>1, <4>2 DEF Dispatch, HttpType, Asks
      <4> QED BY <1>0, <3>2, <4>3 DEF Dispatch, FilesType, hostVars
    <3>3. CASE GivesUp(r)
      <4>1. answer' \in [Requests -> Errors \cup {"closed"}]
        BY <1>0, <3>3 DEF GivesUp, HttpType, Errors
      <4> QED BY <1>0, <3>3, <4>1 DEF GivesUp, HttpType, FilesType, hostVars, Asks
    <3>4. CASE HandlerEnds(r)
      <4>1. HttpType' /\ temp' \subseteq Requests
        BY <1>0, <3>4 DEF HandlerEnds, HttpType, FilesType, Asks
      <4>2. target' \in [Requests -> {"none", "old", "moved", "new"}]
        BY <1>0, <3>4 DEF HandlerEnds, FilesType
      <4> QED BY <4>1, <4>2
    <3>5. CASE HandlerDropped(r)
      BY <1>0, <3>5 DEF HandlerDropped, HttpType, FilesType, hostVars, Asks
    <3> QED BY <1>1, <3>1, <3>2, <3>3, <3>4, <3>5, HttpCases
  <2>3. RecordType'
    BY <1>0, <2>1 DEF RecordType
  <2> QED BY <1>0, <2>1, <2>2, <2>3 DEF TransferTypeOK, FilesType
<1>2. CASE CancelStep
  <2>1. /\ UNCHANGED <<httpVars, chan, job, hostVars, entries, up, service>>
        /\ \/ slot' = slot /\ cancelOf' = cancelOf
           \/ /\ slot.state = "running" /\ slot' = [slot EXCEPT !.cancelled = TRUE]
              /\ cancelOf' = cancelOf \cup {slot.req}
        /\ asking' \in Requests \cup {NoRequest}
        /\ opPhase' \in [Requests -> Active \cup {"none", "succeeded", "cancelled", "failed"}]
    BY <1>2, CancelCases
  <2>2. slot' \in Slots
    BY <1>0, <2>1 DEF RecordType, Slots
  <2>3. cancelOf' \subseteq Requests
    BY <1>0, <2>1 DEF RecordType, JobsDistinct
  <2>4. HttpType' /\ FilesType'
    BY <1>0, <2>1 DEF HttpType, FilesType, httpVars, hostVars, Asks
  <2> QED BY <1>0, <2>1, <2>2, <2>3, <2>4 DEF TransferTypeOK, RecordType
<1>3. CASE ServeApps \/ ServePublic
  <2> DEFINE r == Head(chan)
  <2>1. ServeShape(r)
    BY <1>3, ServeCases
  <2>2. r \in Requests /\ Tail(chan) \in Seq(Requests)
    BY <1>0, <2>1 DEF ServeShape, HttpType
  <2> HIDE DEF r
  <2>3. HttpType'
    <3>1. CASE UNCHANGED httpVars
      BY <1>0, <2>1, <2>2, <3>1 DEF ServeShape, HttpType, httpVars, Asks
    <3>2. CASE \E e \in {"none", "failed"} : Told(r, e)
      BY <1>0, <2>1, <2>2, <3>2, ToldType DEF ServeShape, Errors
    <3> QED BY <2>1, <3>1, <3>2 DEF ServeShape
  <2>4. job' \in Jobs
    BY <1>0, <2>1, <2>2, IdleFacts DEF ServeShape
  <2>5. RecordType'
    BY <1>0, <2>1, <2>2 DEF ServeShape, RecordType, Active
  <2>6. FilesType'
    <3>1. entries' = entries \/ Metadata(r)
      BY <2>1 DEF ServeShape
    <3>2. ask[r] \in Asks
      <4>1. r \in Pending
        BY <1>0, <2>1 DEF ServeShape, HttpType, Pending
      <4> QED BY <2>2, <4>1 DEF JobsDistinct
    <3>3. entries' \in [Names -> Kinds]
      BY <1>0, <3>1, <3>2, MetadataType DEF FilesType
    <3> QED BY <1>0, <2>1, <3>3 DEF ServeShape, FilesType, hostVars
  <2> QED BY <1>0, <2>1, <2>3, <2>4, <2>5, <2>6 DEF TransferTypeOK, ServeShape
<1>4. CASE Transfer /\ ~FinishRecord
  <2>1. /\ job' \in Jobs /\ job.req \in Requests
        /\ UNCHANGED <<httpVars, chan, asking, cancelOf, up, service, opPhase>>
    BY <1>4, WorkKeepsJob
  <2>2. slot' \in Slots
    <3>1. CASE StartActivity
      BY <2>1, <3>1, IdleFacts DEF StartActivity
    <3>2. CASE FinishActivity
      BY <1>0, <3>2 DEF FinishActivity, Finished, RecordType, Slots
    <3>3. CASE ~StartActivity /\ ~FinishActivity
      BY <1>0, <1>4, <3>3, TransferCases DEF OpenShape, CopyShape, copyRest, CommitImport,
         InspectImport, CommitExport, Swap, Discard, Cleanup, TransferTimeout, RecordType
    <3> QED BY <3>1, <3>2, <3>3
  <2>3. FilesType'
    <3>1. job.kind \in Kinds /\ ask[job.req].op \in TransferOps \cup MetadataOps \cup {"list"}
      BY <1>0, <2>1 DEF Jobs, HttpType, Asks, NoAsk
    <3>2. CASE StartActivity \/ InspectImport \/ TransferTimeout \/ FinishActivity
      BY <1>0, <3>2 DEF StartActivity, InspectImport, TransferTimeout, FinishActivity,
                        FilesType, hostVars
    <3>3. CASE OpenShape \/ CopyShape
      BY <1>0, <2>1, <3>3 DEF OpenShape, CopyShape, copyRest, FilesType, hostVars
    <3>4. CASE CommitImport
      BY <1>0, <2>1, <3>1, <3>4 DEF CommitImport, FilesType
    <3>5. CASE CommitExport \/ Swap \/ Discard \/ Cleanup
      BY <1>0, <2>1, <3>5 DEF CommitExport, Swap, Discard, Cleanup, FilesType
    <3> QED BY <1>4, <3>2, <3>3, <3>4, <3>5, TransferCases
  <2>4. HttpType' /\ RecordType'
    BY <1>0, <2>1, <2>2 DEF HttpType, RecordType, httpVars, Asks
  <2> QED BY <1>0, <2>1, <2>3, <2>4 DEF TransferTypeOK
<1>5. CASE FinishRecord
  <2>1. job.at = "record" /\ job.req \in Requests /\ job.error \in Errors
    BY <1>0, <1>5 DEF FinishRecord, JobsDistinct, Jobs
  <2>2. HttpType'
    BY <1>0, <1>5, <2>1, ToldType DEF FinishRecord, HttpType
  <2>3. RecordType'
    BY <1>0, <1>5 DEF FinishRecord, RecordType, AppOutcome, FileOutcome
  <2>4. FilesType' /\ job' \in Jobs
    BY <1>0, <1>5, IdleFacts DEF FinishRecord, FilesType, hostVars
  <2> QED BY <1>0, <1>5, <2>2, <2>3, <2>4 DEF FinishRecord, TransferTypeOK
<1>6. CASE EndSession
  <2>1. <<>> \in Seq(Requests)
    OBVIOUS
  <2>2. HttpType'
    BY <1>0, <1>6, <2>1 DEF EndSession, HttpType, Asks
  <2>3. RecordType' /\ FilesType'
    BY <1>0, <1>6, IdleFacts DEF EndSession, RecordType, FilesType, hostVars
  <2> QED BY <1>0, <1>6, <2>2, <2>3, IdleFacts DEF EndSession, TransferTypeOK, Disturbs
<1>7. CASE StartSession
  <2>1. HttpType' /\ FilesType'
    BY <1>0, <1>7 DEF StartSession, HttpType, FilesType, hostVars, httpVars, Asks
  <2> QED BY <1>0, <1>7, <2>1, IdleFacts DEF StartSession, TransferTypeOK, RecordType
<1>8. ASSUME NEW n \in Names, NEW k \in Kinds, DeviceChange(n, k) PROVE TransferTypeOK'
  <2>1. HttpType' /\ RecordType'
    BY <1>0, <1>8 DEF DeviceChange, HttpType, RecordType, httpVars, Asks
  <2>2. FilesType' /\ job' \in Jobs
    BY <1>0, <1>8 DEF DeviceChange, FilesType, hostVars, Jobs
  <2> QED BY <1>0, <1>8, <2>1, <2>2 DEF DeviceChange, Disturbs, TransferTypeOK
<1> QED BY <1>1, <1>2, <1>3, <1>4, <1>5, <1>6, <1>7, <1>8, NextCases
LEMMA JobsDistinctStep ==
    ASSUME TransferTypeOK, JobsDistinct, TransferNext
    PROVE  JobsDistinct'
<1>0. /\ HttpType /\ job \in Jobs /\ slot \in Slots /\ NoRequest \notin Requests
  BY TransferAssumption DEF TransferTypeOK, RecordType
<1> DEFINE Distinct == \A j, k \in 1..Len(chan) : chan[j] = chan[k] => j = k
           Known == \A r \in Requests : handler[r] # "none" => ask[r] \in Asks
           Served(S) == \A r \in Requests : r \in S =>
                           /\ handler[r] \in {"waiting", "answered", "done", "dropped"}
                           /\ handler[r] \in {"answered", "done"} => answer[r] = "timeout"
           JobParts == /\ job.at = "idle" <=> job.req = NoRequest
                       /\ job.at \in {"begun", "open"} => job.error = "none"
           SlotPart == slot.state = "running" => slot.req \in Requests
<1>1. /\ Distinct /\ Known /\ JobParts /\ SlotPart /\ job.req \notin Pending
      /\ Served(Pending \cup {job.req})
  BY DEF JobsDistinct
<1>2. ASSUME Distinct', Known', JobParts', SlotPart', job'.req \notin Pending',
             \A r \in Requests : r \in Pending' \/ job'.req = r =>
                /\ handler'[r] \in {"waiting", "answered", "done", "dropped"}
                /\ handler'[r] \in {"answered", "done"} => answer'[r] = "timeout"
      PROVE  JobsDistinct'
  BY <1>2 DEF JobsDistinct
<1>3. ASSUME UNCHANGED <<httpVars, chan>>
      PROVE  Distinct' /\ Known' /\ Pending' = Pending
             /\ \A r \in Requests : handler'[r] = handler[r] /\ answer'[r] = answer[r]
  BY <1>1, <1>3 DEF httpVars, Pending, Asks
<1>4. ASSUME NEW q \in Requests, HttpStep(q) PROVE JobsDistinct'
  <2>1. UNCHANGED <<job, slot>>
    BY <1>4, HttpCases
  <2>2. JobParts' /\ SlotPart'
    BY <1>1, <2>1
  <2>3. CASE Dispatch(q) /\ up /\ Len(chan) < ChanCap
    <3>1. /\ handler[q] = "staged" /\ chan' = Append(chan, q)
          /\ handler' = [handler EXCEPT ![q] = "waiting"]
          /\ answer' = [answer EXCEPT ![q] = "none"] /\ ask' = ask
      BY <2>3 DEF Dispatch
    <3>2. q \notin Pending /\ q # job.req
      BY <1>1, <3>1
    <3>3. Pending' = Pending \cup {q} /\ Distinct'
      <4>1. q \in Requests \ Pending
        BY <3>2
      <4> QED BY <1>0, <1>1, <3>1, <4>1, ChanFacts DEF HttpType, Pending
    <3>4. Known'
      BY <1>0, <1>1, <3>1 DEF HttpType, Asks
    <3> HIDE DEF Distinct, Known
    <3> QED BY <1>0, <1>1, <1>2, <2>1, <2>2, <3>1, <3>2, <3>3, <3>4 DEF HttpType
  <2>4. CASE ~(Dispatch(q) /\ up /\ Len(chan) < ChanCap)
    <3>1. chan' = chan /\ Pending' = Pending /\ Distinct'
      <4>1. chan' = chan
        BY <1>4, <2>4, HttpCases DEF Stages, Asked, Dispatch, GivesUp, HandlerEnds, HandlerDropped
      <4> QED BY <1>1, <4>1 DEF Pending
    <3>2. Known' /\ \A r \in Requests : r \in Pending \/ job.req = r =>
             /\ handler'[r] \in {"waiting", "answered", "done", "dropped"}
             /\ handler'[r] \in {"answered", "done"} => answer'[r] = "timeout"
      <4>1. ASSUME NEW a \in Asks, Stages(q, a) \/ Asked(q, a)
            PROVE  /\ handler[q] = "none" /\ ask' = [ask EXCEPT ![q] = a]
                   /\ handler' = [handler EXCEPT ![q] = "staged"] /\ answer' = answer
        BY <4>1 DEF Stages, Asked, Arrives
      <4>2. CASE \E a \in Asks : Stages(q, a) \/ Asked(q, a)
        <5>1. PICK a \in Asks : /\ handler[q] = "none" /\ ask' = [ask EXCEPT ![q] = a]
                                /\ handler' = [handler EXCEPT ![q] = "staged"]
                                /\ answer' = answer
          BY <4>1, <4>2
        <5>2. Known'
          BY <1>0, <1>1, <5>1 DEF HttpType, Asks
        <5> QED BY <1>0, <1>1, <5>1, <5>2 DEF HttpType
      <4>3. CASE Dispatch(q)
        <5>1. /\ handler[q] = "staged" /\ handler' = [handler EXCEPT ![q] = "answered"]
              /\ answer' = [answer EXCEPT ![q] = "failed"] /\ ask' = ask
          BY <2>4, <4>3 DEF Dispatch
        <5>2. Known'
          BY <1>0, <1>1, <5>1 DEF HttpType, Asks
        <5> QED BY <1>0, <1>1, <5>1, <5>2 DEF HttpType
      <4>4. CASE GivesUp(q)
        <5>1. /\ handler[q] = "waiting" /\ handler' = [handler EXCEPT ![q] = "answered"]
              /\ answer' = [answer EXCEPT ![q] = "timeout"] /\ ask' = ask
          BY <4>4 DEF GivesUp
        <5>2. Known'
          BY <1>0, <1>1, <5>1 DEF HttpType, Asks
        <5> QED BY <1>0, <1>1, <5>1, <5>2 DEF HttpType
      <4>5. CASE HandlerEnds(q) \/ HandlerDropped(q)
        <5>1. \/ handler[q] = "answered" /\ handler' = [handler EXCEPT ![q] = "done"]
              \/ /\ handler[q] \in {"staged", "waiting"}
                 /\ handler' = [handler EXCEPT ![q] = "dropped"]
          BY <4>5 DEF HandlerEnds, HandlerDropped
        <5>2. answer' = answer /\ ask' = ask
          BY <4>5 DEF HandlerEnds, HandlerDropped
        <5>3. Known'
          BY <1>0, <1>1, <5>1, <5>2 DEF HttpType, Asks
        <5> QED BY <1>0, <1>1, <5>1, <5>2, <5>3 DEF HttpType
      <4> QED BY <1>4, <4>2, <4>3, <4>4, <4>5, HttpCases
    <3> HIDE DEF Distinct, Known
    <3> QED BY <1>1, <1>2, <2>1, <2>2, <3>1, <3>2
  <2> QED BY <2>3, <2>4
<1>5. CASE CancelStep
  <2>1. /\ UNCHANGED <<httpVars, chan, job>>
        /\ slot' = slot \/ slot' = [slot EXCEPT !.cancelled = TRUE]
    BY <1>5, CancelCases
  <2>2. SlotPart' /\ JobParts'
    BY <1>0, <1>1, <2>1 DEF Slots
  <2> HIDE DEF Distinct, Known, SlotPart
  <2> QED BY <1>1, <1>2, <1>3, <2>1, <2>2
<1>6. CASE ServeApps \/ ServePublic
  <2> DEFINE q == Head(chan)
  <2>1. ServeShape(q)
    BY <1>6, ServeCases
  <2>2. /\ q \in Pending /\ q \in Requests /\ Pending' = Pending \ {q} /\ Distinct'
    <3>1. chan \in Seq(Requests) /\ chan # <<>> /\ chan' = Tail(chan)
      BY <1>0, <2>1 DEF ServeShape, HttpType
    <3>2. q \in Pending /\ q \in Requests
      BY <3>1 DEF Pending
    <3>3. /\ {Tail(chan)[n] : n \in 1..Len(Tail(chan))} = Pending \ {q}
          /\ \A j, k \in 1..Len(Tail(chan)) : Tail(chan)[j] = Tail(chan)[k] => j = k
      BY <1>1, <3>1, ChanFacts DEF Pending
    <3>4. Pending' = {Tail(chan)[n] : n \in 1..Len(Tail(chan))}
      BY <3>1 DEF Pending
    <3> QED BY <3>1, <3>2, <3>3, <3>4
  <2> HIDE DEF q
  <2>3. SlotPart' /\ job.req = NoRequest
    BY <1>1, <2>1, IdleFacts DEF ServeShape
  <2>4. CASE /\ job' = [Idle EXCEPT !.req = q, !.at = "begun"]
             /\ UNCHANGED httpVars
    <3>1. job'.req = q /\ job'.at = "begun" /\ job'.error = "none"
      BY <2>2, <2>4, IdleFacts
    <3>2. Known' /\ \A r \in Requests : handler'[r] = handler[r] /\ answer'[r] = answer[r]
      BY <1>1, <2>4 DEF httpVars, Asks
    <3>3. JobParts'
      BY <1>0, <2>2, <3>1
    <3> HIDE DEF Distinct, Known, SlotPart, JobParts
    <3> QED BY <1>1, <1>2, <2>2, <2>3, <3>1, <3>2, <3>3
  <2>5. CASE (\E e \in {"none", "failed"} : Told(q, e)) /\ job' = job
    <3>1. /\ ask' = ask /\ \A r \in Requests : (handler'[r] = "none" <=> handler[r] = "none")
          /\ \A r \in Requests \ {q} : handler'[r] = handler[r] /\ answer'[r] = answer[r]
      BY <1>0, <2>2, <2>5 DEF Told, HttpType
    <3>2. Known'
      BY <1>1, <3>1 DEF Asks
    <3>3. JobParts'
      BY <1>1, <2>5
    <3> HIDE DEF Distinct, Known, SlotPart, JobParts
    <3> QED BY <1>0, <1>1, <1>2, <2>2, <2>3, <2>5, <3>1, <3>2, <3>3
  <2> QED BY <2>1, <2>4, <2>5 DEF ServeShape
<1>7. CASE Transfer /\ ~FinishRecord
  <2>1. /\ job.at # "idle" /\ job.req \in Requests
        /\ job'.req = job.req /\ job'.at \notin {"idle", "begun"}
        /\ job'.at = "open" => job'.error = job.error /\ job.at = "begun"
        /\ UNCHANGED <<httpVars, chan>>
    BY <1>7, WorkKeepsJob
  <2>2. JobParts'
    BY <1>0, <1>1, <2>1
  <2>3. SlotPart'
    <3>1. slot' = Started(job.req) => slot'.req = job.req
      BY DEF Started
    <3>2. slot' = Finished(job.req, job.error) => slot'.req = slot.req \/ slot'.state # "running"
      BY <1>0 DEF Finished, Slots
    <3>3. slot' = Finished(job.req, job.error) /\ slot'.state = "running" => slot.state = "running"
      BY <1>0 DEF Finished, Slots
    <3> QED BY <1>1, <1>7, <2>1, <3>1, <3>2, <3>3, WorkSlot
  <2> HIDE DEF Distinct, Known, SlotPart, JobParts
  <2> QED BY <1>1, <1>2, <1>3, <2>1, <2>2, <2>3
<1>8. CASE FinishRecord
  <2> DEFINE q == job.req
  <2>1. /\ job' = Idle /\ Told(q, job.error) /\ UNCHANGED <<slot, chan>> /\ job.at = "record"
    BY <1>8 DEF FinishRecord
  <2>2. q \in Requests
    BY <1>0, <1>1, <2>1 DEF Jobs
  <2>3. /\ ask' = ask /\ \A r \in Requests : (handler'[r] = "none" <=> handler[r] = "none")
        /\ \A r \in Requests \ {q} : handler'[r] = handler[r] /\ answer'[r] = answer[r]
    BY <1>0, <2>1, <2>2 DEF Told, HttpType
  <2>4. Known' /\ Distinct' /\ Pending' = Pending /\ SlotPart'
    BY <1>1, <2>1, <2>3 DEF Asks, Pending
  <2>5. JobParts' /\ job'.req = NoRequest /\ NoRequest \notin Pending
    <3>1. Pending \subseteq Requests
      BY <1>0 DEF HttpType, Pending
    <3> QED BY <1>0, <2>1, <3>1, IdleFacts
  <2>6. \A r \in Requests : r \in Pending => r # q
    BY <1>1
  <2> HIDE DEF Distinct, Known, SlotPart, JobParts, q
  <2> QED BY <1>0, <1>1, <1>2, <2>3, <2>4, <2>5, <2>6
<1>9. CASE EndSession
  <2>1. /\ chan' = <<>> /\ job' = Idle /\ ask' = ask /\ slot' \in {slot, NoActivity}
        /\ \A r \in Requests : handler[r] = "none" => handler'[r] = "none"
    BY <1>9 DEF EndSession
  <2>2. Distinct' /\ Known' /\ SlotPart' /\ JobParts' /\ Pending' = {} /\ job'.req = NoRequest
    <3>1. Pending' = {} /\ Distinct'
      BY <2>1 DEF Pending
    <3>2. Known'
      BY <1>1, <2>1 DEF Asks
    <3>3. SlotPart' /\ JobParts' /\ job'.req = NoRequest
      BY <1>1, <2>1, IdleFacts
    <3> QED BY <3>1, <3>2, <3>3
  <2> HIDE DEF Distinct, Known, SlotPart, JobParts
  <2> QED BY <1>0, <1>2, <2>2
<1>10. CASE StartSession
  <2>1. UNCHANGED <<httpVars, chan, job>> /\ slot' = NoActivity
    BY <1>10 DEF StartSession
  <2>2. SlotPart' /\ JobParts'
    BY <1>1, <2>1, IdleFacts
  <2> HIDE DEF Distinct, Known, SlotPart, JobParts
  <2> QED BY <1>1, <1>2, <1>3, <2>1, <2>2
<1>11. ASSUME NEW n \in Names, NEW k \in Kinds, DeviceChange(n, k) PROVE JobsDistinct'
  <2>1. /\ UNCHANGED <<httpVars, chan, slot>> /\ job'.req = job.req
        /\ job'.at = job.at /\ job'.error = job.error
    BY <1>0, <1>11 DEF DeviceChange, Jobs
  <2>2. SlotPart' /\ JobParts'
    BY <1>1, <2>1
  <2> HIDE DEF Distinct, Known, SlotPart, JobParts
  <2> QED BY <1>1, <1>2, <1>3, <2>1, <2>2
<1> QED BY <1>4, <1>5, <1>6, <1>7, <1>8, <1>9, <1>10, <1>11, NextCases

-----------------------------------------------------------------------------
(***************************************************************************)
(* What the activity shows.  A running activity belongs to the transfer at *)
(* work, from its opening until its record.                                *)
(***************************************************************************)
Running == up /\ slot.state = "running" =>
              job.req = slot.req /\ job.at \notin {"idle", "begun", "record"}

LEMMA RunningStep ==
    ASSUME TransferTypeOK, JobsDistinct, Running, TransferNext
    PROVE  Running'
<1>0. job \in Jobs /\ slot \in Slots
  BY DEF TransferTypeOK, RecordType
<1>1. ASSUME NEW r \in Requests, HttpStep(r) PROVE Running'
  BY <1>1, HttpCases DEF Running
<1>2. CASE CancelStep
  <2>1. job' = job /\ up' = up /\ slot'.state = slot.state /\ slot'.req = slot.req
    BY <1>0, <1>2, CancelCases DEF Slots
  <2> QED BY <2>1 DEF Running
<1>3. CASE ServeApps \/ ServePublic
  <2>1. up /\ job = Idle /\ slot' = slot
    BY <1>3, ServeCases DEF ServeShape
  <2> QED BY <2>1, IdleFacts DEF Running
<1>4. CASE Transfer /\ ~FinishRecord
  <2>1. /\ job'.req = job.req /\ job'.at \notin {"idle", "begun"} /\ up' = up
        /\ job'.at = "record" => FinishActivity
    BY <1>4, WorkKeepsJob DEF EnteredBy
  <2>2. CASE StartActivity /\ slot' = Started(job.req)
    <3>1. job'.at # "record" /\ slot'.req = job.req
      BY <1>0, <2>2, ToFacts DEF StartActivity, Started, JobStages
    <3> QED BY <2>1, <3>1 DEF Running
  <2>3. CASE FinishActivity /\ slot' = Finished(job.req, job.error)
    <3>1. slot'.state = "running" => slot.state = "running" /\ slot.req # job.req
      BY <1>0, <2>3 DEF Finished, Slots
    <3> QED BY <2>1, <3>1 DEF Running
  <2>4. CASE ~StartActivity /\ ~FinishActivity /\ slot' = slot
    BY <2>1, <2>4 DEF Running
  <2> QED BY <1>4, <2>2, <2>3, <2>4, WorkSlot
<1>5. CASE FinishRecord
  BY <1>5 DEF FinishRecord, Running
<1>6. CASE EndSession
  BY <1>6 DEF EndSession, Running
<1>7. CASE StartSession
  BY <1>7, IdleFacts DEF StartSession, Running
<1>8. ASSUME NEW n \in Names, NEW k \in Kinds, DeviceChange(n, k) PROVE Running'
  <2>1. job'.req = job.req /\ job'.at = job.at /\ slot' = slot /\ up' = up
    BY <1>0, <1>8 DEF DeviceChange, Jobs
  <2> QED BY <2>1 DEF Running
<1> QED BY <1>1, <1>2, <1>3, <1>4, <1>5, <1>6, <1>7, <1>8, NextCases

\* A cancellation that is marked, carried as an error or answered was asked for
\* while its transfer was running.
Cancelled ==
    /\ slot.cancelled => slot.req \in cancelOf
    /\ job.error \in {"cancelled", "wrapped"} => job.req \in cancelOf
    /\ CancelledWhenAsked

LEMMA CancelledStep ==
    ASSUME TransferTypeOK, JobsDistinct, Cancelled, TransferNext
    PROVE  Cancelled'
<1>0. job \in Jobs /\ slot \in Slots /\ HttpType
  BY DEF TransferTypeOK, RecordType
<1>1. ASSUME NEW r \in Requests, HttpStep(r) PROVE Cancelled'
  <2>1. UNCHANGED <<job, slot, cancelOf>>
    BY <1>1, HttpCases
  <2>2. \/ answer' = answer
        \/ \E e \in {"none", "failed", "timeout"} : answer' = [answer EXCEPT ![r] = e]
    BY <1>1, HttpCases DEF Stages, Asked, Dispatch, GivesUp, HandlerEnds, HandlerDropped
  <2> QED BY <1>0, <2>1, <2>2 DEF Cancelled, CancelledWhenAsked, HttpType
<1>2. CASE CancelStep
  <2>1. answer' = answer /\ job' = job /\ cancelOf \subseteq cancelOf'
    BY <1>2, CancelCases DEF httpVars
  <2>2. slot'.cancelled => slot'.req \in cancelOf'
    BY <1>0, <1>2, CancelCases DEF Cancelled, Slots
  <2> QED BY <2>1, <2>2 DEF Cancelled, CancelledWhenAsked
<1>3. CASE ServeApps \/ ServePublic
  <2> DEFINE r == Head(chan)
  <2>1. ServeShape(r) /\ r \in Requests
    <3>1. ServeShape(r)
      BY <1>3, ServeCases
    <3> QED BY <1>0, <3>1 DEF ServeShape, HttpType
  <2> HIDE DEF r
  <2>2. UNCHANGED <<slot, cancelOf>>
    BY <2>1 DEF ServeShape
  <2>3. job'.error \in {"cancelled", "wrapped"} => job' = job
    BY <2>1, IdleFacts DEF ServeShape
  <2>4. \A q \in Requests : answer'[q] \in {"cancelled", "wrapped"} => answer'[q] = answer[q]
    BY <1>0, <2>1 DEF ServeShape, httpVars, Told, HttpType
  <2> QED BY <2>2, <2>3, <2>4 DEF Cancelled, CancelledWhenAsked
<1>4. CASE Transfer /\ ~FinishRecord
  <2>1. /\ job'.req = job.req /\ UNCHANGED <<httpVars, cancelOf>>
        /\ job'.error \in {"cancelled", "wrapped"} =>
              job.error = job'.error \/ IsCancelled(job.req)
    BY <1>4, WorkKeepsJob
  <2>2. slot'.cancelled => slot'.req = slot.req /\ slot.cancelled
    <3>1. /\ ~Started(job.req).cancelled
          /\ Finished(job.req, job.error).req = slot.req
          /\ Finished(job.req, job.error).cancelled = slot.cancelled
      BY <1>0 DEF Started, Finished, Slots
    <3> QED BY <1>4, <3>1, WorkSlot
  <2> QED BY <2>1, <2>2 DEF Cancelled, CancelledWhenAsked, IsCancelled, httpVars
<1>5. CASE FinishRecord
  <2>1. Told(job.req, job.error) /\ job' = Idle /\ UNCHANGED <<slot, cancelOf>>
    BY <1>5 DEF FinishRecord
  <2>2. \A q \in Requests : answer'[q] = answer[q] \/ (q = job.req /\ answer'[q] = job.error)
    BY <1>0, <2>1 DEF Told, HttpType
  <2>3. Idle.error = "none"
    BY DEF Idle
  <2> QED BY <2>1, <2>2, <2>3 DEF Cancelled, CancelledWhenAsked
<1>6. CASE EndSession
  <2>1. /\ job'.error = "none" /\ slot' \in {slot, NoActivity} /\ cancelOf' = cancelOf
        /\ \A q \in Requests : answer'[q] \in {answer[q], "closed"}
    BY <1>6 DEF EndSession, Idle
  <2> QED BY <2>1, IdleFacts DEF Cancelled, CancelledWhenAsked
<1>7. CASE StartSession
  BY <1>7, IdleFacts DEF StartSession, Cancelled, CancelledWhenAsked, httpVars
<1>8. ASSUME NEW n \in Names, NEW k \in Kinds, DeviceChange(n, k) PROVE Cancelled'
  <2>1. /\ job'.req = job.req /\ job'.error = job.error
        /\ UNCHANGED <<slot, answer, cancelOf>>
    BY <1>0, <1>8 DEF DeviceChange, Jobs, httpVars
  <2> QED BY <2>1 DEF Cancelled, CancelledWhenAsked
<1> QED BY <1>1, <1>2, <1>3, <1>4, <1>5, <1>6, <1>7, <1>8, NextCases

-----------------------------------------------------------------------------
(***************************************************************************)
(* Temporaries.  One exists only for a command that was taken, and when    *)
(* its transfer has ended, only for a reason.                              *)
(***************************************************************************)
Unseen(r) == answer[r] \in {"lost", "timeout", "closed"} \/ handler[r] = "dropped"

Temporaries ==
    /\ \A r \in Pending : r \notin temp
    /\ job.at \in {"begun", "open", "inspect", "discard"} => job.req \notin temp
    /\ job.at \in {"finish", "record"} /\ job.req \in temp => job.error \in {"lost", "timeout"}
    /\ \A r \in temp : r # job.req => Unseen(r)
    /\ \A r \in temp : handler[r] \notin {"none", "staged"}
    /\ \A r \in Requests : answer[r] # "none" => handler[r] \in {"answered", "done", "dropped"}

\* A reply reaches the handler that still waits; one that does not has
\* answered, was dropped or gave up.
LEMMA ToldOnce ==
    ASSUME HttpType, JobsDistinct, NEW r \in Requests, r \in Pending \/ job.req = r,
           NEW e \in Errors, Told(r, e)
    PROVE  /\ \A q \in Requests \ {r} : handler'[q] = handler[q] /\ answer'[q] = answer[q]
           /\ handler'[r] \in {"answered", "done", "dropped"}
           /\ \/ answer'[r] = e \/ answer'[r] = "timeout" \/ handler'[r] = "dropped"
BY DEF Told, HttpType, JobsDistinct

LEMMA TemporariesStep ==
    ASSUME TransferTypeOK, JobsDistinct, Temporaries, TransferNext
    PROVE  Temporaries'
<1>0. /\ job \in Jobs /\ HttpType /\ temp \subseteq Requests /\ NoRequest \notin Requests
      /\ Pending \subseteq Requests
  <2>1. HttpType
    BY DEF TransferTypeOK
  <2> QED BY <2>1, TransferAssumption DEF TransferTypeOK, FilesType, HttpType, Pending
<1>1. ASSUME NEW q \in Requests, HttpStep(q) PROVE Temporaries'
  <2>1. job' = job
    BY <1>1, HttpCases
  <2>2. CASE \E a \in Asks : Stages(q, a) \/ Asked(q, a)
    <3>1. /\ handler[q] = "none" /\ handler' = [handler EXCEPT ![q] = "staged"]
          /\ UNCHANGED <<answer, chan, temp>>
      BY <2>2 DEF Stages, Asked, Arrives, hostVars
    <3>2. Pending' = Pending
      BY <3>1 DEF Pending
    <3> QED BY <1>0, <2>1, <3>1, <3>2 DEF Temporaries, Unseen, HttpType
  <2>3. CASE Dispatch(q)
    <3>1. /\ handler[q] = "staged" /\ UNCHANGED temp /\ q \notin temp
          /\ \/ /\ handler' = [handler EXCEPT ![q] = "waiting"]
                /\ answer' = [answer EXCEPT ![q] = "none"]
                /\ chan' = Append(chan, q)
             \/ /\ handler' = [handler EXCEPT ![q] = "answered"]
                /\ answer' = [answer EXCEPT ![q] = "failed"]
                /\ chan' = chan
      BY <2>3 DEF Dispatch, hostVars, Temporaries
    <3>2. \A r \in Pending' : r \in Pending \/ r = q
      <4>1. CASE chan' = Append(chan, q)
        <5>1. /\ Len(chan) \in Nat /\ Len(chan') = Len(chan) + 1
              /\ \A n \in 1..(Len(chan) + 1) : chan'[n] = IF n = Len(chan) + 1 THEN q ELSE chan[n]
          BY <1>0, <4>1 DEF HttpType
        <5> QED BY <5>1 DEF Pending
      <4>2. CASE chan' = chan
        BY <4>2 DEF Pending
      <4> QED BY <3>1, <4>1, <4>2
    <3> QED BY <1>0, <2>1, <3>1, <3>2 DEF Temporaries, Unseen, HttpType
  <2>4. CASE GivesUp(q)
    <3>1. /\ handler[q] = "waiting" /\ handler' = [handler EXCEPT ![q] = "answered"]
          /\ answer' = [answer EXCEPT ![q] = "timeout"] /\ UNCHANGED <<chan, temp>>
      BY <2>4 DEF GivesUp, hostVars
    <3>2. Pending' = Pending
      BY <3>1 DEF Pending
    <3> QED BY <1>0, <2>1, <3>1, <3>2 DEF Temporaries, Unseen, HttpType
  <2>5. CASE HandlerEnds(q) \/ HandlerDropped(q)
    <3>1. /\ temp' \subseteq temp /\ UNCHANGED <<answer, chan>>
          /\ \/ handler[q] = "answered" /\ handler' = [handler EXCEPT ![q] = "done"]
             \/ handler' = [handler EXCEPT ![q] = "dropped"]
      BY <2>5 DEF HandlerEnds, HandlerDropped, hostVars
    <3>2. Pending' = Pending
      BY <3>1 DEF Pending
    <3> QED BY <1>0, <2>1, <3>1, <3>2 DEF Temporaries, Unseen, HttpType
  <2> QED BY <1>1, <2>2, <2>3, <2>4, <2>5, HttpCases
<1>2. CASE CancelStep \/ StartSession
  <2>1. UNCHANGED <<job, handler, answer, temp, chan>>
    BY <1>2, CancelCases DEF StartSession, httpVars, hostVars
  <2>2. Pending' = Pending
    BY <2>1 DEF Pending
  <2> QED BY <2>1, <2>2 DEF Temporaries, Unseen
<1>3. CASE ServeApps \/ ServePublic
  <2> DEFINE q == Head(chan)
  <2>1. ServeShape(q)
    BY <1>3, ServeCases
  <2>2. chan # <<>> /\ chan' = Tail(chan) /\ chan \in Seq(Requests)
    BY <1>0, <2>1 DEF ServeShape, HttpType
  <2>3. q \in Pending /\ q \in Requests /\ \A r \in Pending' : r \in Pending
    <3>1. q \in Pending
      BY <2>2 DEF Pending
    <3>2. Len(chan') = Len(chan) - 1 /\ \A n \in 1..Len(chan') : chan'[n] = chan[n + 1]
      BY <2>2
    <3>3. Len(chan) \in Nat
      BY <2>2
    <3> QED BY <1>0, <3>1, <3>2, <3>3 DEF Pending
  <2> HIDE DEF q
  <2>4. job.req = NoRequest /\ job.at = "idle" /\ temp' = temp /\ q \notin temp
    BY <2>1, <2>3, IdleFacts DEF ServeShape, hostVars, Temporaries
  <2>5. CASE job' = [Idle EXCEPT !.req = q, !.at = "begun"] /\ UNCHANGED httpVars
    <3>1. job'.req = q /\ job'.at = "begun"
      BY <2>3, <2>5, IdleFacts
    <3> QED BY <1>0, <2>3, <2>4, <2>5, <3>1 DEF Temporaries, Unseen, httpVars
  <2>6. CASE (\E e \in {"none", "failed"} : Told(q, e)) /\ job' = job
    <3>1. /\ \A r \in Requests \ {q} : handler'[r] = handler[r] /\ answer'[r] = answer[r]
          /\ handler'[q] \in {"answered", "done", "dropped"}
      BY <1>0, <2>3, <2>6, ToldOnce DEF Errors
    <3> QED BY <1>0, <2>3, <2>4, <2>6, <3>1 DEF Temporaries, Unseen
  <2> QED BY <2>1, <2>5, <2>6 DEF ServeShape
<1>4. CASE Transfer /\ ~FinishRecord
  <2> DEFINE r == job.req
  <2>1. /\ job.at # "idle" /\ r \in Requests /\ job'.req = r /\ job'.at # "begun"
        /\ job'.at = "open" => job.at = "begun"
        /\ EnteredBy(job'.at)
        /\ UNCHANGED <<handler, answer, chan>>
    BY <1>4, WorkKeepsJob DEF httpVars
  <2>2. handler[r] \notin {"none", "staged"} /\ r \notin Pending /\ Pending' = Pending
    BY <2>1 DEF JobsDistinct, Pending
  <2>3. ASSUME temp' \subseteq temp \cup {r},
               job'.at \in {"open", "inspect", "discard"} => r \notin temp',
               job'.at \in {"finish", "record"} /\ r \in temp' => job'.error \in {"lost", "timeout"}
        PROVE  Temporaries'
    BY <1>0, <2>1, <2>2, <2>3 DEF Temporaries, Unseen
  <2>4. /\ temp' \subseteq temp \cup {r}
        /\ job'.at \in {"open", "inspect", "discard"} => r \notin temp'
        /\ job'.at \in {"finish", "record"} /\ r \in temp' => job'.error \in {"lost", "timeout"}
    <3> DEFINE Goal ==
          /\ temp' \subseteq temp \cup {r}
          /\ job'.at \in {"open", "inspect", "discard"} => r \notin temp'
          /\ job'.at \in {"finish", "record"} /\ r \in temp' => job'.error \in {"lost", "timeout"}
    <3>0. ASSUME NEW at \in JobStages, NEW e \in Errors, Fails(at, e)
          PROVE  job'.at = at /\ job'.error = e
      BY <1>0, <3>0, FailsFacts
    <3>00. ASSUME NEW at \in JobStages, To(at)
           PROVE  job'.at = at /\ job'.error = job.error
      BY <1>0, <3>00, ToFacts
    <3>000. /\ {"open", "copy", "commit", "inspect", "swap", "discard", "cleanup", "finish",
                "record"} \subseteq JobStages
            /\ {"failed", "lost", "cancelled", "wrapped", "timeout"} \subseteq Errors
      BY DEF JobStages, Errors
    <3>1. CASE StartActivity
      BY <3>00, <3>000, <3>1 DEF StartActivity, hostVars, Temporaries
    <3>2. CASE OpenShape
      <4>1. job.at = "open" /\ r \notin temp
        BY <3>2 DEF OpenShape, Temporaries
      <4>2. CASE (\E e \in {"failed", "lost", "cancelled"} : Fails("finish", e)) /\ UNCHANGED temp
        BY <3>0, <3>000, <4>1, <4>2
      <4>3. CASE /\ \E k \in Kinds : job' = [job EXCEPT !.at = "copy", !.kind = k]
                 /\ temp' = temp \cup {r}
        BY <1>0, <4>3, OpenFacts
      <4> QED BY <3>2, <4>2, <4>3 DEF OpenShape
    <3>3. CASE CopyShape
      <4>1. temp' = temp /\ job'.at \in {"commit", "cleanup"}
        BY <3>0, <3>00, <3>000, <3>3 DEF CopyShape, copyRest, hostVars
      <4> QED BY <4>1
    <3>4. CASE CommitImport
      <4>1. \/ job'.at = "inspect" /\ temp' = temp \ {r}
            \/ job'.at = "cleanup" /\ temp' = temp
        BY <3>0, <3>00, <3>000, <3>4 DEF CommitImport
      <4> QED BY <4>1
    <3>5. CASE InspectImport
      <4>1. /\ job.at = "inspect" /\ temp' = temp
            /\ job'.at \in {"finish", "cleanup"}
        BY <3>0, <3>00, <3>000, <3>5 DEF InspectImport, hostVars
      <4> QED BY <4>1 DEF Temporaries
    <3>6. CASE CommitExport
      <4>1. temp' = temp /\ job'.at \in {"swap", "cleanup"}
        BY <3>0, <3>00, <3>000, <3>6 DEF CommitExport
      <4> QED BY <4>1
    <3>7. CASE Swap
      <4>1. \/ job'.at = "discard" /\ temp' = temp \ {r}
            \/ job'.at = "cleanup" /\ temp' = temp
        BY <3>0, <3>00, <3>000, <3>7 DEF Swap
      <4> QED BY <4>1
    <3>8. CASE Discard
      <4>1. job.at = "discard" /\ temp' = temp /\ job'.at = "finish"
        BY <3>00, <3>000, <3>8 DEF Discard
      <4> QED BY <4>1 DEF Temporaries
    <3>9. CASE Cleanup
      <4>1. /\ job'.at = "finish" /\ job'.error = job.error /\ temp' \subseteq temp
            /\ r \in temp' => job.error = "lost"
        BY <3>00, <3>000, <3>9 DEF Cleanup
      <4> QED BY <4>1
    <3>10. CASE TransferTimeout
      <4>1. job'.at = "finish" /\ job'.error = "timeout" /\ temp' = temp
        BY <3>0, <3>000, <3>10 DEF TransferTimeout, hostVars
      <4> QED BY <4>1
    <3>11. CASE FinishActivity
      <4>1. /\ job.at = "finish" /\ job'.at = "record" /\ job'.error = job.error
            /\ temp' = temp
        BY <3>00, <3>000, <3>11 DEF FinishActivity, hostVars
      <4> QED BY <4>1 DEF Temporaries
    <3> HIDE DEF Goal
    <3>12. Goal
      BY <1>4, <3>1, <3>2, <3>3, <3>4, <3>5, <3>6, <3>7, <3>8, <3>9, <3>10, <3>11,
         TransferCases DEF Goal
    <3> QED BY <3>12 DEF Goal
  <2> QED BY <2>3, <2>4
<1>5. CASE FinishRecord
  <2>1. /\ job.at = "record" /\ job' = Idle /\ Told(job.req, job.error)
        /\ UNCHANGED <<chan, temp>>
    BY <1>5 DEF FinishRecord, hostVars
  <2>2. Pending' = Pending
    BY <2>1 DEF Pending
  <2>3. PICK r \in Requests : r = job.req
    BY <1>0, <2>1 DEF JobsDistinct, Jobs
  <2>4. PICK e \in Errors : e = job.error
    BY <1>0 DEF Jobs
  <2>5. /\ \A q \in Requests \ {r} : handler'[q] = handler[q] /\ answer'[q] = answer[q]
        /\ handler'[r] \in {"answered", "done", "dropped"}
        /\ \/ answer'[r] = e \/ answer'[r] = "timeout" \/ handler'[r] = "dropped"
    BY <1>0, <2>1, <2>3, <2>4, ToldOnce
  <2>6. \A q \in temp : Unseen(q)'
    BY <1>0, <2>1, <2>3, <2>4, <2>5 DEF Temporaries, Unseen
  <2>7. /\ \A q \in temp : handler'[q] \notin {"none", "staged"}
        /\ \A q \in Requests : answer'[q] # "none" => handler'[q] \in {"answered", "done", "dropped"}
    BY <1>0, <2>5 DEF Temporaries
  <2> QED BY <1>0, <2>1, <2>2, <2>6, <2>7, IdleFacts DEF Temporaries
<1>6. CASE EndSession
  <2>1. /\ job' = Idle /\ chan' = <<>> /\ temp' = temp
        /\ \A q \in Requests :
              \/ handler[q] = "waiting" /\ handler'[q] = "answered" /\ answer'[q] = "closed"
              \/ handler[q] # "waiting" /\ handler'[q] = handler[q] /\ answer'[q] = answer[q]
    BY <1>0, <1>6 DEF EndSession, HttpType, hostVars
  <2>2. \A q \in temp : Unseen(q)'
    BY <1>0, <2>1 DEF Temporaries, Unseen, JobsDistinct
  <2>3. Pending' = {}
    BY <2>1 DEF Pending
  <2>4. /\ \A q \in temp : handler'[q] \notin {"none", "staged"}
        /\ \A q \in Requests : answer'[q] # "none" => handler'[q] \in {"answered", "done", "dropped"}
    BY <1>0, <2>1 DEF Temporaries
  <2> QED BY <2>1, <2>2, <2>3, <2>4, IdleFacts DEF Temporaries
<1>7. ASSUME NEW n \in Names, NEW k \in Kinds, DeviceChange(n, k) PROVE Temporaries'
  <2>1. /\ job'.req = job.req /\ job'.error = job.error /\ job'.at = job.at
        /\ UNCHANGED <<handler, answer, temp, chan>>
    BY <1>0, <1>7 DEF DeviceChange, Jobs, httpVars, hostVars
  <2>2. Pending' = Pending
    BY <2>1 DEF Pending
  <2> QED BY <2>1, <2>2 DEF Temporaries, Unseen
<1> QED BY <1>1, <1>2, <1>3, <1>4, <1>5, <1>6, <1>7, NextCases

-----------------------------------------------------------------------------
(***************************************************************************)
(* Destinations.                                                           *)
(***************************************************************************)
OldFiles == OldFileKept /\ (job.at = "discard" => target[job.req] # "moved")

LEMMA OldFilesStep ==
    ASSUME TransferTypeOK, JobsDistinct, OldFiles, TransferNext
    PROVE  OldFiles'
<1>0. /\ job \in Jobs /\ target \in [Requests -> {"none", "old", "moved", "new"}]
      /\ job.at # "idle" => job.req \in Requests
  BY DEF TransferTypeOK, FilesType, JobsDistinct, Jobs
<1>1. ASSUME NEW r \in Requests, HttpStep(r) PROVE OldFiles'
  <2>1. UNCHANGED <<job, kept>>
    BY <1>1, HttpCases
  <2>2. \A q \in Requests : target'[q] = target[q] \/ target'[q] \in {"none", "old"}
    BY <1>0, <1>1, HttpCases DEF Stages, Asked, Dispatch, GivesUp, HandlerEnds, HandlerDropped,
       hostVars
  <2> QED BY <1>0, <2>1, <2>2 DEF OldFiles, OldFileKept
<1>2. CASE CancelStep \/ StartSession
  <2>1. UNCHANGED <<job, kept, target>>
    BY <1>2, CancelCases DEF StartSession, hostVars
  <2> QED BY <2>1 DEF OldFiles, OldFileKept
<1>3. CASE ServeApps \/ ServePublic
  <2>1. ServeShape(Head(chan))
    BY <1>3, ServeCases
  <2>2. UNCHANGED <<kept, target>> /\ job'.at \in {"idle", "begun"}
    <3>1. [Idle EXCEPT !.req = Head(chan), !.at = "begun"].at = "begun"
      BY DEF Idle
    <3> QED BY <2>1, <3>1, IdleFacts DEF ServeShape, hostVars
  <2> QED BY <2>2 DEF OldFiles, OldFileKept
<1>4. CASE Transfer /\ ~FinishRecord
  <2>1. /\ job.req \in Requests /\ job'.req = job.req
        /\ job'.at = "discard" => Swap
    BY <1>4, WorkKeepsJob DEF EnteredBy
  <2>2. CASE CommitExport
    <3>1. job.at = "commit" /\ job'.at # "discard"
      BY <2>1, <2>2 DEF CommitExport, Swap
    <3>2. OldFileKept'
      BY <1>0, <2>1, <2>2 DEF CommitExport, OldFiles, OldFileKept
    <3> QED BY <3>1, <3>2 DEF OldFiles
  <2>3. CASE Swap
    <3>1. CASE target' = [target EXCEPT ![job.req] = "new"] /\ kept' = kept
      BY <1>0, <2>1, <3>1 DEF OldFiles, OldFileKept
    <3>2. CASE /\ Fails("cleanup", "failed") /\ kept' = kept \ {job.req}
               /\ target' = IF job.req \in kept THEN [target EXCEPT ![job.req] = "old"] ELSE target
      <4>1. job'.at = "cleanup"
        BY <1>0, <3>2, FailsFacts DEF JobStages, Errors
      <4>2. OldFileKept'
        BY <1>0, <2>1, <3>2 DEF OldFiles, OldFileKept
      <4> QED BY <4>1, <4>2 DEF OldFiles
    <3> QED BY <2>3, <3>1, <3>2 DEF Swap
  <2>4. CASE Discard
    <3>1. job'.at # "discard"
      BY <2>1, <2>4 DEF Discard, Swap
    <3>2. OldFileKept'
      BY <1>0, <2>1, <2>4 DEF Discard, OldFiles, OldFileKept
    <3> QED BY <3>1, <3>2 DEF OldFiles
  <2>5. CASE ~CommitExport /\ ~Swap /\ ~Discard
    <3>1. UNCHANGED <<target, kept>>
      BY <1>4, <2>5, TransferCases DEF StartActivity, OpenShape, CopyShape, copyRest, CommitImport,
         InspectImport, Cleanup, TransferTimeout, FinishActivity, hostVars
    <3> QED BY <2>1, <2>5, <3>1 DEF OldFiles, OldFileKept
  <2> QED BY <2>2, <2>3, <2>4, <2>5
<1>5. CASE FinishRecord \/ EndSession
  <2>1. UNCHANGED <<kept, target>> /\ job'.at = "idle"
    BY <1>5, IdleFacts DEF FinishRecord, EndSession, hostVars
  <2> QED BY <2>1 DEF OldFiles, OldFileKept
<1>6. ASSUME NEW n \in Names, NEW k \in Kinds, DeviceChange(n, k) PROVE OldFiles'
  <2>1. job'.req = job.req /\ job'.at = job.at /\ UNCHANGED <<kept, target>>
    BY <1>0, <1>6 DEF DeviceChange, Jobs, hostVars
  <2> QED BY <2>1 DEF OldFiles, OldFileKept
<1> QED BY <1>1, <1>2, <1>3, <1>4, <1>5, <1>6, NextCases

\* The name of an import stays free while it is copied, unless the device
\* itself takes it.
NameFree == job.at \in {"copy", "commit"} /\ ask[job.req].op # "export" /\ ~job.raced =>
                entries[ask[job.req].name] = "none"

LEMMA NameFreeStep ==
    ASSUME TransferTypeOK, JobsDistinct, NameFree, TransferNext
    PROVE  NameFree'
<1>0. /\ job \in Jobs /\ ask \in [Requests -> Asks \cup {NoAsk}]
      /\ job.at # "idle" => job.req \in Requests /\ handler[job.req] # "none"
  BY DEF TransferTypeOK, HttpType, JobsDistinct, Jobs
<1>1. ASSUME NEW r \in Requests, HttpStep(r) PROVE NameFree'
  <2>1. UNCHANGED <<job, entries>>
    BY <1>1, HttpCases
  <2>2. ask' = ask \/ \E a \in Asks : handler[r] = "none" /\ ask' = [ask EXCEPT ![r] = a]
    BY <1>1, HttpCases DEF Stages, Asked, Arrives, Dispatch, GivesUp, HandlerEnds, HandlerDropped
  <2>3. job.at # "idle" => ask'[job.req] = ask[job.req]
    BY <1>0, <2>2
  <2> QED BY <2>1, <2>3 DEF NameFree
<1>2. CASE CancelStep \/ StartSession
  <2>1. UNCHANGED <<job, ask, entries>>
    BY <1>2, CancelCases DEF StartSession, httpVars
  <2> QED BY <2>1 DEF NameFree
<1>3. CASE ServeApps \/ ServePublic
  <2>1. ServeShape(Head(chan))
    BY <1>3, ServeCases
  <2>2. job'.at \in {"idle", "begun"}
    <3>1. [Idle EXCEPT !.req = Head(chan), !.at = "begun"].at = "begun"
      BY DEF Idle
    <3> QED BY <2>1, <3>1, IdleFacts DEF ServeShape
  <2> QED BY <2>2 DEF NameFree
<1>4. CASE Transfer /\ ~FinishRecord
  <2>1. /\ job'.req = job.req /\ ask' = ask /\ job'.raced = job.raced
        /\ job'.at = "copy" => OpenShape
        /\ job'.at = "commit" => CopyShape
    BY <1>4, WorkKeepsJob DEF EnteredBy, httpVars
  <2>2. CASE OpenShape
    <3>1. /\ job.at = "open" /\ UNCHANGED entries
          /\ \/ \E e \in {"failed", "lost", "cancelled"} : Fails("finish", e)
             \/ ask[job.req].op # "export" => entries[ask[job.req].name] = "none"
      BY <2>2 DEF OpenShape
    <3>2. (\E e \in {"failed", "lost", "cancelled"} : Fails("finish", e)) => job'.at = "finish"
      BY <1>0, FailsFacts DEF JobStages, Errors
    <3> QED BY <2>1, <3>1, <3>2 DEF NameFree
  <2>3. CASE CopyShape
    <3>1. job.at = "copy" /\ UNCHANGED entries
      BY <2>3 DEF CopyShape, copyRest
    <3> QED BY <2>1, <3>1 DEF NameFree
  <2>4. CASE ~OpenShape /\ ~CopyShape
    BY <2>1, <2>4 DEF NameFree
  <2> QED BY <2>2, <2>3, <2>4
<1>5. CASE FinishRecord \/ EndSession
  BY <1>5, IdleFacts DEF FinishRecord, EndSession, NameFree
<1>6. ASSUME NEW n \in Names, NEW k \in Kinds, DeviceChange(n, k) PROVE NameFree'
  <2>1. job'.at = job.at /\ job'.raced = (job.req # NoRequest)
    BY <1>0, <1>6 DEF DeviceChange, Jobs
  <2>2. job.at # "idle" => job'.raced
    BY <1>0, <2>1, TransferAssumption
  <2> QED BY <2>1, <2>2 DEF NameFree
<1> QED BY <1>1, <1>2, <1>3, <1>4, <1>5, <1>6, NextCases

\* Only the commit of an import and the device replace an entry of the
\* directory while a transfer commits.
LEMMA ReplaceStep ==
    ASSUME TransferTypeOK, JobsDistinct, NameFree, TransferNext,
           NEW n \in Names, job.at = "commit", entries'[n] # entries[n]
    PROVE  entries[n] = "none" \/ job.raced \/ job'.raced
<1>0. job \in Jobs /\ job.req \in Requests /\ entries \in [Names -> Kinds]
  BY DEF TransferTypeOK, FilesType, JobsDistinct, Jobs
<1>1. ~(\E r \in Requests : HttpStep(r)) /\ ~CancelStep /\ ~StartSession /\ ~EndSession
      /\ ~FinishRecord
  BY HttpCases, CancelCases DEF StartSession, EndSession, FinishRecord
<1>2. ~ServeApps /\ ~ServePublic
  BY ServeCases, IdleFacts DEF ServeShape
<1>3. CASE Transfer
  <2>1. CommitImport
    BY <1>1, <1>3, TransferCases DEF StartActivity, OpenShape, CopyShape, copyRest, InspectImport,
       CommitExport, Swap, Discard, Cleanup, TransferTimeout, FinishActivity
  <2> QED BY <1>0, <2>1 DEF CommitImport, NameFree
<1>4. ASSUME NEW m \in Names, NEW k \in Kinds, DeviceChange(m, k) PROVE job'.raced
  BY <1>0, <1>4, TransferAssumption DEF DeviceChange, Jobs
<1> QED BY <1>1, <1>2, <1>3, <1>4, NextCases

-----------------------------------------------------------------------------
(***************************************************************************)
(* The inductive invariant and what it gives.                              *)
(***************************************************************************)
TransferInv == /\ TransferTypeOK /\ JobsDistinct /\ Running /\ Cancelled
               /\ Temporaries /\ OldFiles /\ NameFree

LEMMA TransferInitInv ==
    ASSUME TransferInit
    PROVE  TransferInv
<1>0. NoRequest \notin Requests /\ Stored \subseteq [Names -> Kinds] /\ Idle.error = "none"
  BY TransferAssumption DEF Idle
<1>1. <<>> \in Seq(Requests) /\ Len(<<>>) = 0
  OBVIOUS
<1>2. HttpType
  BY <1>1 DEF TransferInit, HttpType, Errors
<1>3. RecordType /\ FilesType
  BY <1>0, IdleFacts DEF TransferInit, RecordType, FilesType, Kinds
<1>4. TransferTypeOK
  BY <1>2, <1>3, IdleFacts DEF TransferInit, TransferTypeOK
<1>5. Pending = {}
  BY <1>1 DEF TransferInit, Pending
<1>6. JobsDistinct
  <2>1. job.at = "idle" /\ job.req = NoRequest /\ slot.state = "idle" /\ chan = <<>>
    BY IdleFacts DEF TransferInit
  <2>2. \A r \in Requests : handler[r] = "none"
    BY DEF TransferInit
  <2>3. \A j, k \in 1..Len(chan) : chan[j] = chan[k] => j = k
    BY <1>1, <2>1
  <2> QED BY <1>0, <1>5, <2>1, <2>2, <2>3 DEF JobsDistinct
<1>7. Running /\ OldFiles /\ NameFree
  BY IdleFacts DEF TransferInit, Running, OldFiles, OldFileKept, NameFree
<1>8. Cancelled
  BY <1>0, IdleFacts DEF TransferInit, Cancelled, CancelledWhenAsked
<1>9. Temporaries
  BY <1>5, IdleFacts DEF TransferInit, Temporaries
<1> QED BY <1>4, <1>6, <1>7, <1>8, <1>9 DEF TransferInv

LEMMA TransferStutter ==
    ASSUME TransferInv, UNCHANGED transferVars
    PROVE  TransferInv'
<1>0. /\ UNCHANGED <<service, ask, handler, answer, delayed, staging, chan, job>>
      /\ UNCHANGED <<client, slot, opPhase, asking, cancelOf, temp, target, kept>>
      /\ UNCHANGED <<entries, up, faults>>
  BY DEF transferVars
<1>1. TransferTypeOK'
  BY <1>0 DEF TransferInv, TransferTypeOK, HttpType, RecordType, FilesType, Asks
<1>2. Pending' = Pending
  BY <1>0 DEF Pending
<1>3. JobsDistinct'
  BY <1>0, <1>2 DEF TransferInv, JobsDistinct, Asks
<1>4. Running' /\ Cancelled' /\ OldFiles' /\ NameFree'
  BY <1>0 DEF TransferInv, Running, Cancelled, CancelledWhenAsked, OldFiles, OldFileKept, NameFree
<1>5. Temporaries'
  BY <1>0, <1>2 DEF TransferInv, Temporaries, Unseen
<1> QED BY <1>1, <1>3, <1>4, <1>5 DEF TransferInv

LEMMA TransferInductive ==
    ASSUME TransferInv, [TransferNext]_transferVars
    PROVE  TransferInv'
<1>1. CASE TransferNext
  BY <1>1, TypeStep, JobsDistinctStep, RunningStep, CancelledStep, TemporariesStep, OldFilesStep,
     NameFreeStep DEF TransferInv
<1>2. CASE UNCHANGED transferVars
  BY <1>2, TransferStutter
<1> QED BY <1>1, <1>2

LEMMA TransferInvHolds == TransferSpec => []TransferInv
BY TransferInitInv, TransferInductive, PTL DEF TransferSpec

\* The variables of Transfers hold what their comments say, whatever is asked,
\* cancelled, timed out, dropped or torn down.
THEOREM TransferTypes == TransferSpec => []TransferTypeOK
<1>1. TransferInv => TransferTypeOK
  BY DEF TransferInv
<1> QED BY <1>1, TransferInvHolds, PTL

\* A running activity is always that of the transfer the service works on,
\* also in the session after one whose service was aborted (activity.start,
\* finish and reset of core storage.rs).
THEOREM RunningIsServed == TransferSpec => []RunningServed
<1>1. TransferInv => RunningServed
  BY DEF TransferInv, Running, RunningServed
<1> QED BY <1>1, TransferInvHolds, PTL

\* No handler hears that its transfer was cancelled unless a cancellation was
\* accepted while that very transfer was running.
THEOREM CancelledIsAsked == TransferSpec => []CancelledWhenAsked
<1>1. TransferInv => CancelledWhenAsked
  BY DEF TransferInv, Cancelled
<1> QED BY <1>1, TransferInvHolds, PTL

\* A temporary that outlives its transfer is explained by a lost connection, a
\* timeout, the end of the session, or a handler that was dropped.
THEOREM TemporariesExplained == TransferSpec => []TemporariesRemoved
<1>1. TransferInv => TemporariesRemoved
  BY DEF TransferInv, TransferTypeOK, FilesType, Temporaries, Unseen, TemporariesRemoved
<1> QED BY <1>1, TransferInvHolds, PTL

\* replace_local_file never loses the file an export replaces, wherever the
\* export is cancelled, fails, times out or is aborted.
THEOREM OldFileSafe == TransferSpec => []OldFileKept
<1>1. TransferInv => OldFileKept
  BY DEF TransferInv, OldFiles
<1> QED BY <1>1, TransferInvHolds, PTL

\* A committed import takes a free name, unless the device itself changed its
\* directory during the transfer.
THEOREM ImportTakesFreeName == TransferSpec => NeverReplaces
<1> DEFINE Replaces == \A n \in Names :
                          job.at = "commit" /\ entries'[n] # entries[n] =>
                              entries[n] = "none" \/ job.raced \/ job'.raced
<1>1. ASSUME TransferInv, [TransferNext]_transferVars PROVE [Replaces]_transferVars
  BY <1>1, ReplaceStep DEF TransferInv
<1> QED BY <1>1, TransferInvHolds, PTL DEF TransferSpec, NeverReplaces
=============================================================================
