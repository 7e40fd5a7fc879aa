---------------------------- MODULE ServicesProofs ----------------------------
(***************************************************************************)
(* Proofs about the services of a session that answer requests over a      *)
(* connection to the device, each in a section of its own, for every set   *)
(* of requests and every length of a run.                                  *)
(***************************************************************************)
EXTENDS DeviceQueries, WdaServices, Simulation, SessionRouter, McpInput, Clipboard,
        AppControl, ImageMount, FiniteSetTheorems, TLAPS

(***************************************************************************)
(* DeviceQueries.  A client that a service keeps never owes an answer, so  *)
(* the next answer is that to the next call; and a call that changes the   *)
(* device is made by provisioning only, for a caller that was waiting.     *)
(***************************************************************************)
Reads == {"copy_all", "verify", "find", "icon_state", "wallpaper", "registry", "value",
          "running", "is_running", "name", "apps", "processes", "fetch"}
QueryJobs == [id : Requests \cup {NoRequest}, sources : Seq(Connections),
              todo : Seq(Reads \cup Mutating), tainted : {FALSE}, found : {{}}]

QueryShape ==
    /\ clients \in [Connections -> {"none", "clean"}]
    /\ channel \in Seq(Requests) /\ job \in QueryJobs
    /\ job # NoJob => job.sources # <<>>

OwnAnswers == mixed = {}

OwnChanges ==
    /\ changed \subseteq taken
    /\ job # NoJob =>
          /\ service = "provisioning" => job.id \in taken
          /\ service # "provisioning" => job.todo \in Seq(Reads)

QueryInv == QueryShape /\ OwnAnswers /\ OwnChanges

LEMMA ShortSequences ==
    ASSUME NEW S
    PROVE  /\ <<>> \in Seq(S)
           /\ \A a \in S : <<a>> \in Seq(S) /\ <<a>> # <<>>
           /\ \A a, b \in S : <<a, b>> \in Seq(S) /\ <<a, b>> # <<>>
           /\ \A a, b, c \in S : <<a, b, c>> \in Seq(S) /\ <<a, b, c>> # <<>>
OBVIOUS

LEMMA TakeFacts ==
    ASSUME NEW S, NEW q \in Seq(S), q # <<>>
    PROVE  /\ Head(q) \in S /\ Tail(q) \in Seq(S)
           /\ Len(q) > 1 => Tail(q) # <<>>
<1>1. Len(q) \in Nat /\ Head(q) \in S /\ Tail(q) \in Seq(S) /\ Len(Tail(q)) = Len(q) - 1
  OBVIOUS
<1>2. ASSUME Len(q) > 1 PROVE Tail(q) # <<>>
  <2>1. Len(Tail(q)) > 0
    BY <1>1, <1>2
  <2>2. ~(Len(<<>>) > 0)
    OBVIOUS
  <2> QED BY <2>1, <2>2
<1> QED BY <1>1, <1>2

LEMMA NoJobFacts == NoJob \in QueryJobs
BY ShortSequences DEF NoJob, QueryJobs

\* What a command asks of the device, and whom.
LEMMA CallsFacts ==
    ASSUME NEW cmd, NEW calls \in Calls(cmd)
    PROVE  /\ calls \in Seq(Reads \cup Mutating)
           /\ service # "provisioning" => calls \in Seq(Reads)
<1>1. CASE service = "provisioning"
  <2>1. calls \in {<<"copy_all">>, <<"install", "verify">>, <<"find", "remove", "verify">>,
                   <<"find", "trust">>}
    BY <1>1 DEF Calls, ProvisioningCalls
  <2> DEFINE S == Reads \cup Mutating
  <2>2. {"copy_all", "install", "verify", "find", "remove", "trust"} \subseteq S
    BY DEF Reads, Mutating
  <2> HIDE DEF S
  <2>3. calls \in Seq(S)
    BY <2>1, <2>2, ShortSequences
  <2> QED BY <1>1, <2>3 DEF S
<1>2. CASE service # "provisioning"
  <2>1. \/ calls \in {<<"icon_state">>, <<"wallpaper">>, <<"running">>, <<"fetch">>}
        \/ calls \in {<<"registry", "value">>, <<"is_running", "name">>, <<"apps", "processes">>}
        \/ calls \in {<<"is_running", "is_running", "name">>, <<"apps", "processes", "processes">>}
    BY <1>2 DEF Calls, HomeScreenCalls, CompanionCalls, ProcessCalls, LifecycleCalls
  <2> DEFINE names == {"icon_state", "wallpaper", "registry", "value", "running", "is_running", "name", "apps",
                       "processes", "fetch"}
  <2>2. names \subseteq Reads
    BY DEF Reads
  <2>3. calls \in Seq(Reads)
    <3>1. ASSUME NEW a \in names PROVE <<a>> \in Seq(Reads)
      BY <2>2, <3>1, ShortSequences
    <3>2. ASSUME NEW a \in names, NEW b \in names PROVE <<a, b>> \in Seq(Reads)
      BY <2>2, <3>2, ShortSequences
    <3>3. ASSUME NEW a \in names, NEW b \in names, NEW c \in names PROVE <<a, b, c>> \in Seq(Reads)
      BY <2>2, <3>3, ShortSequences
    <3>4. CASE calls \in {<<"icon_state">>, <<"wallpaper">>, <<"running">>, <<"fetch">>}
      BY <3>1, <3>4
    <3>5. CASE calls \in {<<"registry", "value">>, <<"is_running", "name">>, <<"apps", "processes">>}
      BY <3>2, <3>5
    <3>6. CASE calls \in {<<"is_running", "is_running", "name">>, <<"apps", "processes", "processes">>}
      BY <3>3, <3>6
    <3> QED BY <2>1, <3>4, <3>5, <3>6
  <2>4. Reads \subseteq Reads \cup Mutating
    OBVIOUS
  <2>5. calls \in Seq(Reads \cup Mutating)
    BY <2>3, <2>4
  <2> QED BY <1>2, <2>3, <2>5
<1> QED BY <1>1, <1>2

LEMMA SourcesFacts == Sources \in Seq(Connections) /\ Sources # <<>>
<1>1. {"main", "core", "springboard", "screenshotr", "dvt"} \subseteq Connections
  BY DEF Connections
<1>2. ScreenshotSources \in Seq(Connections) /\ ScreenshotSources # <<>>
  <2>1. PICK had \in {<<"core">>, <<"screenshotr">>, <<>>} :
           ScreenshotSources = had \o <<"core", "screenshotr", "dvt">>
    BY DEF ScreenshotSources
  <2>2. had \in Seq(Connections) /\ <<"core", "screenshotr", "dvt">> \in Seq(Connections)
    BY <1>1, ShortSequences
  <2>3. Len(ScreenshotSources) = Len(had) + 3 /\ Len(had) \in Nat
    BY <2>1, <2>2
  <2> QED BY <2>1, <2>2, <2>3
<1> QED BY <1>1, <1>2, ShortSequences DEF Sources, IconSources

\* A command that is given up, or goes on with its next source.
LEMMA FailsFacts ==
    ASSUME QueryShape, job # NoJob, NEW why, NEW late \in BOOLEAN,
           late => why = "timeout", QueryFails(why, late)
    PROVE  /\ clients' \in [Connections -> {"none", "clean"}]
           /\ job' \in QueryJobs
           /\ job' # NoJob => /\ job'.sources # <<>>
                              /\ job'.id = job.id /\ job'.todo = job.todo
<1>1. late => ~KeepsClient(why)
  BY DEF KeepsClient
<1>2. clients' \in [Connections -> {"none", "clean"}]
  BY <1>1 DEF QueryShape, QueryFails
<1>3. CASE job' = NoJob
  BY <1>2, <1>3, NoJobFacts
<1>4. CASE Len(job.sources) > 1 /\ job' = [job EXCEPT !.sources = Tail(@)]
  <2>1. job.sources \in Seq(Connections)
    BY DEF QueryShape, QueryJobs
  <2>2. Tail(job.sources) \in Seq(Connections) /\ Tail(job.sources) # <<>>
    BY <1>4, <2>1, TakeFacts DEF QueryShape
  <2> QED BY <1>2, <1>4, <2>2 DEF QueryShape, QueryJobs
<1> QED BY <1>3, <1>4 DEF QueryFails

LEMMA QueryStep ==
    ASSUME QueryInv, QueryNext
    PROVE  QueryInv'
<1>0. QueryShape /\ mixed = {} /\ OwnChanges
  BY DEF QueryInv, OwnAnswers
<1> DEFINE Kept == UNCHANGED <<service, clients, job, mixed, taken, changed>>
<1>1. ASSUME Kept, channel' \in Seq(Requests) PROVE QueryInv'
  BY <1>0, <1>1 DEF QueryInv, QueryShape, OwnAnswers, OwnChanges, NoJob
<1>2. ASSUME NEW r \in Requests, NEW cmd \in Commands, Ask(r, cmd) PROVE QueryInv'
  <2>1. channel' \in Seq(Requests)
    BY <1>0, <1>2 DEF Ask, QueryShape
  <2> QED BY <1>1, <1>2, <2>1 DEF Ask, deviceVars
<1>3. ASSUME NEW r \in Requests, GiveUp(r) PROVE QueryInv'
  BY <1>0, <1>1, <1>3 DEF GiveUp, deviceVars, QueryShape
<1>4. CASE ConnectProvisioning \/ Connect
  <2>1. /\ UNCHANGED <<service, channel, job, mixed, taken, changed>>
        /\ clients' \in [Connections -> {"none", "clean"}]
    BY <1>0, <1>4 DEF ConnectProvisioning, Connect, deviceVars, QueryShape
  <2> QED BY <1>0, <2>1 DEF QueryInv, QueryShape, OwnAnswers, OwnChanges, NoJob
<1>5. CASE TakeCommand
  <2> DEFINE r == Head(channel)
  <2>1. r \in Requests /\ channel' \in Seq(Requests)
    BY <1>0, <1>5, TakeFacts DEF TakeCommand, QueryShape
  <2>2. UNCHANGED <<service, clients, mixed, changed>> /\ job = NoJob
    BY <1>5 DEF TakeCommand, deviceVars
  <2>3. CASE UNCHANGED <<job, taken>>
    BY <1>1, <2>1, <2>2, <2>3
  <2>4. ASSUME NEW calls \in Calls(asked[r]), ActiveReply(r),
               job' = [NoJob EXCEPT !.id = r, !.sources = Sources, !.todo = calls],
               taken' = IF caller[r] = "waiting" THEN taken \cup {r} ELSE taken
        PROVE  QueryInv'
    <3>1. /\ job'.id = r /\ job'.sources = Sources /\ job'.todo = calls
          /\ ~job'.tainted /\ job'.found = {} /\ job' \in QueryJobs
      BY <2>1, <2>4, CallsFacts, SourcesFacts, NoJobFacts DEF NoJob, QueryJobs
    <3>2. service = "provisioning" => job'.id \in taken'
      BY <2>4, <3>1 DEF ActiveReply
    <3>3. service # "provisioning" => job'.todo \in Seq(Reads)
      BY <2>4, <3>1, CallsFacts
    <3>4. taken \subseteq taken'
      BY <2>4
    <3> QED BY <1>0, <2>1, <2>2, <3>1, <3>2, <3>3, <3>4, SourcesFacts
            DEF QueryInv, QueryShape, OwnAnswers, OwnChanges
  <2> QED BY <1>5, <2>3, <2>4 DEF TakeCommand
<1>6. ASSUME job # NoJob, NEW why, NEW late \in BOOLEAN, late => why = "timeout",
             QueryFails(why, late), UNCHANGED <<service, channel, mixed, taken>>,
             changed' \subseteq taken
      PROVE  QueryInv'
  BY <1>0, <1>6, FailsFacts DEF QueryInv, QueryShape, OwnAnswers, OwnChanges
<1>7. CASE ConnectFails
  BY <1>0, <1>6, <1>7 DEF ConnectFails, deviceVars, OwnChanges
<1>8. ASSUME job # NoJob, job.todo # <<>>, DoneBy(Head(job.todo)), UNCHANGED taken
      PROVE  changed' \subseteq taken
  <2>1. CASE Head(job.todo) \notin Mutating
    BY <1>0, <1>8, <2>1 DEF DoneBy, OwnChanges
  <2>2. CASE Head(job.todo) \in Mutating
    <3>1. service = "provisioning"
      <4>1. job.todo \in Seq(Reads) => Head(job.todo) \in Reads
        BY <1>8, TakeFacts
      <4>2. Head(job.todo) \notin Reads
        BY <2>2 DEF Reads, Mutating
      <4> QED BY <1>0, <1>8, <4>1, <4>2 DEF OwnChanges
    <3> QED BY <1>0, <1>8, <2>2, <3>1 DEF DoneBy, OwnChanges
  <2> QED BY <2>1, <2>2
<1>9. ASSUME job # NoJob, job.todo # <<>>, job' = [job EXCEPT !.todo = Tail(@)],
             UNCHANGED <<service, clients, channel, mixed, taken>>, changed' \subseteq taken
      PROVE  QueryInv'
  <2>1. /\ job' \in QueryJobs /\ job'.sources = job.sources /\ job'.id = job.id
        /\ job'.todo = Tail(job.todo)
    <3>1. job.todo \in Seq(Reads \cup Mutating)
      BY <1>0 DEF QueryShape, QueryJobs
    <3>2. Tail(job.todo) \in Seq(Reads \cup Mutating)
      BY <1>9, <3>1, TakeFacts
    <3> QED BY <1>0, <1>9, <3>2 DEF QueryShape, QueryJobs
  <2>2. job.todo \in Seq(Reads) => Tail(job.todo) \in Seq(Reads)
    BY <1>9, TakeFacts
  <2> QED BY <1>0, <1>9, <2>1, <2>2 DEF QueryInv, QueryShape, OwnAnswers, OwnChanges
<1>10. CASE CallAnswered
  <2>1. /\ job # NoJob /\ job.todo # <<>> /\ clients[Source] # "none" /\ DoneBy(Head(job.todo))
        /\ UNCHANGED <<service, channel, mixed, taken>>
    BY <1>10 DEF CallAnswered
  <2>2. changed' \subseteq taken
    BY <1>8, <2>1
  <2>3. CASE /\ job' = [job EXCEPT !.todo = Tail(@), !.tainted = @ \/ clients[Source] = "late"]
             /\ UNCHANGED clients
    <3>1. Source \in Connections
      <4>1. job.sources \in Seq(Connections) /\ job.sources # <<>>
        BY <1>0, <2>1 DEF QueryShape, QueryJobs
      <4> QED BY <4>1, TakeFacts DEF Source
    <3>2. clients[Source] # "late"
      BY <1>0, <3>1 DEF QueryShape
    <3>3. job' = [job EXCEPT !.todo = Tail(@)]
      BY <1>0, <2>3, <3>2 DEF QueryShape, QueryJobs
    <3> QED BY <1>9, <2>1, <2>2, <2>3, <3>3
  <2>4. CASE QueryFails("refused", FALSE)
    BY <1>6, <2>1, <2>2, <2>4
  <2> QED BY <1>10, <2>3, <2>4 DEF CallAnswered
<1>11. CASE CallFails
  <2>1. /\ job # NoJob /\ job.todo # <<>> /\ changed' \subseteq taken
        /\ UNCHANGED <<service, channel, mixed, taken>>
    BY <1>0, <1>11 DEF CallFails, deviceVars, OwnChanges
  <2>2. CASE Head(job.todo) \in {"value", "name"}
    BY <1>9, <1>11, <2>1, <2>2 DEF CallFails
  <2>3. CASE Head(job.todo) \notin {"value", "name"}
    <3>1. PICK why : QueryFails(why, FALSE)
      BY <1>11, <2>3 DEF CallFails
    <3> QED BY <1>6, <2>1, <3>1
  <2> QED BY <2>2, <2>3
<1>12. CASE CallTimesOut
  <2> DEFINE call == Head(job.todo)
  <2>1. /\ job # NoJob /\ job.todo # <<>> /\ UNCHANGED <<service, channel, mixed, taken>>
        /\ DoneBy(call) \/ UNCHANGED deviceVars
        /\ QueryFails(IF call = "trust" THEN "trust" ELSE "timeout", call # "trust")
    BY <1>12 DEF CallTimesOut
  <2>2. changed' \subseteq taken
    BY <1>0, <1>8, <2>1 DEF deviceVars, OwnChanges
  <2> QED BY <1>6, <2>1, <2>2
<1>13. CASE Finish
  <2>1. /\ job' = NoJob /\ job # NoJob /\ UNCHANGED <<service, channel, taken, changed>>
        /\ mixed' = {}
    BY <1>0, <1>13 DEF Finish, deviceVars, QueryShape, QueryJobs
  <2>2. clients' \in [Connections -> {"none", "clean"}]
    BY <1>0, <1>13 DEF Finish, QueryShape
  <2> QED BY <1>0, <2>1, <2>2, NoJobFacts DEF QueryInv, QueryShape, OwnAnswers, OwnChanges, NoJob
<1>14. CASE EndQueries
  <2>1. /\ job' = NoJob /\ channel' = <<>> /\ UNCHANGED <<service, mixed, taken, changed>>
        /\ clients' \in [Connections -> {"none", "clean"}]
    BY <1>14 DEF EndQueries, deviceVars
  <2>2. channel' \in Seq(Requests) /\ NoJob' = NoJob
    BY <2>1, ShortSequences DEF NoJob
  <2> QED BY <1>0, <2>1, <2>2, NoJobFacts DEF QueryInv, QueryShape, OwnAnswers, OwnChanges
<1> QED BY <1>2, <1>3, <1>4, <1>5, <1>7, <1>10, <1>11, <1>12, <1>13, <1>14 DEF QueryNext

LEMMA QueryInvHolds == QuerySpec => []QueryInv
<1>1. QueryInit => QueryInv
  BY NoJobFacts, ShortSequences DEF QueryInit, QueryInv, QueryShape, OwnAnswers, OwnChanges
<1>2. QueryInv /\ UNCHANGED queryVars => QueryInv'
  BY DEF QueryInv, QueryShape, OwnAnswers, OwnChanges, queryVars, NoJob
<1> QED BY <1>1, <1>2, QueryStep, PTL DEF QuerySpec

\* No service hands out the answer to another request: every connection with
\* an answer still to come is given up, over all returns, fallbacks and
\* retries (client.take(), reconnect_service, CoreDeviceIconSource::failed).
THEOREM OwnAnswersOnly == QuerySpec => []AnswersOwn
<1>1. QueryInv => AnswersOwn
  BY DEF QueryInv, OwnAnswers, AnswersOwn
<1> QED BY <1>1, QueryInvHolds, PTL

\* A profile is installed, removed or trusted only for a caller that still
\* waited when the service took its request up (active_reply).
THEOREM NothingForTheGone == QuerySpec => []AbandonedUntouched
<1>1. QueryInv => AbandonedUntouched
  BY DEF QueryInv, OwnChanges, AbandonedUntouched
<1> QED BY <1>1, QueryInvHolds, PTL

-----------------------------------------------------------------------------
(***************************************************************************)
(* WdaServices.  A runner that is on the device, or may still get there,   *)
(* is the one the service waits for or manages, as long as it serves; in   *)
(* the first session there is only one.                                    *)
(***************************************************************************)
WdaSpec == WdaInit /\ [][RunnerNext(RunnerAsks) \/ AutomationNext]_wdaVars

RunStages == {"none", "probing", "booting", "ready", "returned", "failed", "ended"}
Live(r) == runs[r] \in {"probing", "booting", "ready", "returned"}

RunnerType ==
    /\ wdaSessions \in Nat \ {0}
    /\ serving \in {"running", "stopping", "ending", "ended"}
    /\ runnerQueue \in Seq(RunnerAsks)
    /\ startup \in RunnerAsks \cup {NoRunner} /\ managedRunner \in RunnerAsks \cup {NoRunner}
    /\ runs \in [RunnerAsks -> RunStages]

RunsOwned ==
    /\ \A r \in RunnerAsks : runs[r] = "returned" => r = managedRunner
    /\ managedRunner # NoRunner => runs[managedRunner] = "returned" /\ startup = NoRunner

OneRunner ==
    wdaSessions = 1 =>
        /\ \A q, r \in RunnerAsks : Live(q) /\ Live(r) => q = r
        /\ serving # "ended" => \A r \in RunnerAsks : Live(r) => r \in {startup, managedRunner}

RunnerRecord ==
    /\ serving # "ended" => ((startup # NoRunner \/ managedRunner # NoRunner) <=> runnerOp = "active")
    /\ serving = "running" => (runnerPhase \in {"starting", "running"} <=> runnerOp = "active")
    /\ serving = "ended" => startup = NoRunner /\ managedRunner = NoRunner /\ runnerPhase = "stopped"

WdaInv == RunnerType /\ RunsOwned /\ OneRunner /\ RunnerRecord

LEMMA WdaStep ==
    ASSUME WdaInv, RunnerNext(RunnerAsks) \/ AutomationNext
    PROVE  WdaInv'
<1>0. /\ RunnerType /\ RunsOwned /\ OneRunner /\ RunnerRecord /\ NoRunner \notin RunnerAsks
  BY WdaAssumption DEF WdaInv
<1>1. ASSUME UNCHANGED <<wdaSessions, serving, startup, managedRunner, runnerPhase, runnerOp, runs>>,
             runnerQueue' \in Seq(RunnerAsks)
      PROVE  WdaInv'
  BY <1>0, <1>1 DEF WdaInv, RunnerType, RunsOwned, OneRunner, RunnerRecord, Live
<1>2. CASE AutomationNext
  <2>1. UNCHANGED <<wdaSessions, runnerVars>>
    BY <1>2 DEF AutomationNext, AskWda, WdaExpires, TakeWda, StartSession, WdaCall, WdaFails
  <2> QED BY <1>0, <1>1, <2>1 DEF runnerVars, RunnerType
<1>3. ASSUME NEW r \in RunnerAsks, NEW op, AskRunner(r, op) PROVE WdaInv'
  BY <1>0, <1>1, <1>3 DEF AskRunner, RunnerType
<1>4. ASSUME NEW r \in RunnerAsks, RunnerCallerLeaves(r) PROVE WdaInv'
  BY <1>0, <1>1, <1>4 DEF RunnerCallerLeaves, RunnerType
<1>5. ASSUME NEW r \in RunnerAsks, NEW s \in RunStages \ {"returned"},
             runs[r] \in {"probing", "booting", "ready"}, runs' = [runs EXCEPT ![r] = s],
             UNCHANGED <<wdaSessions, serving, startup, managedRunner, runnerPhase, runnerOp, runnerQueue>>
      PROVE  WdaInv'
  <2>1. \A q \in RunnerAsks : runs'[q] = IF q = r THEN s ELSE runs[q]
    BY <1>0, <1>5 DEF RunnerType
  <2>2. RunnerType' /\ RunnerRecord'
    BY <1>0, <1>5 DEF RunnerType, RunnerRecord
  <2>3. RunsOwned'
    BY <1>0, <1>5, <2>1 DEF RunnerType, RunsOwned
  <2>4. \A q \in RunnerAsks : Live(q)' => Live(q)
    BY <1>5, <2>1 DEF Live
  <2>5. OneRunner'
    BY <1>0, <1>5, <2>4 DEF OneRunner
  <2> QED BY <2>2, <2>3, <2>5 DEF WdaInv
<1>6. ASSUME NEW r \in RunnerAsks, OrphanDropped(r) PROVE WdaInv'
  BY <1>5, <1>6 DEF OrphanDropped, RunStages
<1>7. ASSUME NEW r \in RunnerAsks, NEW ok \in BOOLEAN, Preflight(r, ok) \/ Boots(r, ok) PROVE WdaInv'
  BY <1>5, <1>7 DEF Preflight, Boots, RunStages
<1>8. CASE TakeRunnerStart
  <2> DEFINE r == Head(runnerQueue)
  <2>1. /\ r \in RunnerAsks /\ runnerQueue' \in Seq(RunnerAsks) /\ serving = "running"
        /\ UNCHANGED <<wdaSessions, serving, managedRunner>>
    BY <1>0, <1>8, TakeFacts DEF TakeRunnerStart, RunnerType
  <2>2. CASE startup # NoRunner \/ managedRunner # NoRunner
    BY <1>1, <1>8, <2>1, <2>2 DEF TakeRunnerStart
  <2>3. CASE startup = NoRunner /\ managedRunner = NoRunner
    <3>1. /\ startup' = r /\ runs' = [runs EXCEPT ![r] = "probing"]
          /\ runnerPhase' = "starting" /\ runnerOp' = "active"
      BY <1>8, <2>3 DEF TakeRunnerStart
    <3> HIDE DEF r
    <3>2. \A q \in RunnerAsks : runs'[q] = IF q = r THEN "probing" ELSE runs[q]
      BY <1>0, <3>1 DEF RunnerType
    <3>3. RunnerType' /\ RunnerRecord'
      BY <1>0, <2>1, <3>1 DEF RunnerType, RunnerRecord, RunStages
    <3>4. RunsOwned'
      BY <1>0, <2>1, <2>3, <3>2 DEF RunsOwned
    <3>5. OneRunner'
      BY <1>0, <2>1, <2>3, <3>1, <3>2 DEF OneRunner, Live
    <3> QED BY <3>3, <3>4, <3>5 DEF WdaInv
  <2> QED BY <2>2, <2>3
<1>9. CASE StartupDone
  <2>1. /\ serving = "running" /\ startup \in RunnerAsks /\ managedRunner = NoRunner
        /\ startup' = NoRunner /\ UNCHANGED <<wdaSessions, serving, runnerQueue>>
        /\ runnerOp = "active"
    BY <1>0, <1>9 DEF StartupDone, RunnerType, RunsOwned, RunnerRecord
  <2>2. CASE runs[startup] = "ready"
    <3>1. /\ managedRunner' = startup /\ runs' = [runs EXCEPT ![startup] = "returned"]
          /\ runnerPhase' = "running" /\ runnerOp' = runnerOp
      BY <1>9, <2>2 DEF StartupDone
    <3>2. \A q \in RunnerAsks : runs'[q] = IF q = startup THEN "returned" ELSE runs[q]
      BY <1>0, <3>1 DEF RunnerType
    <3>3. RunnerType' /\ RunnerRecord'
      BY <1>0, <2>1, <3>1 DEF RunnerType, RunnerRecord, RunStages
    <3>4. RunsOwned'
      BY <1>0, <2>1, <3>1, <3>2 DEF RunsOwned
    <3>5. OneRunner'
      BY <1>0, <2>1, <2>2, <3>1, <3>2 DEF OneRunner, Live
    <3> QED BY <3>3, <3>4, <3>5 DEF WdaInv
  <2>3. CASE runs[startup] # "ready"
    <3>1. runs[startup] = "failed" /\ runnerPhase' = "failed" /\ runnerOp' = "ended"
          /\ UNCHANGED <<managedRunner, runs>>
      BY <1>9, <2>3 DEF StartupDone, Finished
    <3>2. RunnerType' /\ RunsOwned' /\ RunnerRecord'
      BY <1>0, <2>1, <3>1 DEF RunnerType, RunsOwned, RunnerRecord
    <3>3. OneRunner'
      BY <1>0, <2>1, <3>1 DEF OneRunner, Live
    <3> QED BY <3>2, <3>3 DEF WdaInv
  <2> QED BY <2>2, <2>3
<1>10. CASE RunnerLost
  <2>1. /\ managedRunner \in RunnerAsks /\ startup = NoRunner /\ managedRunner' = NoRunner
        /\ runs' = [runs EXCEPT ![managedRunner] = "ended"]
        /\ runnerPhase' = "failed" /\ runnerOp' = "ended" /\ serving = "running"
        /\ UNCHANGED <<wdaSessions, serving, runnerQueue, startup>>
    BY <1>0, <1>10 DEF RunnerLost, RunnerType, RunsOwned
  <2>2. \A q \in RunnerAsks : runs'[q] = IF q = managedRunner THEN "ended" ELSE runs[q]
    BY <1>0, <2>1 DEF RunnerType
  <2>3. RunnerType' /\ RunnerRecord'
    BY <1>0, <2>1 DEF RunnerType, RunnerRecord, RunStages
  <2>4. RunsOwned' /\ OneRunner'
    BY <1>0, <2>1, <2>2 DEF RunsOwned, OneRunner, Live
  <2> QED BY <2>3, <2>4 DEF WdaInv
<1>11. CASE TakeRunnerStop
  <2>1. /\ runnerQueue' \in Seq(RunnerAsks) /\ serving = "running" /\ serving' = "stopping"
        /\ UNCHANGED <<wdaSessions, startup, managedRunner, runnerPhase, runnerOp, runs>>
    BY <1>0, <1>11, TakeFacts DEF TakeRunnerStop, RunnerType
  <2> QED BY <1>0, <2>1 DEF WdaInv, RunnerType, RunsOwned, OneRunner, RunnerRecord, Live
<1>12. CASE SeesShutdown
  <2>1. /\ serving = "running" /\ serving' = "ending"
        /\ UNCHANGED <<wdaSessions, runnerQueue, startup, managedRunner, runnerPhase, runnerOp, runs>>
    BY <1>12 DEF SeesShutdown
  <2> QED BY <1>0, <2>1 DEF WdaInv, RunnerType, RunsOwned, OneRunner, RunnerRecord, Live
<1>13. ASSUME NEW next \in {"running", "ended"}, serving # "ended", serving' = next,
              startup' = NoRunner, managedRunner' = NoRunner,
              NEW gone, managedRunner # NoRunner => managedRunner \in gone,
              next = "running" => startup \in gone \cup {NoRunner},
              runs' = [r \in RunnerAsks |-> IF r \in gone THEN "ended" ELSE runs[r]],
              next = "running" => runnerOp' # "active", runnerPhase' = "stopped",
              wdaSessions' = wdaSessions, runnerQueue' \in Seq(RunnerAsks)
       PROVE  WdaInv'
  <2>1. RunnerType' /\ RunnerRecord'
    BY <1>0, <1>13 DEF RunnerType, RunnerRecord, RunStages
  <2>2. \A q \in RunnerAsks : Live(q)' => Live(q) /\ q \notin gone
    BY <1>13 DEF Live
  <2>3. RunsOwned'
    BY <1>0, <1>13 DEF RunsOwned
  <2>4. OneRunner'
    BY <1>0, <1>13, <2>2 DEF OneRunner
  <2> QED BY <2>1, <2>3, <2>4 DEF WdaInv
<1>14. CASE StopDone
  <2>1. /\ serving = "stopping" /\ serving' = "running" /\ startup' = NoRunner
        /\ managedRunner' = NoRunner /\ wdaSessions' = wdaSessions /\ runnerPhase' = "stopped"
        /\ runs' = [r \in RunnerAsks |-> IF r \in {startup, managedRunner} THEN "ended" ELSE runs[r]]
        /\ runnerOp' # "active" /\ runnerQueue' \in Seq(RunnerAsks)
    BY <1>0, <1>14 DEF StopDone, Stops, RunnerType
  <2> QED BY <1>13, <2>1
<1>15. CASE RunnerServiceEnds
  <2>1. /\ serving = "ending" /\ serving' = "ended" /\ startup' = NoRunner
        /\ managedRunner' = NoRunner /\ wdaSessions' = wdaSessions /\ runnerPhase' = "stopped"
        /\ runs' = [r \in RunnerAsks |-> IF r \in {startup, managedRunner} THEN "ended" ELSE runs[r]]
        /\ runnerQueue' = <<>>
    BY <1>15 DEF RunnerServiceEnds, Stops
  <2>2. runnerQueue' \in Seq(RunnerAsks)
    BY <2>1, ShortSequences
  <2> QED BY <1>13, <2>1, <2>2
<1>16. CASE RunnerServiceAborted
  <2>1. /\ serving # "ended" /\ serving' = "ended" /\ startup' = NoRunner
        /\ managedRunner' = NoRunner /\ wdaSessions' = wdaSessions /\ runnerPhase' = "stopped"
        /\ runs' = [r \in RunnerAsks |-> IF r \in {managedRunner} THEN "ended" ELSE runs[r]]
        /\ runnerQueue' = <<>>
    BY <1>16 DEF RunnerServiceAborted
  <2>2. runnerQueue' \in Seq(RunnerAsks)
    BY <2>1, ShortSequences
  <2> QED BY <1>13, <2>1, <2>2
<1>17. CASE NextWdaSession
  <2>1. /\ serving = "ended" /\ serving' = "running" /\ runnerOp' = "none"
        /\ wdaSessions' = wdaSessions + 1
        /\ UNCHANGED <<runnerQueue, startup, managedRunner, runnerPhase, runs>>
    BY <1>17 DEF NextWdaSession
  <2>2. wdaSessions' \in Nat \ {0} /\ wdaSessions' # 1
    BY <1>0, <2>1 DEF RunnerType
  <2> QED BY <1>0, <2>1, <2>2 DEF WdaInv, RunnerType, RunsOwned, OneRunner, RunnerRecord
<1> QED BY <1>2, <1>3, <1>4, <1>6, <1>7, <1>8, <1>9, <1>10, <1>11, <1>12, <1>14, <1>15, <1>16,
           <1>17 DEF RunnerNext

LEMMA WdaInvHolds == WdaSpec => []WdaInv
<1>1. WdaInit => WdaInv
  <2> SUFFICES ASSUME WdaInit PROVE WdaInv
    OBVIOUS
  <2>1. RunnerType
    BY ShortSequences DEF WdaInit, RunnerType, RunStages
  <2>2. RunsOwned /\ OneRunner /\ RunnerRecord
    BY DEF WdaInit, RunsOwned, OneRunner, RunnerRecord, Live
  <2> QED BY <2>1, <2>2 DEF WdaInv
<1>2. WdaInv /\ UNCHANGED wdaVars => WdaInv'
  BY DEF WdaInv, RunnerType, RunsOwned, OneRunner, RunnerRecord, Live, wdaVars, runnerVars
<1> QED BY <1>1, <1>2, WdaStep, PTL DEF WdaSpec

\* Every run on the device is accounted for: it is managed, or its startup is
\* waited for; in the first session there is at most one; and the service has
\* an active operation exactly as long as it has a runner.
THEOREM RunnersAccounted == WdaSpec => []RunnerAccounted
<1>1. WdaInv => RunnerAccounted
  <2> SUFFICES ASSUME WdaInv PROVE RunnerAccounted
    OBVIOUS
  <2> DEFINE On == {r \in RunnerAsks : OnDevice(r)}
  <2>1. ASSUME wdaSessions = 1 PROVE Cardinality(On) <= 1
    <3>1. \A q, r \in On : q = r
      BY <2>1 DEF WdaInv, OneRunner, OnDevice, Live
    <3>2. CASE On = {}
      <4>1. Cardinality(On) = 0
        BY <3>2, FS_EmptySet
      <4> QED BY <4>1
    <3>3. ASSUME NEW x \in On PROVE Cardinality(On) <= 1
      <4>1. On = {x}
        BY <3>1
      <4>2. Cardinality(On) = 1
        BY <4>1, FS_Singleton
      <4> QED BY <4>2
    <3> QED BY <3>2, <3>3
  <2> QED BY <2>1 DEF WdaInv, RunsOwned, RunnerRecord, RunnerAccounted
<1> QED BY <1>1, WdaInvHolds, PTL

-----------------------------------------------------------------------------
(***************************************************************************)
(* SessionRouter.  A request is in one place: the session's channel, the   *)
(* hands of the loop, the channel of the exports, or a task; and as long   *)
(* as it is there, its caller has not been answered.                       *)
(***************************************************************************)
RouterSpec == RouterInit /\ [][RouterNext]_routerVars

TaskStages == {"none", "details", "reading", "joining", "rename", "verifying", "mode", "power", "list",
               "read", "reading report", "delete", "deleting", "download", "writing", "done"}
SomeDetails == [name : Nat, extras : BOOLEAN]
RouterTasks == [at : TaskStages, had : SomeDetails, left : Int, read : SomeDetails, asOf : Int]
Unanswered == {"waiting", "left", "late"}

RouterType ==
    /\ commands \in Seq(Asks) /\ port \in Seq(Asks) /\ inline \in Asks \cup {NoAsk}
    /\ known \in [Asks -> Unanswered \cup {"new", "ok", "err"}]
    /\ tasks \in [Asks -> RouterTasks]
    /\ cached \in SomeDetails /\ devname \in Nat /\ staged \subseteq Asks

Elems(q) == {q[n] : n \in 1..Len(q)}
InCommands == Elems(commands)
InPort == Elems(port)
AtWork(r) == tasks[r].at \notin {"none", "done"}
Held(r) == r \in InCommands \/ r \in InPort \/ r = inline

Once(q) == \A j, k \in 1..Len(q) : q[j] = q[k] => j = k

Placed ==
    /\ Once(commands) /\ Once(port)
    /\ \A r \in InCommands : r \notin InPort
    /\ inline \notin InCommands /\ inline \notin InPort
    /\ \A r \in Asks : Held(r) => tasks[r].at = "none"
    /\ \A r \in Asks : Held(r) \/ AtWork(r) => known[r] \in Unanswered
    /\ \A r \in Asks : known[r] = "new" => tasks[r].at = "none"

RouterInv == RouterType /\ Placed /\ StagedFilesOwned

\* Taking from and adding to a queue without duplicates.
LEMMA QueueFacts ==
    ASSUME NEW A, NEW q \in Seq(A), Once(q)
    PROVE  /\ Elems(q) \subseteq A
           /\ \A r \in A \ Elems(q) :
                 /\ Append(q, r) \in Seq(A) /\ Once(Append(q, r))
                 /\ Elems(Append(q, r)) = Elems(q) \cup {r}
           /\ q # <<>> =>
                 /\ Head(q) \in Elems(q) /\ Tail(q) \in Seq(A) /\ Once(Tail(q))
                 /\ Elems(Tail(q)) = Elems(q) \ {Head(q)}
<1>1. Elems(q) \subseteq A
  BY DEF Elems
<1>2. ASSUME NEW r \in A \ Elems(q)
      PROVE  /\ Append(q, r) \in Seq(A) /\ Once(Append(q, r))
             /\ Elems(Append(q, r)) = Elems(q) \cup {r}
  <2>1. /\ Append(q, r) \in Seq(A) /\ Len(q) \in Nat
        /\ Len(Append(q, r)) = Len(q) + 1
    OBVIOUS
  <2>2. \A n \in 1..(Len(q) + 1) : Append(q, r)[n] = IF n = Len(q) + 1 THEN r ELSE q[n]
    OBVIOUS
  <2>3. Elems(Append(q, r)) = Elems(q) \cup {r}
    BY <2>1, <2>2 DEF Elems
  <2>4. \A n \in 1..Len(q) : q[n] # r
    BY <1>2 DEF Elems
  <2>5. Once(Append(q, r))
    BY <2>1, <2>2, <2>4 DEF Once
  <2> QED BY <2>1, <2>3, <2>5
<1>3. ASSUME q # <<>>
      PROVE  /\ Head(q) \in Elems(q) /\ Tail(q) \in Seq(A) /\ Once(Tail(q))
             /\ Elems(Tail(q)) = Elems(q) \ {Head(q)}
  <2>1. /\ Len(q) \in Nat /\ Len(q) >= 1 /\ Head(q) = q[1]
        /\ Tail(q) \in Seq(A) /\ Len(Tail(q)) = Len(q) - 1
    BY <1>3
  <2>2. \A n \in 1..Len(Tail(q)) : Tail(q)[n] = q[n + 1]
    BY <1>3
  <2>3. Once(Tail(q))
    BY <2>1, <2>2 DEF Once
  <2>4. Head(q) \in Elems(q)
    BY <2>1 DEF Elems
  <2>5. Elems(Tail(q)) \subseteq Elems(q) \ {Head(q)}
    BY <2>1, <2>2 DEF Once, Elems
  <2>6. ASSUME NEW e \in Elems(q) \ {Head(q)} PROVE e \in Elems(Tail(q))
    <3>1. PICK n \in 1..Len(q) : e = q[n]
      BY <2>6 DEF Elems
    <3>2. n - 1 \in 1..Len(Tail(q)) /\ Tail(q)[n - 1] = q[n]
      BY <3>1, <2>1, <2>2, <2>6
    <3> QED BY <3>1, <3>2 DEF Elems
  <2> QED BY <2>1, <2>3, <2>4, <2>5, <2>6
<1> QED BY <1>1, <1>2, <1>3

LEMMA NoQueue == \A A : <<>> \in Seq(A) /\ Once(<<>>) /\ Elems(<<>>) = {}
BY DEF Once, Elems

\* An answer reaches a caller that waits; with it goes the file of a browser.
LEMMA AnswerFacts ==
    ASSUME RouterType, NEW r \in Asks, NEW a \in {"ok", "err"}, Answer(r, a)
    PROVE  /\ known' \in [Asks -> Unanswered \cup {"new", "ok", "err"}]
           /\ \A q \in Asks : known'[q] = IF q = r /\ known[r] = "waiting" THEN a ELSE known[q]
           /\ staged' = IF known[r] = "waiting" THEN staged \ {r} ELSE staged
<1>1. known' = [q \in Asks |-> IF q = r /\ known[r] = "waiting" THEN a ELSE known[q]]
  BY DEF Answer, Told
<1>2. staged' = IF known[r] = "waiting" THEN staged \ {r} ELSE staged
  BY DEF Answer, Told
<1> QED BY <1>1, <1>2 DEF RouterType

LEMMA TaskFacts ==
    ASSUME NEW at \in TaskStages
    PROVE  Task(at) \in RouterTasks /\ Task(at).at = at
<1>1. NoDetails \in SomeDetails
  BY DEF NoDetails, SomeDetails
<1>2. Task(at) = [at |-> at, had |-> NoDetails, left |-> 0, read |-> NoDetails, asOf |-> 0]
  BY DEF Task, Untasked
<1> QED BY <1>1, <1>2 DEF RouterTasks

\* A task that goes on.
LEMMA TaskGoesOn ==
    ASSUME RouterInv, NEW r \in Asks, AtWork(r), tasks[r].at # "writing",
           NEW t \in RouterTasks, t.at # "none", t.at # "done", Becomes(r, t),
           UNCHANGED <<commands, port, inline, known, cached, staged>>, devname' \in Nat
    PROVE  RouterInv'
<1>1. \A q \in Asks : tasks'[q] = IF q = r THEN t ELSE tasks[q]
  BY DEF Becomes, RouterInv, RouterType
<1>2. RouterType'
  BY DEF Becomes, RouterInv, RouterType, SomeDetails
<1>3. \A q \in Asks : (AtWork(q)' <=> AtWork(q)) /\ (tasks'[q].at = "none" <=> tasks[q].at = "none")
  BY <1>1 DEF AtWork
<1>4. InCommands' = InCommands /\ InPort' = InPort
  BY DEF InCommands, InPort
<1>5. Placed'
  BY <1>3, <1>4 DEF RouterInv, Placed, Held, Once
<1>6. StagedFilesOwned'
  BY <1>1 DEF RouterInv, RouterType, StagedFilesOwned, AtWork
<1> QED BY <1>2, <1>5, <1>6 DEF RouterInv

\* A task that ends with an answer.
LEMMA TaskEnds ==
    ASSUME RouterInv, NEW r \in Asks, AtWork(r), NEW t \in RouterTasks, t.at = "done", Becomes(r, t),
           NEW a \in {"ok", "err"}, Answer(r, a),
           UNCHANGED <<commands, port, inline>>, cached' \in SomeDetails, devname' \in Nat
    PROVE  RouterInv'
<1>1. /\ known' \in [Asks -> Unanswered \cup {"new", "ok", "err"}]
      /\ \A q \in Asks : known'[q] = IF q = r /\ known[r] = "waiting" THEN a ELSE known[q]
      /\ staged' = IF known[r] = "waiting" THEN staged \ {r} ELSE staged
  BY AnswerFacts DEF RouterInv
<1>2. \A q \in Asks : tasks'[q] = IF q = r THEN t ELSE tasks[q]
  BY DEF Becomes, RouterInv, RouterType
<1>3. tasks' \in [Asks -> RouterTasks]
  BY DEF Becomes, RouterInv, RouterType
<1>4. RouterType'
  BY <1>1, <1>3 DEF RouterInv, RouterType, SomeDetails
<1>5. InCommands' = InCommands /\ InPort' = InPort
  BY DEF InCommands, InPort
<1>6. ~Held(r) /\ known[r] # "new"
  BY DEF RouterInv, Placed, AtWork, Unanswered
<1>7. Placed'
  BY <1>1, <1>2, <1>5, <1>6 DEF RouterInv, Placed, Held, AtWork, Once, Unanswered
<1>8. StagedFilesOwned'
  BY <1>1, <1>2 DEF RouterInv, RouterType, StagedFilesOwned
<1> QED BY <1>4, <1>7, <1>8 DEF RouterInv
LEMMA RouterStep == RouterInv /\ RouterNext => RouterInv'
<1> SUFFICES ASSUME RouterInv, RouterNext PROVE RouterInv'
  OBVIOUS
<1>0. RouterType /\ Placed /\ StagedFilesOwned /\ NoAsk \notin Asks
  BY RouterAssumption DEF RouterInv
<1>1. \A r \in Asks : tasks[r] \in RouterTasks
  BY <1>0 DEF RouterType
\* Endings of tasks.
<1>2. ASSUME NEW r \in Asks, AtWork(r), NEW a \in {"ok", "err"}, Ending(r, a),
             UNCHANGED <<commands, port, inline, cached>>, devname' = devname
      PROVE  RouterInv'
  <2> DEFINE t == [tasks[r] EXCEPT !.at = "done"]
  <2>1. t \in RouterTasks /\ t.at = "done"
    BY <1>1 DEF RouterTasks, TaskStages
  <2>2. Becomes(r, t) /\ Answer(r, a)
    BY <1>2 DEF Ending
  <2>3. cached' \in SomeDetails /\ devname' \in Nat
    BY <1>0, <1>2 DEF RouterType
  <2> HIDE DEF t
  <2> QED BY <1>2, <2>1, <2>2, <2>3, TaskEnds
<1>3. ASSUME NEW r \in Asks, VerifyName(r) \/ PowerDone(r) \/ TaskFails(r) \/ ListReports(r) \/ ReadReport(r)
      PROVE  RouterInv'
  <2>1. AtWork(r)
    BY <1>3 DEF VerifyName, PowerDone, TaskFails, ListReports, ReadReport, AtWork
  <2>2. \E a \in {"ok", "err"} : Ending(r, a)
    BY <1>3 DEF VerifyName, PowerDone, TaskFails, ListReports, ReadReport
  <2>3. UNCHANGED <<commands, port, inline, cached>> /\ devname' = devname
    BY <1>3 DEF VerifyName, PowerDone, TaskFails, ListReports, ReadReport, sessionSide, deviceState
  <2> QED BY <2>1, <2>2, <2>3, <1>2
<1>4. ASSUME NEW r \in Asks, NEW a \in {"ok", "err"}, RevealMode(r, a) \/ DeleteReport(r, a) \/ WriteExport(r, a)
      PROVE  RouterInv'
  <2>1. AtWork(r)
    BY <1>4 DEF RevealMode, DeleteReport, WriteExport, AtWork
  <2>2. \E b \in {"ok", "err"} : Ending(r, b)
    BY <1>4 DEF RevealMode, DeleteReport, WriteExport
  <2>3. UNCHANGED <<commands, port, inline, cached>> /\ devname' = devname
    BY <1>4 DEF RevealMode, DeleteReport, WriteExport, sessionSide, deviceState
  <2> QED BY <2>1, <2>2, <2>3, <1>2
\* Tasks that go on.
<1>5. ASSUME NEW r \in Asks, AtWork(r), tasks[r].at # "writing",
             NEW at \in TaskStages \ {"none", "done"}, Becomes(r, Task(at)),
             UNCHANGED <<commands, port, inline, known, cached, staged>>, devname' = devname
      PROVE  RouterInv'
  <2>1. Task(at) \in RouterTasks /\ Task(at).at = at /\ devname' \in Nat
    BY <1>0, <1>5, TaskFacts DEF RouterType
  <2> QED BY <2>1, <1>5, TaskGoesOn
<1>6. ASSUME NEW r \in Asks, Inspect(r) PROVE RouterInv'
  <2>1. /\ AtWork(r) /\ tasks[r].at # "writing"
        /\ UNCHANGED <<commands, port, inline, cached>> /\ devname' = devname
    BY <1>6 DEF Inspect, AtWork, sessionSide, deviceState
  <2>2. CASE about[r] \subseteq reports
    <3> DEFINE at == IF what[r] = "read" THEN "reading report" ELSE "deleting"
    <3>1. at \in TaskStages \ {"none", "done"}
      BY DEF TaskStages
    <3>2. Becomes(r, Task(at)) /\ UNCHANGED <<known, staged>>
      BY <1>6, <2>2 DEF Inspect
    <3> HIDE DEF at
    <3> QED BY <2>1, <3>1, <3>2, <1>5
  <2>3. CASE ~(about[r] \subseteq reports)
    <3>1. Ending(r, "err")
      BY <1>6, <2>3 DEF Inspect
    <3> QED BY <2>1, <3>1, <1>2
  <2> QED BY <2>2, <2>3
<1>7. ASSUME NEW r \in Asks, NEW ok \in BOOLEAN, Download(r, ok) PROVE RouterInv'
  <2>1. /\ AtWork(r) /\ tasks[r].at # "writing"
        /\ UNCHANGED <<commands, port, inline, cached>> /\ devname' = devname
    BY <1>7 DEF Download, AtWork, sessionSide, deviceState
  <2>2. CASE ok /\ about[r] \subseteq reports
    <3>1. "writing" \in TaskStages \ {"none", "done"}
      BY DEF TaskStages
    <3>2. Becomes(r, Task("writing")) /\ UNCHANGED <<known, staged>>
      BY <1>7, <2>2 DEF Download
    <3> QED BY <2>1, <3>1, <3>2, <1>5
  <2>3. CASE ~(ok /\ about[r] \subseteq reports)
    <3>1. Ending(r, "err")
      BY <1>7, <2>3 DEF Download
    <3> QED BY <2>1, <3>1, <1>2
  <2> QED BY <2>2, <2>3
<1>8. ASSUME NEW r \in Asks, BeginDetails(r) PROVE RouterInv'
  <2> DEFINE t == [Untasked EXCEPT !.at = "reading", !.had = cached,
                                   !.left = IF cached # NoDetails THEN 1 ELSE MaxAttempts]
  <2>1. AtWork(r) /\ tasks[r].at # "writing" /\ Becomes(r, t) /\ devname' \in Nat
        /\ UNCHANGED <<commands, port, inline, known, cached, staged>>
    BY <1>0, <1>8 DEF BeginDetails, AtWork, asksVars, deviceState, RouterType
  <2>2. t.at = "reading" /\ t \in RouterTasks
    <3>1. Untasked \in RouterTasks
      BY DEF Untasked, NoDetails, SomeDetails, TaskStages, RouterTasks
    <3>2. cached \in SomeDetails /\ "reading" \in TaskStages
      BY <1>0 DEF RouterType, TaskStages
    <3>3. (IF cached # NoDetails THEN 1 ELSE MaxAttempts) \in Int
      BY RouterAssumption
    <3> QED BY <3>1, <3>2, <3>3 DEF RouterTasks
  <2> HIDE DEF t
  <2> QED BY <2>1, <2>2, TaskGoesOn
<1>9. ASSUME NEW r \in Asks, NEW ok \in BOOLEAN, ReadDetails(r, ok) PROVE RouterInv'
  <2> DEFINE t == tasks[r]
             u == IF ok THEN [t EXCEPT !.at = "joining", !.read = [name |-> devname, extras |-> FALSE]]
                  ELSE IF t.left > 1 THEN [t EXCEPT !.left = @ - 1]
                  ELSE [t EXCEPT !.at = "joining"]
  <2>1. AtWork(r) /\ t.at = "reading" /\ Becomes(r, u) /\ devname' \in Nat
        /\ UNCHANGED <<commands, port, inline, known, cached, staged>>
    BY <1>0, <1>9 DEF ReadDetails, AtWork, asksVars, deviceState, RouterType
  <2>2. u.at \in {"reading", "joining"} /\ u \in RouterTasks
    <3>1. [name |-> devname, extras |-> FALSE] \in SomeDetails /\ "joining" \in TaskStages
      BY <1>0 DEF RouterType, SomeDetails, TaskStages
    <3>2. t \in RouterTasks
      BY <1>1
    <3>3. [t EXCEPT !.at = "joining", !.read = [name |-> devname, extras |-> FALSE]] \in RouterTasks
      BY <3>1, <3>2 DEF RouterTasks
    <3>4. [t EXCEPT !.left = @ - 1] \in RouterTasks
      BY <3>2 DEF RouterTasks
    <3>5. [t EXCEPT !.at = "joining"] \in RouterTasks
      BY <3>1, <3>2 DEF RouterTasks
    <3>6. u.at \in {"reading", "joining"}
      BY <2>1, <3>2 DEF RouterTasks
    <3> QED BY <3>3, <3>4, <3>5, <3>6
  <2> HIDE DEF t, u
  <2>3. tasks[r].at = "reading"
    BY <2>1 DEF t
  <2> QED BY <2>1, <2>2, <2>3, TaskGoesOn
<1>10. ASSUME NEW r \in Asks, SetName(r) PROVE RouterInv'
  <2> DEFINE t == [Task("verifying") EXCEPT !.asOf = devname + 1]
  <2>1. AtWork(r) /\ tasks[r].at # "writing" /\ Becomes(r, t) /\ devname' \in Nat
        /\ UNCHANGED <<commands, port, inline, known, cached, staged>>
    BY <1>0, <1>10 DEF SetName, AtWork, sessionSide, RouterType
  <2>2. t.at = "verifying" /\ t \in RouterTasks
    <3>1. "verifying" \in TaskStages
      BY DEF TaskStages
    <3>2. Task("verifying") \in RouterTasks /\ Task("verifying").at = "verifying"
      BY <3>1, TaskFacts
    <3>3. devname + 1 \in Int
      BY <1>0 DEF RouterType
    <3> QED BY <3>2, <3>3 DEF RouterTasks
  <2> HIDE DEF t
  <2> QED BY <2>1, <2>2, TaskGoesOn
<1>11. ASSUME NEW r \in Asks, NEW extras \in BOOLEAN, FinishDetails(r, extras) PROVE RouterInv'
  <2> DEFINE t == [tasks[r] EXCEPT !.at = "done"]
             d == SelectDetails(tasks[r])
  <2>1. t \in RouterTasks /\ t.at = "done"
    BY <1>1 DEF RouterTasks, TaskStages
  <2>2. d \in SomeDetails
    BY <1>1 DEF SelectDetails, RouterTasks
  <2>3. Extended(d, extras) \in SomeDetails
    BY <2>2 DEF Extended, SomeDetails
  <2>4. /\ AtWork(r) /\ Becomes(r, t) /\ \E a \in {"ok", "err"} : Answer(r, a)
        /\ cached' \in {cached, Extended(d, extras)} /\ devname' = devname
        /\ UNCHANGED <<commands, port, inline>>
    BY <1>11 DEF FinishDetails, AtWork, deviceState
  <2>5. cached' \in SomeDetails /\ devname' \in Nat
    BY <1>0, <2>3, <2>4 DEF RouterType
  <2> HIDE DEF t, d
  <2> QED BY <2>1, <2>4, <2>5, TaskEnds
\* Handlers.
<1>12. ASSUME NEW r \in Asks, NEW k \in Routed, NEW p \in {{}} \cup {{x} : x \in Reports}, Send(r, k, p)
       PROVE  RouterInv'
  <2>1. /\ known[r] = "new" /\ known' = [known EXCEPT ![r] = IF up THEN "waiting" ELSE "err"]
        /\ commands' = (IF up THEN Append(commands, r) ELSE commands)
        /\ staged' = (IF k = "browser" /\ up THEN staged \cup {r} ELSE staged)
        /\ UNCHANGED <<inline, port, tasks, cached, devname>>
    BY <1>12 DEF Send, deviceState
  <2>2. ~Held(r) /\ tasks[r].at = "none" /\ r \notin staged
    BY <1>0, <2>1 DEF Placed, Unanswered, StagedFilesOwned
  <2>3. /\ commands' \in Seq(Asks) /\ Once(commands')
        /\ InCommands' \subseteq InCommands \cup {r} /\ (~up => InCommands' = InCommands)
    <3>1. commands \in Seq(Asks) /\ Once(commands) /\ r \in Asks \ InCommands
      BY <1>0, <2>2 DEF RouterType, Placed, Held
    <3>2. /\ Append(commands, r) \in Seq(Asks) /\ Once(Append(commands, r))
          /\ Elems(Append(commands, r)) = InCommands \cup {r}
      BY <3>1, QueueFacts DEF InCommands
    <3> QED BY <2>1, <3>1, <3>2 DEF InCommands
  <2>4. \A q \in Asks : known'[q] = IF q = r THEN (IF up THEN "waiting" ELSE "err") ELSE known[q]
    BY <1>0, <2>1 DEF RouterType
  <2>5. RouterType'
    BY <1>0, <2>1, <2>3 DEF RouterType, Unanswered, SomeDetails
  <2>6. InPort' = InPort
    BY <2>1 DEF InPort
  <2>7. Placed'
    BY <1>0, <2>1, <2>2, <2>3, <2>4, <2>6, SMTT(30) DEF Placed, Held, AtWork, Once, Unanswered
  <2>8. StagedFilesOwned'
    BY <1>0, <2>1, <2>2, <2>4 DEF StagedFilesOwned, RouterType
  <2> QED BY <2>5, <2>7, <2>8 DEF RouterInv
<1>13. ASSUME NEW r \in Asks, HandlerTimesOut(r) \/ ClientLeaves(r) PROVE RouterInv'
  <2>1. PICK k \in {"late", "left"} :
          /\ known[r] = "waiting" /\ known' = [known EXCEPT ![r] = k]
          /\ staged' = (IF k = "late" THEN staged \ {r} ELSE staged)
          /\ UNCHANGED <<commands, inline, port, tasks, cached, devname>>
    BY <1>13 DEF HandlerTimesOut, ClientLeaves, deviceState
  <2>2. \A q \in Asks : known'[q] = IF q = r THEN k ELSE known[q]
    BY <1>0, <2>1 DEF RouterType
  <2>3. RouterType'
    BY <1>0, <2>1 DEF RouterType, Unanswered, SomeDetails
  <2>4. InCommands' = InCommands /\ InPort' = InPort
    BY <2>1 DEF InCommands, InPort
  <2>5. Placed'
    BY <1>0, <2>1, <2>2, <2>4 DEF Placed, Held, AtWork, Once, Unanswered
  <2>6. StagedFilesOwned'
    BY <1>0, <2>1, <2>2 DEF StagedFilesOwned, RouterType
  <2> QED BY <2>3, <2>5, <2>6 DEF RouterInv
<1>14. ASSUME NEW r \in Asks, CreateExport(r) PROVE RouterInv'
  <2>1. /\ tasks[r].at = "writing" /\ staged' = staged \cup {r}
        /\ UNCHANGED <<commands, inline, port, tasks, known, cached, devname>>
    BY <1>14 DEF CreateExport, sessionSide, deviceState
  <2>2. RouterType'
    BY <1>0, <2>1 DEF RouterType, SomeDetails
  <2>3. InCommands' = InCommands /\ InPort' = InPort
    BY <2>1 DEF InCommands, InPort
  <2>4. Placed'
    BY <1>0, <2>1, <2>3 DEF Placed, Held, AtWork, Once
  <2>5. known[r] \in Unanswered
    BY <1>0, <2>1 DEF Placed, AtWork
  <2>6. StagedFilesOwned'
    BY <1>0, <2>1, <2>5 DEF StagedFilesOwned, Unanswered
  <2> QED BY <2>2, <2>4, <2>6 DEF RouterInv
\* The loop.
<1>15. ASSUME NEW a \in {"ok", "err"}, AppsDone(a) PROVE RouterInv'
  <2>1. /\ inline # NoAsk /\ inline' = NoAsk /\ Answer(inline, a) /\ inline \in Asks
        /\ UNCHANGED <<commands, port, tasks, cached, devname>>
    BY <1>0, <1>15 DEF AppsDone, RouterType, deviceState
  <2>2. /\ known' \in [Asks -> Unanswered \cup {"new", "ok", "err"}]
        /\ \A q \in Asks : known'[q] = IF q = inline /\ known[inline] = "waiting" THEN a ELSE known[q]
        /\ staged' = IF known[inline] = "waiting" THEN staged \ {inline} ELSE staged
    BY <1>0, <2>1, AnswerFacts
  <2>3. RouterType'
    BY <1>0, <2>1, <2>2 DEF RouterType, SomeDetails
  <2>4. InCommands' = InCommands /\ InPort' = InPort
    BY <2>1 DEF InCommands, InPort
  <2>5. Placed'
    <3>1. inline \notin InCommands /\ inline \notin InPort /\ tasks[inline].at = "none"
      BY <1>0, <2>1 DEF Placed, Held
    <3>2. InCommands \subseteq Asks /\ InPort \subseteq Asks
      BY <1>0, QueueFacts DEF RouterType, Placed, InCommands, InPort
    <3> QED BY <1>0, <2>1, <2>2, <2>4, <3>1, <3>2 DEF Placed, Held, AtWork, Once, Unanswered
  <2>6. StagedFilesOwned'
    BY <1>0, <2>1, <2>2 DEF StagedFilesOwned, RouterType
  <2> QED BY <2>3, <2>5, <2>6 DEF RouterInv
<1>16. CASE Handle
  <2> DEFINE r == Head(commands)
  <2>1. /\ r \in InCommands /\ InCommands \subseteq Asks
        /\ Tail(commands) \in Seq(Asks) /\ Once(Tail(commands))
        /\ Elems(Tail(commands)) = InCommands \ {r}
    <3>1. commands \in Seq(Asks) /\ Once(commands) /\ commands # <<>>
      BY <1>0, <1>16 DEF Handle, RouterType, Placed
    <3> QED BY <3>1, QueueFacts DEF InCommands
  <2>2. /\ commands' = Tail(commands) /\ inline = NoAsk
        /\ UNCHANGED <<cached, devname>> /\ InCommands' = InCommands \ {r}
    BY <1>16, <2>1 DEF Handle, deviceState, InCommands
  <2>3. r \in Asks /\ Held(r) /\ tasks[r].at = "none" /\ known[r] \in Unanswered
    BY <1>0, <2>1 DEF Placed, Held
  <2>4. InPort \subseteq Asks /\ r \notin InPort
    BY <1>0, <2>1, QueueFacts DEF RouterType, Placed, InPort
  <2>5. CASE HandleApps(r)
    <3>1. inline' = r /\ UNCHANGED <<port, tasks, known, staged>>
      BY <2>5 DEF HandleApps
    <3>2. InPort' = InPort
      BY <3>1 DEF InPort
    <3>3. RouterType'
      BY <1>0, <2>1, <2>2, <2>3, <3>1 DEF RouterType, SomeDetails
    <3>4. Placed'
      BY <1>0, <2>1, <2>2, <2>3, <2>4, <3>1, <3>2 DEF Placed, Held, AtWork, Once
    <3>5. StagedFilesOwned'
      BY <1>0, <3>1 DEF StagedFilesOwned
    <3> QED BY <3>3, <3>4, <3>5 DEF RouterInv
  <2>6. ASSUME NEW at \in TaskStages \ {"none", "done"}, Becomes(r, Task(at)),
               UNCHANGED <<inline, port, known, staged>>
        PROVE  RouterInv'
    <3>1. Task(at) \in RouterTasks /\ Task(at).at = at
      BY TaskFacts
    <3>2. InPort' = InPort
      BY <2>6 DEF InPort
    <3>3. tasks' \in [Asks -> RouterTasks] /\ \A q \in Asks : tasks'[q] = IF q = r THEN Task(at) ELSE tasks[q]
      BY <1>0, <2>3, <2>6, <3>1 DEF Becomes, RouterType
    <3>4. RouterType'
      BY <1>0, <2>1, <2>2, <2>6, <3>3 DEF RouterType, SomeDetails
    <3>5. Placed'
      BY <1>0, <2>1, <2>2, <2>3, <2>4, <2>6, <3>1, <3>2, <3>3 DEF Placed, Held, AtWork, Once, Unanswered
    <3>6. StagedFilesOwned'
      BY <1>0, <2>3, <2>6, <3>3 DEF StagedFilesOwned, RouterType
    <3> QED BY <3>4, <3>5, <3>6 DEF RouterInv
  <2>7. ASSUME Answer(r, "err"), UNCHANGED <<inline, port, tasks>> PROVE RouterInv'
    <3>1. /\ known' \in [Asks -> Unanswered \cup {"new", "ok", "err"}]
          /\ \A q \in Asks : known'[q] = IF q = r /\ known[r] = "waiting" THEN "err" ELSE known[q]
          /\ staged' = IF known[r] = "waiting" THEN staged \ {r} ELSE staged
      BY <1>0, <2>3, <2>7, AnswerFacts
    <3>2. InPort' = InPort
      BY <2>7 DEF InPort
    <3>3. RouterType'
      BY <1>0, <2>1, <2>2, <2>7, <3>1 DEF RouterType, SomeDetails
    <3>4. Placed'
      BY <1>0, <2>1, <2>2, <2>3, <2>4, <2>7, <3>1, <3>2 DEF Placed, Held, AtWork, Once, Unanswered
    <3>5. StagedFilesOwned'
      BY <1>0, <2>7, <3>1 DEF StagedFilesOwned, RouterType
    <3> QED BY <3>3, <3>4, <3>5 DEF RouterInv
  <2>8. ASSUME port' = Append(port, r), UNCHANGED <<inline, tasks, known, staged>> PROVE RouterInv'
    <3>1. /\ port' \in Seq(Asks) /\ Once(port') /\ InPort' = InPort \cup {r}
      <4>1. port \in Seq(Asks) /\ Once(port) /\ r \in Asks \ InPort
        BY <1>0, <2>3, <2>4 DEF RouterType, Placed
      <4>2. /\ Append(port, r) \in Seq(Asks) /\ Once(Append(port, r))
            /\ Elems(Append(port, r)) = InPort \cup {r}
        BY <4>1, QueueFacts DEF InPort
      <4> QED BY <2>8, <4>2 DEF InPort
    <3>2. RouterType'
      BY <1>0, <2>1, <2>2, <2>8, <3>1 DEF RouterType, SomeDetails
    <3>3. NoAsk \notin InPort'
      BY <1>0, <2>3, <2>4, <3>1
    <3>4. Placed'
      BY <1>0, <2>1, <2>2, <2>3, <2>4, <2>8, <3>1, <3>3 DEF Placed, Held, AtWork, Once
    <3>5. StagedFilesOwned'
      BY <1>0, <2>8 DEF StagedFilesOwned
    <3> QED BY <3>2, <3>4, <3>5 DEF RouterInv
  <2>9. CASE HandlePower(r)
    <3>1. \/ Answer(r, "err") /\ UNCHANGED <<inline, port, tasks>>
          \/ Becomes(r, Task("power")) /\ UNCHANGED <<inline, port, known, staged>>
      BY <2>9 DEF HandlePower, StartPower, Rejected
    <3>2. "power" \in TaskStages \ {"none", "done"}
      BY DEF TaskStages
    <3> QED BY <3>1, <3>2, <2>6, <2>7
  <2>10. CASE HandleRouted(r)
    <3>1. \/ Answer(r, "err") /\ UNCHANGED <<inline, port, tasks>>
          \/ port' = Append(port, r) /\ UNCHANGED <<inline, tasks, known, staged>>
      BY <2>10 DEF HandleRouted, Routes, Rejected
    <3> QED BY <3>1, <2>7, <2>8
  <2>11. CASE what[r] \in {"details", "rename", "mode", "list", "read", "delete"} /\ HandleDetached(r)
    <3>1. PICK at \in {"details", "rename", "mode", "list", "read", "delete"} : what[r] = at
      BY <2>11
    <3>2. at \in TaskStages \ {"none", "done"}
      BY DEF TaskStages
    <3>3. Becomes(r, Task(at)) /\ UNCHANGED <<inline, port, known, staged>>
      BY <2>11, <3>1 DEF HandleDetached
    <3> QED BY <3>2, <3>3, <2>6
  <2>12. \/ HandleApps(r) \/ HandlePower(r) \/ HandleRouted(r)
         \/ what[r] \in {"details", "rename", "mode", "list", "read", "delete"} /\ HandleDetached(r)
    BY <1>16 DEF Handle
  <2> QED BY <2>5, <2>9, <2>10, <2>11, <2>12
<1>17. CASE TakeExport
  <2> DEFINE r == Head(port)
  <2>1. /\ r \in InPort /\ InPort \subseteq Asks /\ Tail(port) \in Seq(Asks) /\ Once(Tail(port))
        /\ Elems(Tail(port)) = InPort \ {r}
    <3>1. port \in Seq(Asks) /\ Once(port) /\ port # <<>>
      BY <1>0, <1>17 DEF TakeExport, RouterType, Placed
    <3> QED BY <3>1, QueueFacts DEF InPort
  <2>2. /\ port' = Tail(port) /\ Becomes(r, Task("download"))
        /\ UNCHANGED <<commands, inline, known, cached, devname, staged>> /\ InPort' = InPort \ {r}
    BY <1>17, <2>1 DEF TakeExport, deviceState, InPort
  <2>3. "download" \in TaskStages
    BY DEF TaskStages
  <2>4. Task("download") \in RouterTasks /\ Task("download").at = "download"
    BY <2>3, TaskFacts
  <2>5. r \in Asks /\ Held(r) /\ tasks[r].at = "none" /\ known[r] \in Unanswered
    BY <1>0, <2>1 DEF Placed, Held
  <2>6. tasks' \in [Asks -> RouterTasks] /\ \A q \in Asks : tasks'[q] = IF q = r THEN Task("download") ELSE tasks[q]
    BY <1>0, <2>2, <2>4, <2>5 DEF Becomes, RouterType
  <2>7. RouterType'
    BY <1>0, <2>1, <2>2, <2>6 DEF RouterType, SomeDetails
  <2>8. InCommands' = InCommands /\ r \notin InCommands /\ r # inline
    BY <1>0, <2>1, <2>2 DEF InCommands, Placed
  <2>9. Placed'
    BY <1>0, <2>1, <2>2, <2>4, <2>5, <2>6, <2>8 DEF Placed, Held, AtWork, Once, Unanswered
  <2>10. StagedFilesOwned'
    BY <1>0, <2>2, <2>5, <2>6 DEF StagedFilesOwned, RouterType
  <2> QED BY <2>7, <2>9, <2>10 DEF RouterInv
\* The end of the session.
<1>18. CASE EndSession
  <2> DEFINE heard == {r \in Dropped : known[r] = "waiting"}
  <2>1. /\ commands' = <<>> /\ port' = <<>> /\ inline' = NoAsk
        /\ known' = [r \in Asks |-> IF r \in heard THEN "err" ELSE known[r]] /\ staged' = staged \ heard
        /\ tasks' = [r \in Asks |-> IF Exporting(r) THEN Task("done") ELSE tasks[r]]
        /\ UNCHANGED <<cached, devname>>
    <3>1. Told([r \in Dropped |-> "err"])
      BY <1>18 DEF EndSession
    <3>2. known' = [r \in Asks |-> IF r \in heard THEN "err" ELSE known[r]] /\ staged' = staged \ heard
      BY <3>1 DEF Told
    <3> HIDE DEF heard
    <3> QED BY <1>18, <3>2 DEF EndSession, deviceState
  <2>2. InCommands' = {} /\ InPort' = {} /\ commands' \in Seq(Asks) /\ port' \in Seq(Asks)
        /\ Once(commands') /\ Once(port')
    BY <2>1, NoQueue DEF InCommands, InPort
  <2>3. "done" \in TaskStages
    BY DEF TaskStages
  <2>4. Task("done") \in RouterTasks /\ Task("done").at = "done"
    BY <2>3, TaskFacts
  <2>5. tasks' \in [Asks -> RouterTasks] /\ known' \in [Asks -> Unanswered \cup {"new", "ok", "err"}]
    BY <1>0, <2>1, <2>4 DEF RouterType
  <2>6. RouterType'
    BY <1>0, <2>1, <2>2, <2>5 DEF RouterType, SomeDetails
  <2>7. \A r \in Asks : AtWork(r) /\ ~Exporting(r) => r \notin Dropped
    <3>1. DOMAIN commands = 1..Len(commands) /\ DOMAIN port = 1..Len(port)
      BY <1>0 DEF RouterType
    <3>2. \A r \in Dropped : Exporting(r) \/ Held(r)
      BY <3>1 DEF Dropped, Held, InCommands, InPort, Elems
    <3> QED BY <1>0, <3>2 DEF Placed, AtWork
  <2>8. \A r \in Asks : ~Held(r)'
    BY <1>0, <2>1, <2>2 DEF Held
  <2>9. \A r \in Asks : AtWork(r)' => AtWork(r) /\ ~Exporting(r)
    BY <2>1, <2>4 DEF AtWork
  <2>10. \A r \in Asks : AtWork(r)' => known'[r] = known[r]
    BY <2>1, <2>7, <2>9
  <2>11. \A r \in Asks : known'[r] = "new" => known[r] = "new" /\ ~Exporting(r)
    BY <1>0, <2>1 DEF Placed, Exporting
  <2>12. NoAsk \notin InCommands' /\ NoAsk \notin InPort'
    BY <2>2
  <2>13. Placed'
    BY <1>0, <2>1, <2>2, <2>8, <2>9, <2>10, <2>11, <2>12 DEF Placed
  <2>14. StagedFilesOwned'
    BY <1>0, <2>1, <2>4 DEF StagedFilesOwned, RouterType, Exporting
  <2> QED BY <2>6, <2>13, <2>14 DEF RouterInv
<1> QED BY <1>3, <1>4, <1>6, <1>7, <1>8, <1>9, <1>10, <1>11, <1>12, <1>13, <1>14, <1>15, <1>16,
           <1>17, <1>18 DEF RouterNext

LEMMA RouterInvHolds == RouterSpec => []RouterInv
<1>1. RouterInit => RouterInv
  <2> SUFFICES ASSUME RouterInit PROVE RouterInv
    OBVIOUS
  <2>1. NoDetails \in SomeDetails /\ [name |-> 1, extras |-> FALSE] \in SomeDetails
    BY DEF NoDetails, SomeDetails
  <2>2. Untasked \in RouterTasks /\ Untasked.at = "none"
    BY <2>1 DEF Untasked, RouterTasks, TaskStages
  <2>3. InCommands = {} /\ InPort = {} /\ commands \in Seq(Asks) /\ port \in Seq(Asks)
        /\ Once(commands) /\ Once(port)
    BY NoQueue DEF RouterInit, InCommands, InPort
  <2>4. RouterType
    BY <2>1, <2>2, <2>3 DEF RouterInit, RouterType
  <2>5. Placed
    BY <2>2, <2>3, RouterAssumption DEF RouterInit, Placed, Held, AtWork
  <2>6. StagedFilesOwned
    BY DEF RouterInit, StagedFilesOwned
  <2> QED BY <2>4, <2>5, <2>6 DEF RouterInv
<1>2. RouterInv /\ UNCHANGED routerVars => RouterInv'
  BY DEF RouterInv, RouterType, SomeDetails, Placed, Held, AtWork, Once, InCommands, InPort,
         StagedFilesOwned, routerVars, asksVars, deviceState
<1> QED BY <1>1, <1>2, RouterStep, PTL DEF RouterSpec

\* A file in the staging directory belongs to a handler that waits or was
\* dropped while waiting, or to an export its handler gave up on: an answer
\* takes the file away, and nothing writes one for a request that is answered.
THEOREM StagedOwned == RouterSpec => []StagedFilesOwned
<1>1. RouterInv => StagedFilesOwned
  BY DEF RouterInv
<1> QED BY <1>1, RouterInvHolds, PTL-----------------------------------------------------------------------------
(***************************************************************************)
(* Simulation.  What the service means to set ends in what the request     *)
(* wants, its status shows what it last set, and whatever may be on after  *)
(* a failure is in `current` or to be cleaned up.                          *)
(***************************************************************************)
SimulationSpec == SimulationInit /\ [][SimulationNext]_simulationVars

Pretended == Settings \cup {NoSetting}

SimType ==
    /\ simulating \in {"conditions", "location"}
    /\ orders \in Seq(Orders)
    /\ wanted \in [Orders -> Pretended]
    /\ ordered \in [Orders -> {"new", "waiting", "gone", "ok", "err"}]
    /\ status \in [available : BOOLEAN, active : Pretended, pending : BOOLEAN]
    /\ current \in Pretended /\ pretending \in Pretended /\ cleanup \in BOOLEAN /\ aborted \in BOOLEAN

Queued == \A r \in Elems(orders) : ordered[r] # "new"

Serving ==
    order # Idle =>
        /\ stage = "ready" /\ order.id \in Orders /\ ordered[order.id] # "new"
        /\ order \in {[id |-> order.id, calls |-> <<wanted[order.id]>>],
                      [id |-> order.id, calls |-> <<NoSetting, wanted[order.id]>>]}

Stages ==
    /\ stage \in {"baseline", "listing"} => simulating = "conditions"
    /\ stage = "restoring" => simulating = "location"
    /\ stage = "listing" => pretending = NoSetting /\ current = NoSetting
    /\ stage = "ready" => status.available /\ status.active = current

Suspected ==
    simulating = "conditions" /\ stage \in {"connecting", "waiting"} /\ ~aborted /\ pretending # NoSetting =>
        current # NoSetting \/ cleanup

SimulationInv == SimType /\ Queued /\ Serving /\ Stages /\ Suspected /\ SimulationShown

LEMMA ElemsFacts ==
    ASSUME NEW A, NEW q \in Seq(A)
    PROVE  /\ \A r \in A : Append(q, r) \in Seq(A) /\ Elems(Append(q, r)) = Elems(q) \cup {r}
           /\ q # <<>> => /\ Head(q) \in A /\ Head(q) \in Elems(q)
                          /\ Tail(q) \in Seq(A) /\ Elems(Tail(q)) \subseteq Elems(q)
<1>1. ASSUME NEW r \in A PROVE Append(q, r) \in Seq(A) /\ Elems(Append(q, r)) = Elems(q) \cup {r}
  <2>1. Append(q, r) \in Seq(A) /\ Len(q) \in Nat /\ Len(Append(q, r)) = Len(q) + 1
    OBVIOUS
  <2>2. \A n \in 1..(Len(q) + 1) : Append(q, r)[n] = IF n = Len(q) + 1 THEN r ELSE q[n]
    OBVIOUS
  <2> QED BY <2>1, <2>2 DEF Elems
<1>2. ASSUME q # <<>>
      PROVE  /\ Head(q) \in A /\ Head(q) \in Elems(q)
             /\ Tail(q) \in Seq(A) /\ Elems(Tail(q)) \subseteq Elems(q)
  <2>1. /\ Len(q) \in Nat /\ Len(q) >= 1 /\ Head(q) = q[1] /\ Head(q) \in A
        /\ Tail(q) \in Seq(A) /\ Len(Tail(q)) = Len(q) - 1
    BY <1>2
  <2>2. \A n \in 1..Len(Tail(q)) : Tail(q)[n] = q[n + 1]
    BY <1>2
  <2> QED BY <2>1, <2>2 DEF Elems
<1> QED BY <1>1, <1>2

LEMMA StatusTypes ==
    /\ \A s \in Pretended : ReadyStatus(s) \in [available : BOOLEAN, active : Pretended, pending : BOOLEAN]
                            /\ ReadyStatus(s).available /\ ReadyStatus(s).active = s
    /\ \A s \in Pretended, p \in BOOLEAN :
          /\ FailedStatus(s, p) \in [available : BOOLEAN, active : Pretended, pending : BOOLEAN]
          /\ FailedStatus(s, p).active = s /\ FailedStatus(s, p).pending = p
    /\ Unavailable \in [available : BOOLEAN, active : Pretended, pending : BOOLEAN]
BY DEF ReadyStatus, FailedStatus, Unavailable, Pretended

LEMMA CallTypes ==
    ASSUME NEW s \in Pretended, NEW ok \in BOOLEAN, pretending \in Pretended, Call(s, ok)
    PROVE  pretending' \in Pretended /\ pretending' \in {pretending, s} /\ (ok => pretending' = s)
BY DEF Call

\* A backend that fails leaves the service unconnected.
LEMMA BackendFails ==
    ASSUME SimType, Queued, NEW cur \in Pretended, NEW pend \in BOOLEAN, Fails(cur, pend),
           order' = Idle, UNCHANGED <<simulating, orders, wanted>>,
           ordered' \in [Orders -> {"new", "waiting", "gone", "ok", "err"}],
           \A r \in Orders : ordered'[r] = "new" => ordered[r] = "new",
           pretending' \in Pretended, aborted' \in BOOLEAN,
           simulating = "conditions" /\ ~aborted' /\ pretending' # NoSetting => cur # NoSetting \/ pend
    PROVE  SimulationInv'
<1>1. /\ current' = cur /\ cleanup' = pend /\ stage' \in {"connecting", "waiting"}
      /\ status' \in {status, Unavailable, FailedStatus(cur, pend)}
      /\ simulating = "conditions" => status' = FailedStatus(cur, pend)
  BY DEF Fails
<1>2. SimType'
  BY <1>1, StatusTypes DEF SimType
<1>3. Queued'
  <2>1. Elems(orders) \subseteq Orders
    BY DEF Elems, SimType
  <2> QED BY <2>1 DEF Queued
<1>4. Serving' /\ Stages' /\ Suspected'
  BY <1>1 DEF Serving, Stages, Suspected
<1>5. SimulationShown'
  BY <1>1, StatusTypes DEF SimulationShown
<1> QED BY <1>2, <1>3, <1>4, <1>5 DEF SimulationInv
LEMMA SimulationStep == SimulationInv /\ SimulationNext => SimulationInv'
<1> SUFFICES ASSUME SimulationInv, SimulationNext PROVE SimulationInv'
  OBVIOUS
<1>0. /\ SimType /\ Queued /\ Serving /\ Stages /\ Suspected /\ SimulationShown
      /\ NoSetting \in Pretended /\ Elems(orders) \subseteq Orders /\ NoOrder \notin Orders
  BY SimulationAssumption DEF SimulationInv, Pretended, Elems, SimType
<1>1. \A r \in Orders : order # Idle /\ order.id \in Orders
                        => wanted[order.id] \in Pretended /\ Idle.id # order.id
  BY <1>0 DEF SimType, Idle
\* Requests.
<1>2. ASSUME NEW r \in Orders, NEW s \in Settings \cup {NoSetting}, Order(r, s) PROVE SimulationInv'
  <2>1. /\ ordered[r] = "new" /\ s \in Pretended /\ wanted' = [wanted EXCEPT ![r] = s]
        /\ \E a \in {"waiting", "err"} : ordered' = [ordered EXCEPT ![r] = a]
        /\ orders' \in {orders, Append(orders, r)}
        /\ UNCHANGED <<simulating, stage, order, current, cleanup, status, pretending, aborted>>
    BY <1>2 DEF Order, Pretended
  <2>2. orders' \in Seq(Orders) /\ Elems(orders') \subseteq Elems(orders) \cup {r}
    <3>1. orders \in Seq(Orders)
      BY <1>0 DEF SimType
    <3>2. Append(orders, r) \in Seq(Orders) /\ Elems(Append(orders, r)) = Elems(orders) \cup {r}
      BY <3>1, ElemsFacts
    <3>3. CASE orders' = orders
      BY <3>1, <3>3 DEF Elems
    <3>4. CASE orders' = Append(orders, r)
      BY <3>2, <3>4
    <3> QED BY <2>1, <3>3, <3>4
  <2>3. /\ \A q \in Orders : ordered'[q] # "new" <=> ordered[q] # "new" \/ q = r
        /\ ordered' \in [Orders -> {"new", "waiting", "gone", "ok", "err"}]
        /\ \A q \in Orders : ordered[q] # "new" => wanted'[q] = wanted[q]
    BY <1>0, <2>1 DEF SimType
  <2>4. SimType' /\ Queued'
    BY <1>0, <2>1, <2>2, <2>3 DEF SimType, Queued
  <2>5. Serving'
    BY <1>0, <2>1, <2>3 DEF Serving, Idle
  <2>6. Stages' /\ Suspected' /\ SimulationShown'
    BY <1>0, <2>1 DEF Stages, Suspected, SimulationShown, Idle
  <2> QED BY <2>4, <2>5, <2>6 DEF SimulationInv
<1>3. ASSUME NEW r \in Orders, Expire(r) PROVE SimulationInv'
  <2>1. /\ ordered' = [ordered EXCEPT ![r] = "gone"] /\ ordered[r] = "waiting"
        /\ UNCHANGED <<simulating, stage, orders, order, wanted, current, cleanup, status, pretending, aborted>>
    BY <1>3 DEF Expire
  <2>2. /\ \A q \in Orders : ordered'[q] # "new" <=> ordered[q] # "new"
        /\ ordered' \in [Orders -> {"new", "waiting", "gone", "ok", "err"}]
    BY <1>0, <2>1 DEF SimType
  <2>3. SimType' /\ Queued' /\ Serving'
    BY <1>0, <2>1, <2>2 DEF SimType, Queued, Serving, Idle
  <2>4. Stages' /\ Suspected' /\ SimulationShown'
    BY <1>0, <2>1 DEF Stages, Suspected, SimulationShown, Idle
  <2> QED BY <2>3, <2>4 DEF SimulationInv
\* Connecting: neither the requests nor, mostly, the device are touched.
<1>4. ASSUME UNCHANGED <<simulating, orders, order, wanted, ordered>>, order = Idle,
             status' \in [available : BOOLEAN, active : Pretended, pending : BOOLEAN],
             current' \in Pretended, pretending' \in Pretended, cleanup' \in BOOLEAN, aborted' \in BOOLEAN
      PROVE  SimType' /\ Queued' /\ Serving'
  BY <1>0, <1>4 DEF SimType, Queued, Serving, Idle
<1>5. stage # "ready" => order = Idle
  BY <1>0 DEF Serving
<1>6. CASE StartSimulation
  <2>1. /\ stage = "stopped" /\ stage' = "connecting"
        /\ simulating = "conditions" => /\ current' = status.active /\ status' = status
                                        /\ cleanup' = (status.pending \/ status.active # NoSetting)
        /\ simulating = "location" => current' = NoSetting /\ cleanup' = FALSE /\ status' = Unavailable
        /\ UNCHANGED <<simulating, orders, order, wanted, ordered, pretending, aborted>>
    BY <1>0, <1>6 DEF StartSimulation, SimType, requestVars
  <2>2. SimType' /\ Queued' /\ Serving'
    BY <1>0, <1>4, <1>5, <2>1, StatusTypes DEF SimType
  <2>3. Stages' /\ Suspected' /\ SimulationShown'
    BY <1>0, <2>1 DEF Stages, Suspected, SimulationShown, SimType
  <2> QED BY <2>2, <2>3 DEF SimulationInv
<1>7. CASE Retry
  <2>1. /\ stage = "waiting" /\ stage' = "connecting"
        /\ UNCHANGED <<simulating, orders, order, wanted, ordered, current, cleanup, status, pretending, aborted>>
    BY <1>7 DEF Retry, requestVars
  <2>2. SimType' /\ Queued' /\ Serving'
    BY <1>0, <1>4, <1>5, <2>1 DEF SimType
  <2>3. Stages' /\ Suspected' /\ SimulationShown'
    BY <1>0, <2>1 DEF Stages, Suspected, SimulationShown
  <2> QED BY <2>2, <2>3 DEF SimulationInv
<1>8. ASSUME NEW cur \in Pretended, NEW pend \in BOOLEAN, Fails(cur, pend), order = Idle,
             UNCHANGED <<simulating, orders, order, wanted, ordered>>, pretending' \in Pretended, aborted' \in BOOLEAN,
             simulating = "conditions" /\ ~aborted' /\ pretending' # NoSetting => cur # NoSetting \/ pend
      PROVE  SimulationInv'
  <2>1. /\ ordered' \in [Orders -> {"new", "waiting", "gone", "ok", "err"}] /\ order' = Idle
        /\ \A r \in Orders : ordered'[r] = "new" => ordered[r] = "new"
    BY <1>0, <1>8 DEF SimType, Idle
  <2> QED BY <1>0, <1>8, <2>1, BackendFails
<1>9. ASSUME NEW ok \in BOOLEAN, ConnectSimulation(ok) PROVE SimulationInv'
  <2>1. /\ stage = "connecting" /\ order = Idle
        /\ UNCHANGED <<simulating, orders, order, wanted, ordered, pretending, aborted>>
    BY <1>5, <1>9 DEF ConnectSimulation, requestVars
  <2>2. CASE ok
    <3>1. stage' = (IF simulating = "conditions" THEN "baseline" ELSE "restoring") /\ UNCHANGED <<current, cleanup, status>>
      BY <1>9, <2>2 DEF ConnectSimulation
    <3>2. SimType' /\ Queued' /\ Serving'
      BY <1>0, <1>4, <2>1, <3>1 DEF SimType
    <3>3. Stages' /\ Suspected' /\ SimulationShown'
      BY <1>0, <2>1, <3>1 DEF Stages, Suspected, SimulationShown, SimType
    <3> QED BY <3>2, <3>3 DEF SimulationInv
  <2>3. CASE ~ok
    <3> DEFINE pend == cleanup \/ (simulating = "conditions" /\ current # NoSetting)
    <3>1. Fails(current, pend)
      BY <1>9, <2>3 DEF ConnectSimulation
    <3>2. pend \in BOOLEAN /\ current \in Pretended /\ pretending' \in Pretended /\ aborted' \in BOOLEAN
      BY <1>0, <2>1 DEF SimType
    <3>3. simulating = "conditions" /\ ~aborted' /\ pretending' # NoSetting => current # NoSetting \/ pend
      BY <1>0, <2>1 DEF Suspected
    <3> HIDE DEF pend
    <3> QED BY <1>8, <2>1, <3>1, <3>2, <3>3
  <2> QED BY <2>2, <2>3
<1>10. ASSUME NEW ok \in BOOLEAN, Baseline(ok) PROVE SimulationInv'
  <2>1. /\ stage = "baseline" /\ order = Idle
        /\ UNCHANGED <<simulating, orders, order, wanted, ordered>>
        /\ pretending' \in Pretended /\ (ok => pretending' = NoSetting)
    BY <1>0, <1>5, <1>10, CallTypes DEF Baseline, requestVars, SimType
  <2>2. CASE ok
    <3>1. stage' = "listing" /\ current' = NoSetting /\ cleanup' = FALSE /\ aborted' = FALSE /\ status' = status
      BY <1>10, <2>2 DEF Baseline
    <3>2. SimType' /\ Queued' /\ Serving'
      BY <1>0, <1>4, <2>1, <3>1 DEF SimType
    <3>3. Stages' /\ Suspected' /\ SimulationShown'
      BY <1>0, <2>1, <2>2, <3>1 DEF Stages, Suspected, SimulationShown, SimType
    <3> QED BY <3>2, <3>3 DEF SimulationInv
  <2>3. CASE ~ok
    <3>1. Fails(current, TRUE) /\ aborted' = aborted
      BY <1>10, <2>3 DEF Baseline
    <3>2. current \in Pretended /\ aborted' \in BOOLEAN
      BY <1>0, <3>1 DEF SimType
    <3> QED BY <1>8, <2>1, <3>1, <3>2
  <2> QED BY <2>2, <2>3
<1>11. ASSUME NEW ok \in BOOLEAN, List(ok) PROVE SimulationInv'
  <2>1. /\ stage = "listing" /\ order = Idle
        /\ UNCHANGED <<simulating, orders, order, wanted, ordered, pretending, aborted>>
        /\ pretending = NoSetting /\ current = NoSetting
    BY <1>0, <1>5, <1>11 DEF List, requestVars, Stages
  <2>2. CASE ok
    <3>1. stage' = "ready" /\ status' = ReadyStatus(current) /\ UNCHANGED <<current, cleanup>>
      BY <1>11, <2>2 DEF List
    <3>2. SimType' /\ Queued' /\ Serving'
      BY <1>0, <1>4, <2>1, <3>1, StatusTypes DEF SimType
    <3>3. Stages' /\ Suspected' /\ SimulationShown'
      BY <1>0, <2>1, <3>1, StatusTypes DEF Stages, Suspected, SimulationShown, SimType
    <3> QED BY <3>2, <3>3 DEF SimulationInv
  <2>3. CASE ~ok
    <3>1. Fails(current, cleanup)
      BY <1>11, <2>3 DEF List
    <3>2. current \in Pretended /\ cleanup \in BOOLEAN /\ aborted' \in BOOLEAN /\ pretending' \in Pretended
      BY <1>0, <2>1 DEF SimType
    <3> QED BY <1>8, <2>1, <3>1, <3>2
  <2> QED BY <2>2, <2>3
<1>12. ASSUME NEW ok \in BOOLEAN, Restore(ok) \/ Keepalive(ok) PROVE SimulationInv'
  <2>1. /\ order = Idle /\ simulating = "location"
        /\ UNCHANGED <<simulating, orders, order, wanted, ordered, aborted>>
        /\ pretending' \in Pretended /\ (ok /\ current # NoSetting => pretending' = current)
    <3>1. CASE Restore(ok)
      BY <1>0, <1>5, <3>1, CallTypes DEF Restore, requestVars, SimType, Stages
    <3>2. CASE Keepalive(ok)
      BY <1>0, <1>5, <3>2, CallTypes DEF Keepalive, requestVars, SimType, Stages
    <3> QED BY <1>12, <3>1, <3>2
  <2>2. CASE ok
    <3>1. stage' = "ready" /\ current' = current /\ cleanup' = cleanup
          /\ status' \in {status, ReadyStatus(current)}
          /\ status'.available /\ status'.active = current
      <4>1. ReadyStatus(current).available /\ ReadyStatus(current).active = current
        BY <1>0, StatusTypes DEF SimType
      <4>2. CASE Restore(ok)
        BY <2>2, <4>1, <4>2 DEF Restore
      <4>3. CASE Keepalive(ok)
        BY <1>0, <2>2, <4>3 DEF Keepalive, Stages
      <4> QED BY <1>12, <4>2, <4>3
    <3>2. SimType' /\ Queued' /\ Serving'
      BY <1>0, <1>4, <2>1, <3>1, StatusTypes DEF SimType
    <3>3. Stages' /\ Suspected' /\ SimulationShown'
      BY <1>0, <2>1, <2>2, <3>1 DEF Stages, Suspected, SimulationShown, SimType
    <3> QED BY <3>2, <3>3 DEF SimulationInv
  <2>3. CASE ~ok
    <3>1. Fails(current, cleanup)
      BY <1>12, <2>3 DEF Restore, Keepalive
    <3>2. current \in Pretended /\ cleanup \in BOOLEAN /\ aborted' \in BOOLEAN
      BY <1>0, <2>1 DEF SimType
    <3> QED BY <1>8, <2>1, <3>1, <3>2
  <2> QED BY <2>2, <2>3
\* Serving.
<1>13. CASE TakeOrder
  <2> DEFINE r == Head(orders)
             s == wanted[r]
  <2>1. /\ stage = "ready" /\ order = Idle /\ orders # <<>> /\ orders' = Tail(orders)
        /\ UNCHANGED <<simulating, stage, wanted, current, cleanup, status, pretending, aborted>>
        /\ \/ \E a \in {"ok", "err"} : ordered' = Answered(r, a) /\ order' = order
           \/ order' = [id |-> r, calls |-> Needed(s)] /\ ordered' = ordered
    BY <1>13 DEF TakeOrder
  <2>2. orders \in Seq(Orders)
    BY <1>0 DEF SimType
  <2>3. /\ r \in Orders /\ r \in Elems(orders) /\ orders' \in Seq(Orders) /\ Elems(orders') \subseteq Elems(orders)
    BY <2>1, <2>2, ElemsFacts
  <2>4. ordered[r] # "new" /\ s \in Pretended
    BY <1>0, <2>3 DEF Queued, SimType
  <2>5. /\ \A q \in Orders : ordered'[q] # "new" <=> ordered[q] # "new"
        /\ ordered' \in [Orders -> {"new", "waiting", "gone", "ok", "err"}]
    BY <1>0, <2>1, <2>3 DEF SimType, Answered
  <2>6. SimType' /\ Queued'
    BY <1>0, <2>1, <2>3, <2>5 DEF SimType, Queued
  <2>7. Serving'
    <3>1. CASE order' = order
      BY <2>1, <3>1 DEF Serving, Idle
    <3>2. CASE order' = [id |-> r, calls |-> Needed(s)]
      <4>1. Needed(s) \in {<<s>>, <<NoSetting, s>>}
        BY DEF Needed
      <4>2. order'.id = r /\ order'.calls = Needed(s)
        BY <3>2
      <4> QED BY <1>0, <2>1, <2>3, <2>4, <2>5, <3>2, <4>1, <4>2 DEF Serving
    <3> QED BY <2>1, <3>1, <3>2
  <2>8. Stages' /\ Suspected' /\ SimulationShown'
    BY <1>0, <2>1 DEF Stages, Suspected, SimulationShown
  <2> QED BY <2>6, <2>7, <2>8 DEF SimulationInv
\* The request being served: what it calls now, and the end of its calls.
<1>14. ASSUME order # Idle
       PROVE  /\ order.id \in Orders /\ wanted[order.id] \in Pretended /\ ordered[order.id] # "new"
              /\ stage = "ready" /\ Head(order.calls) \in Pretended
              /\ \/ ~(Len(order.calls) > 1) /\ Head(order.calls) = wanted[order.id]
                 \/ /\ Len(order.calls) > 1 /\ Head(order.calls) = NoSetting
                    /\ [order EXCEPT !.calls = Tail(@)] = [id |-> order.id, calls |-> <<wanted[order.id]>>]
  <2> DEFINE w == wanted[order.id]
  <2>1. /\ order.id \in Orders /\ w \in Pretended /\ ordered[order.id] # "new" /\ stage = "ready"
        /\ order \in {[id |-> order.id, calls |-> <<w>>], [id |-> order.id, calls |-> <<NoSetting, w>>]}
    BY <1>0, <1>1, <1>14 DEF Serving
  <2>2. CASE order = [id |-> order.id, calls |-> <<w>>]
    <3>1. order.calls = <<w>>
      BY <2>2
    <3> QED BY <2>1, <3>1
  <2>3. CASE order = [id |-> order.id, calls |-> <<NoSetting, w>>]
    <3>1. order.calls = <<NoSetting, w>> /\ Tail(<<NoSetting, w>>) = <<w>>
      BY <2>3
    <3>2. Len(order.calls) > 1 /\ Head(order.calls) = NoSetting
      BY <3>1
    <3>3. [order EXCEPT !.calls = Tail(@)] = [id |-> order.id, calls |-> <<w>>]
      BY <2>3, <3>1
    <3> QED BY <1>0, <2>1, <3>2, <3>3
  <2> QED BY <2>1, <2>2, <2>3
<1>15. CASE OrderOk
  <2>1. /\ order # Idle /\ Call(Head(order.calls), TRUE)
        /\ UNCHANGED <<simulating, stage, orders, wanted, aborted>>
    BY <1>15 DEF OrderOk
  <2>2. pretending' \in Pretended /\ pretending' = Head(order.calls)
    BY <1>0, <1>14, <2>1, CallTypes DEF SimType
  <2>3. CASE Len(order.calls) > 1
    <3>1. order' = [id |-> order.id, calls |-> <<wanted[order.id]>>]
          /\ UNCHANGED <<ordered, current, cleanup, status>>
      <4>1. order' = [order EXCEPT !.calls = Tail(@)] /\ UNCHANGED <<ordered, current, cleanup, status>>
        BY <1>15, <2>3 DEF OrderOk
      <4>2. [order EXCEPT !.calls = Tail(@)] = [id |-> order.id, calls |-> <<wanted[order.id]>>]
        BY <1>14, <2>1, <2>3
      <4> QED BY <4>1, <4>2
    <3>2. order'.id = order.id
      BY <3>1
    <3>3. SimType' /\ Queued'
      BY <1>0, <2>1, <2>2, <3>1 DEF SimType, Queued
    <3>4. Serving'
      BY <1>14, <2>1, <3>1, <3>2 DEF Serving
    <3>5. order' # Idle
      BY <1>0, <1>14, <2>1, <3>2 DEF Idle
    <3>6. Stages' /\ Suspected' /\ SimulationShown'
      BY <1>0, <1>14, <2>1, <3>1, <3>5 DEF Stages, Suspected, SimulationShown, Idle
    <3> QED BY <3>3, <3>4, <3>6 DEF SimulationInv
  <2>4. CASE ~(Len(order.calls) > 1)
    <3> DEFINE w == wanted[order.id]
    <3>1. order' = Idle /\ ordered' = Answered(order.id, "ok") /\ current' = w
          /\ cleanup' = FALSE /\ status' = ReadyStatus(w)
      BY <1>15, <2>4 DEF OrderOk
    <3>2. w \in Pretended /\ pretending' = w /\ stage = "ready"
      BY <1>14, <2>1, <2>2, <2>4
    <3>3. /\ \A q \in Orders : ordered'[q] # "new" <=> ordered[q] # "new"
          /\ ordered' \in [Orders -> {"new", "waiting", "gone", "ok", "err"}]
      BY <1>0, <1>14, <2>1, <3>1 DEF SimType, Answered
    <3>4. SimType' /\ Queued'
      BY <1>0, <2>1, <2>2, <3>1, <3>2, <3>3, StatusTypes DEF SimType, Queued
    <3>5. Serving'
      BY <3>1 DEF Serving, Idle
    <3>6. Stages' /\ Suspected' /\ SimulationShown'
      BY <1>0, <2>1, <3>1, <3>2, StatusTypes DEF Stages, Suspected, SimulationShown
    <3> QED BY <3>4, <3>5, <3>6 DEF SimulationInv
  <2> QED BY <2>3, <2>4
<1>16. CASE OrderFails
  <2> DEFINE cur == IF simulating = "conditions" /\ Head(order.calls) # NoSetting THEN Head(order.calls) ELSE current
             pend == simulating = "conditions"
  <2>1. /\ order # Idle /\ Call(Head(order.calls), FALSE) /\ order' = Idle
        /\ ordered' = Answered(order.id, "err") /\ Fails(cur, pend)
        /\ UNCHANGED <<simulating, orders, wanted, aborted>>
    BY <1>16 DEF OrderFails
  <2>2. pretending' \in Pretended /\ cur \in Pretended /\ pend \in BOOLEAN /\ aborted' \in BOOLEAN
    BY <1>0, <1>14, <2>1, CallTypes DEF SimType
  <2>3. /\ \A q \in Orders : ordered'[q] = "new" => ordered[q] = "new"
        /\ ordered' \in [Orders -> {"new", "waiting", "gone", "ok", "err"}]
    BY <1>0, <1>14, <2>1 DEF SimType, Answered
  <2>4. simulating = "conditions" /\ ~aborted' /\ pretending' # NoSetting => cur # NoSetting \/ pend
    OBVIOUS
  <2> HIDE DEF cur, pend
  <2> QED BY <1>0, <2>1, <2>2, <2>3, <2>4, BackendFails
\* The end of the session.
<1>17. CASE CloseSession
  <2>1. UNCHANGED <<simulating, stage, orders, order, wanted, ordered, current, cleanup, status, pretending, aborted>>
    BY <1>17 DEF CloseSession, requestVars
  <2> QED BY <1>0, <2>1 DEF SimulationInv, SimType, Queued, Serving, Stages, Suspected, SimulationShown, Idle
<1>18. ASSUME Ends, UNCHANGED <<simulating, wanted>>, pretending' \in Pretended, aborted' \in BOOLEAN,
              status' \in [available : BOOLEAN, active : Pretended, pending : BOOLEAN],
              simulating = "conditions" /\ ~aborted' /\ pretending' # NoSetting =>
                  status'.active # NoSetting \/ status'.pending
       PROVE  SimulationInv'
  <2>1. /\ stage' = "stopped" /\ order' = Idle /\ orders' = <<>> /\ current' = NoSetting /\ cleanup' = FALSE
        /\ ordered' = [r \in Orders |-> IF ordered[r] = "waiting" THEN "err" ELSE ordered[r]]
    BY <1>18 DEF Ends
  <2>2. orders' \in Seq(Orders) /\ Elems(orders') = {}
    BY <2>1, NoQueue
  <2>3. SimType' /\ Queued'
    BY <1>0, <1>18, <2>1, <2>2 DEF SimType, Queued
  <2>4. Serving' /\ Stages' /\ Suspected' /\ SimulationShown'
    BY <1>18, <2>1 DEF Serving, Stages, Suspected, SimulationShown, Idle
  <2> QED BY <2>3, <2>4 DEF SimulationInv
<1>19. CASE StopsUnconnected
  <2>1. /\ Ends /\ stage \in {"connecting", "waiting"}
        /\ status' = (IF simulating = "conditions" /\ (cleanup \/ current # NoSetting) THEN status ELSE Unavailable)
        /\ UNCHANGED <<simulating, wanted, pretending, aborted>>
    BY <1>19 DEF StopsUnconnected
  <2>2. status' \in [available : BOOLEAN, active : Pretended, pending : BOOLEAN]
    BY <1>0, <2>1, StatusTypes DEF SimType
  <2>3. simulating = "conditions" /\ ~aborted' /\ pretending' # NoSetting =>
                  status'.active # NoSetting \/ status'.pending
    BY <1>0, <2>1 DEF Suspected, SimulationShown
  <2> QED BY <1>0, <1>18, <2>1, <2>2, <2>3 DEF SimType
<1>20. ASSUME NEW ok \in BOOLEAN, StopsConnected(ok) PROVE SimulationInv'
  <2>1. Ends /\ stage = "ready" /\ order = Idle /\ UNCHANGED <<simulating, wanted, aborted>>
    BY <1>20 DEF StopsConnected
  <2>2. CASE cleanup \/ current # NoSetting
    <3>1. /\ Call(NoSetting, ok)
          /\ status' = IF ok \/ simulating = "location" THEN Unavailable ELSE FailedStatus(current, TRUE)
      BY <1>20, <2>2 DEF StopsConnected
    <3>2. pretending' \in Pretended /\ (ok => pretending' = NoSetting)
      BY <1>0, <3>1, CallTypes DEF SimType
    <3>3. status' \in [available : BOOLEAN, active : Pretended, pending : BOOLEAN]
          /\ (~ok /\ simulating = "conditions" => status'.pending)
      BY <1>0, <3>1, StatusTypes DEF SimType
    <3> QED BY <1>0, <1>18, <2>1, <3>2, <3>3 DEF SimType
  <2>3. CASE ~(cleanup \/ current # NoSetting)
    <3>1. status' = Unavailable /\ pretending' = pretending
      BY <1>20, <2>3 DEF StopsConnected
    <3>2. simulating = "conditions" => pretending = NoSetting
      BY <1>0, <2>1, <2>3 DEF SimulationShown
    <3>3. status' \in [available : BOOLEAN, active : Pretended, pending : BOOLEAN]
      BY <3>1, StatusTypes
    <3> QED BY <1>0, <1>18, <2>1, <3>1, <3>2, <3>3 DEF SimType
  <2> QED BY <2>2, <2>3
<1>21. CASE AbortSimulation
  <2>1. Ends /\ aborted' = TRUE /\ UNCHANGED <<simulating, wanted, status, pretending>>
    BY <1>21 DEF AbortSimulation
  <2> QED BY <1>0, <1>18, <2>1 DEF SimType
<1> QED BY <1>2, <1>3, <1>6, <1>7, <1>9, <1>10, <1>11, <1>12, <1>13, <1>15, <1>16, <1>17, <1>19,
           <1>20, <1>21 DEF SimulationNext, Pretended

LEMMA SimulationInvHolds == SimulationSpec => []SimulationInv
<1>1. SimulationInit => SimulationInv
  <2> SUFFICES ASSUME SimulationInit PROVE SimulationInv
    OBVIOUS
  <2>1. NoSetting \in Pretended /\ <<>> \in Seq(Orders) /\ Elems(<<>>) = {}
    BY NoQueue DEF Pretended
  <2>2. SimType /\ Queued
    BY <2>1, StatusTypes DEF SimulationInit, SimType, Queued
  <2>3. Serving /\ Stages /\ Suspected /\ SimulationShown
    BY DEF SimulationInit, Serving, Stages, Suspected, SimulationShown
  <2> QED BY <2>2, <2>3 DEF SimulationInv
<1>2. SimulationInv /\ UNCHANGED simulationVars => SimulationInv'
  BY DEF SimulationInv, SimType, Queued, Serving, Stages, Suspected, SimulationShown, Idle, Elems,
         simulationVars, requestVars
<1> QED BY <1>1, <1>2, SimulationStep, PTL DEF SimulationSpec

\* What the status slot of the conditions or of the location says is what the
\* device does, also when a call failed that had its effect, and between the
\* sessions of the device.
THEOREM SimulationIsShown == SimulationSpec => []SimulationShown
<1>1. SimulationInv => SimulationShown
  BY DEF SimulationInv
<1> QED BY <1>1, SimulationInvHolds, PTL-----------------------------------------------------------------------------
(***************************************************************************)
(* Clipboard.  While the session's task knows the count of the pasteboard  *)
(* it also remembers what the pasteboard holds, unless it skipped a        *)
(* change; and it remembers one content only, so a content that it knows   *)
(* on both sides is the same.  A push on its way with the present count    *)
(* has the present content.                                                *)
(***************************************************************************)
ClipboardSpec == ClipboardInit /\ [][ClipboardNext]_clipVars

Snapshots == [content : Contents, at : Nat]

ClipType ==
    /\ {hostClip, deviceClip} \subseteq Contents \cup {Nothing}
    /\ lastText \in Texts \cup {Nothing} /\ lastImage \in Images \cup {Nothing}
    /\ changeCount \in Nat /\ lastChange \in Nat /\ lastChange <= changeCount
    /\ skipped \in BOOLEAN
    /\ pasteOrders \in Seq([text : Texts, awaited : BOOLEAN])

OneRemembered == lastText = Nothing \/ lastImage = Nothing

PushesTrue ==
    pushed # <<>> =>
        /\ deviceClip # Nothing
        /\ \E p \in Snapshots : /\ pushed = <<p>> /\ p.at <= changeCount
                                /\ p.at = changeCount => p.content = deviceClip

Wrote == handling = "counting" => deviceClip # Nothing

\* The content of a pasteboard whose count is the last one is remembered.
Remembered ==
    clipMode = "sync" /\ ~skipped =>
        /\ lastChange = changeCount => deviceClip \in {Nothing, lastText, lastImage}
        /\ deviceClip = Nothing => lastText = Nothing /\ lastImage = Nothing

ClipboardInv == ClipType /\ OneRemembered /\ PushesTrue /\ Wrote /\ Remembered

\* The pasteboard changes.
LEMMA WriteFacts ==
    ASSUME ClipType, PushesTrue, NEW c \in Contents, NEW by, PasteboardChanges(c, by)
    PROVE  /\ deviceClip' = c /\ deviceClip' \in Contents /\ deviceClip' # Nothing
           /\ changeCount' = changeCount + 1 /\ changeCount' \in Nat
           /\ PushesTrue'
<1>1. /\ deviceClip' = c /\ changeCount' = changeCount + 1 /\ c # Nothing
      /\ pushed' \in {pushed, <<[content |-> c, at |-> changeCount + 1]>>}
  BY ClipboardAssumption DEF PasteboardChanges, Contents
<1>2. changeCount \in Nat
  BY DEF ClipType
<1>3. CASE pushed' = pushed
  BY <1>1, <1>2, <1>3 DEF PushesTrue, Snapshots
<1>4. CASE pushed' = <<[content |-> c, at |-> changeCount + 1]>>
  <2> DEFINE p == [content |-> c, at |-> changeCount + 1]
  <2>1. p \in Snapshots /\ p.at = changeCount' /\ p.content = deviceClip'
    BY <1>1, <1>2 DEF Snapshots
  <2> HIDE DEF p
  <2>2. pushed' = <<p>>
    BY <1>4 DEF p
  <2>3. changeCount' \in Nat
    BY <1>1, <1>2
  <2> QED BY <1>1, <2>1, <2>2, <2>3 DEF PushesTrue
<1> QED BY <1>1, <1>2, <1>3, <1>4

LEMMA RemembersFacts ==
    ASSUME NEW c \in Contents \cup {Nothing}, Remembers(c)
    PROVE  /\ lastText' \in Texts \cup {Nothing} /\ lastImage' \in Images \cup {Nothing}
           /\ OneRemembered' /\ c \in {Nothing, lastText', lastImage'}
           /\ c = Nothing => lastText' = Nothing /\ lastImage' = Nothing
BY ClipboardAssumption DEF Remembers, OneRemembered, Contents

\* What the device holds is looked at, or a push that tells of it.
LEMMA ApplyStep ==
    ASSUME ClipboardInv, NEW snapshot, snapshot.content \in Contents \cup {Nothing},
           snapshot.at \in Nat, snapshot.at <= changeCount,
           snapshot.at = changeCount => snapshot.content = deviceClip,
           snapshot.content # Nothing => deviceClip # Nothing,
           clipMode = "sync", Apply(snapshot),
           UNCHANGED <<deviceClip, changeCount, clipMode, pasteOrders>>, PushesTrue', Wrote'
    PROVE  ClipboardInv'
<1>0. ClipType /\ OneRemembered /\ Remembered
  BY DEF ClipboardInv
<1>1. CASE snapshot.at = lastChange
  <2>1. UNCHANGED <<hostClip, lastText, lastImage, lastChange, skipped>>
    BY <1>1 DEF Apply, clipState
  <2> QED BY <1>0, <2>1 DEF ClipboardInv, ClipType, OneRemembered, Remembered
<1>2. CASE snapshot.at # lastChange
  <2>1. lastChange' = snapshot.at
    BY <1>2 DEF Apply
  <2>2. ASSUME Known(snapshot.content), UNCHANGED <<hostClip, lastText, lastImage>>,
               skipped' = (skipped /\ snapshot.content = Nothing)
        PROVE  ClipboardInv'
    <3>1. ClipType' /\ OneRemembered'
      BY <1>0, <2>1, <2>2 DEF ClipType, OneRemembered
    <3>2. Remembered'
      BY <1>0, <2>1, <2>2 DEF Remembered, Known
    <3> QED BY <3>1, <3>2 DEF ClipboardInv
  <2>3. ASSUME ~Known(snapshot.content), hostClip' = snapshot.content, Remembers(snapshot.content),
               skipped' = FALSE
        PROVE  ClipboardInv'
    <3>1. /\ lastText' \in Texts \cup {Nothing} /\ lastImage' \in Images \cup {Nothing}
          /\ OneRemembered' /\ snapshot.content \in {Nothing, lastText', lastImage'}
      BY <2>3, RemembersFacts
    <3>2. snapshot.content # Nothing
      BY <2>3 DEF Known
    <3>3. ClipType'
      BY <1>0, <2>1, <2>3, <3>1 DEF ClipType
    <3>4. Remembered'
      BY <1>0, <2>1, <2>3, <3>1, <3>2 DEF Remembered
    <3> QED BY <3>1, <3>3, <3>4 DEF ClipboardInv
  <2>4. ASSUME UNCHANGED <<hostClip, lastText, lastImage>>, skipped' = TRUE PROVE ClipboardInv'
    BY <1>0, <2>1, <2>4 DEF ClipboardInv, ClipType, OneRemembered, Remembered
  <2> QED BY <1>2, <2>2, <2>3, <2>4 DEF Apply
<1> QED BY <1>1, <1>2
LEMMA ClipboardStep == ClipboardInv /\ ClipboardNext => ClipboardInv'
<1> SUFFICES ASSUME ClipboardInv, ClipboardNext PROVE ClipboardInv'
  OBVIOUS
<1>0. /\ ClipType /\ OneRemembered /\ PushesTrue /\ Wrote /\ Remembered
      /\ changeCount \in Nat /\ Nothing \notin Contents
  BY ClipboardAssumption DEF ClipboardInv, ClipType, Contents
\* Steps that leave the clipboards and what is remembered of them.
<1>1. ASSUME UNCHANGED <<deviceClip, changeCount, lastText, lastImage, lastChange, skipped>>,
             hostClip' \in Contents \cup {Nothing},
             handling' \in {handling, "idle", "pulled"}, pushed' \in {pushed, <<>>},
             clipMode' = "sync" => clipMode = "sync",
             pasteOrders' \in Seq([text : Texts, awaited : BOOLEAN])
      PROVE  ClipboardInv'
  BY <1>0, <1>1 DEF ClipboardInv, ClipType, OneRemembered, PushesTrue, Wrote, Remembered
\* Steps that write the pasteboard and remember nothing.
<1>2. ASSUME NEW c \in Contents, NEW by, PasteboardChanges(c, by),
             UNCHANGED <<hostClip, lastText, lastImage, lastChange, skipped>>,
             clipMode' = "sync" => clipMode = "sync",
             pasteOrders' \in Seq([text : Texts, awaited : BOOLEAN])
      PROVE  ClipboardInv'
  <2>1. /\ deviceClip' = c /\ deviceClip' # Nothing /\ changeCount' = changeCount + 1 /\ PushesTrue'
    BY <1>0, <1>2, WriteFacts
  <2>2. ClipType'
    BY <1>0, <1>2, <2>1 DEF ClipType
  <2>3. lastChange' # changeCount'
    BY <1>0, <1>2, <2>1 DEF ClipType
  <2> QED BY <1>0, <1>2, <2>1, <2>2, <2>3 DEF ClipboardInv, OneRemembered, Wrote, Remembered
\* Steps that write it and remember what they wrote.
<1>3. ASSUME NEW c \in Contents, NEW by, PasteboardChanges(c, by), Remembers(c),
             UNCHANGED <<hostClip, lastChange, clipMode>>, skipped' \in BOOLEAN,
             pasteOrders' \in Seq([text : Texts, awaited : BOOLEAN])
      PROVE  ClipboardInv'
  <2>1. /\ deviceClip' = c /\ deviceClip' # Nothing /\ changeCount' = changeCount + 1 /\ PushesTrue'
    BY <1>0, <1>3, WriteFacts
  <2>2. /\ lastText' \in Texts \cup {Nothing} /\ lastImage' \in Images \cup {Nothing}
        /\ OneRemembered'
    BY <1>3, RemembersFacts
  <2>3. ClipType'
    BY <1>0, <1>3, <2>1, <2>2 DEF ClipType
  <2>4. lastChange' # changeCount'
    BY <1>0, <1>3, <2>1 DEF ClipType
  <2> QED BY <2>1, <2>2, <2>3, <2>4 DEF ClipboardInv, Wrote, Remembered
<1>4. pasteOrders \in Seq([text : Texts, awaited : BOOLEAN])
  BY <1>0 DEF ClipType
\* Users.
<1>5. ASSUME NEW c \in Contents, CopiesOnDevice(c) PROVE ClipboardInv'
  <2>1. PasteboardChanges(c, "user")
        /\ UNCHANGED <<hostClip, lastText, lastImage, lastChange, skipped, clipMode, pasteOrders>>
    BY <1>5 DEF CopiesOnDevice, clipState, pasteVars
  <2> QED BY <1>2, <1>4, <2>1
<1>6. ASSUME NEW c \in Contents, CopiesOnHost(c) PROVE ClipboardInv'
  <2>1. /\ UNCHANGED <<deviceClip, changeCount, lastText, lastImage, lastChange, skipped, handling, pushed,
                       clipMode, pasteOrders>>
        /\ hostClip' \in Contents \cup {Nothing}
    BY <1>6 DEF CopiesOnHost, clipState, pasteVars
  <2> QED BY <1>1, <1>4, <2>1
\* The session's task.
<1>7. CASE ConnectsClipboard
  <2>1. UNCHANGED <<hostClip, deviceClip, changeCount, pushed, handling, pasteOrders>>
    BY <1>7 DEF ConnectsClipboard, pasteVars
  <2>2. CASE clipMode' \in {"commands", "detached"} /\ UNCHANGED <<clipState, skipped>>
    BY <1>0, <1>1, <1>4, <2>1, <2>2 DEF ClipType, clipState
  <2>3. ASSUME Remembers(hostClip), lastChange' \in {changeCount, 0}, skipped' = (hostClip # deviceClip)
        PROVE  ClipboardInv'
    <3>1. /\ lastText' \in Texts \cup {Nothing} /\ lastImage' \in Images \cup {Nothing}
          /\ OneRemembered' /\ hostClip \in {Nothing, lastText', lastImage'}
          /\ hostClip = Nothing => lastText' = Nothing /\ lastImage' = Nothing
      BY <1>0, <2>3, RemembersFacts DEF ClipType
    <3>2. ClipType'
      BY <1>0, <2>1, <2>3, <3>1 DEF ClipType
    <3>3. PushesTrue' /\ Wrote'
      BY <1>0, <2>1 DEF PushesTrue, Wrote
    <3>4. Remembered'
      BY <2>1, <2>3, <3>1 DEF Remembered
    <3> QED BY <3>1, <3>2, <3>3, <3>4 DEF ClipboardInv
  <2> QED BY <1>7, <2>2, <2>3 DEF ConnectsClipboard
<1>8. CASE TakesPush
  <2> DEFINE p == Head(pushed)
  <2>1. /\ clipMode = "sync" /\ pushed # <<>> /\ Apply(p) /\ pushed' = Tail(pushed)
        /\ UNCHANGED <<deviceClip, changeCount, clipMode, handling, pasteOrders>>
    BY <1>8 DEF TakesPush, pasteVars
  <2>2. PICK s \in Snapshots : pushed = <<s>> /\ s.at <= changeCount /\ (s.at = changeCount => s.content = deviceClip)
    BY <1>0, <2>1 DEF PushesTrue
  <2>3. p = s /\ pushed' = <<>> /\ deviceClip # Nothing
    BY <1>0, <2>1, <2>2 DEF PushesTrue
  <2>4. PushesTrue' /\ Wrote'
    BY <1>0, <2>1, <2>3 DEF PushesTrue, Wrote
  <2>5. p.content \in Contents \cup {Nothing} /\ p.at \in Nat
    BY <2>3 DEF Snapshots
  <2> HIDE DEF p
  <2> QED BY <2>1, <2>2, <2>3, <2>4, <2>5, ApplyStep
<1>9. CASE PollsDevice
  <2> DEFINE p == [content |-> deviceClip, at |-> changeCount]
  <2>1. /\ clipMode = "sync" /\ Apply(p) /\ handling' = "pulled"
        /\ UNCHANGED <<deviceClip, changeCount, clipMode, pushed, pasteOrders>>
    BY <1>9 DEF PollsDevice, pasteVars
  <2>2. PushesTrue' /\ Wrote'
    BY <1>0, <2>1 DEF PushesTrue, Wrote
  <2>3. p.content = deviceClip /\ p.at = changeCount /\ deviceClip \in Contents \cup {Nothing}
    BY <1>0 DEF ClipType
  <2> HIDE DEF p
  <2>4. p.at <= changeCount
    BY <1>0, <2>3
  <2> QED BY <1>0, <2>1, <2>2, <2>3, <2>4, ApplyStep
<1>10. CASE PushFails
  <2>1. /\ UNCHANGED <<hostClip, deviceClip, changeCount, clipMode, lastText, lastImage, handling, pasteOrders>>
        /\ pushed' \in {pushed, <<>>} /\ skipped' \in {skipped, skipped \/ ~Known(deviceClip)}
        /\ lastChange' \in {lastChange, changeCount, 0}
        /\ (lastChange' = lastChange /\ skipped' = skipped) \/ skipped' = (skipped \/ ~Known(deviceClip))
    BY <1>10 DEF PushFails, pasteVars
  <2>2. ClipType' /\ OneRemembered'
    <3>1. skipped' \in BOOLEAN
      BY <1>0, <2>1 DEF ClipType
    <3>2. lastChange' \in Nat /\ lastChange' <= changeCount
      BY <1>0, <2>1 DEF ClipType
    <3> QED BY <1>0, <2>1, <3>1, <3>2 DEF ClipType, OneRemembered
  <2>3. PushesTrue' /\ Wrote'
    BY <1>0, <2>1 DEF PushesTrue, Wrote
  <2>4. Remembered'
    BY <1>0, <2>1 DEF Remembered, Known
  <2> QED BY <2>2, <2>3, <2>4 DEF ClipboardInv
<1>11. CASE PollFails
  <2>1. /\ UNCHANGED <<hostClip, deviceClip, changeCount, clipMode, lastText, lastImage, lastChange, handling, pasteOrders, skipped>>
        /\ pushed' \in {pushed, <<>>}
    BY <1>11 DEF PollFails, pasteVars, clipState
  <2> QED BY <1>0, <1>1, <1>4, <2>1 DEF ClipType
<1>12. CASE PushesHost
  <2>1. /\ ~Known(hostClip) /\ hostClip' = hostClip /\ UNCHANGED <<clipMode, lastChange, pasteOrders>>
        /\ hostClip \in Contents
    BY <1>0, <1>12 DEF PushesHost, pasteVars, Known, ClipType
  <2>2. CASE PasteboardChanges(hostClip, "sync") /\ Remembers(hostClip) /\ skipped' = FALSE
    BY <1>3, <1>4, <2>1, <2>2
  <2>3. CASE PasteboardChanges(hostClip, "sync") /\ UNCHANGED <<lastText, lastImage, skipped>>
    BY <1>2, <1>4, <2>1, <2>3
  <2>4. CASE PasteboardKept /\ pushed' \in {pushed, <<>>} /\ handling' = "idle" /\ UNCHANGED <<lastText, lastImage, skipped>>
    <3>1. UNCHANGED <<deviceClip, changeCount>>
      BY <2>4 DEF PasteboardKept
    <3> QED BY <1>1, <1>4, <2>1, <2>4, <3>1
  <2> QED BY <1>12, <2>2, <2>3, <2>4 DEF PushesHost
<1>13. CASE HostUnchanged
  <2>1. /\ UNCHANGED <<hostClip, deviceClip, changeCount, clipMode, lastText, lastImage, lastChange, pushed, pasteOrders, skipped>>
        /\ handling' = "idle"
    BY <1>13 DEF HostUnchanged, pasteVars, clipState
  <2> QED BY <1>0, <1>1, <1>4, <2>1 DEF ClipType
<1>14. CASE CountsOwnChange
  <2>1. /\ UNCHANGED <<hostClip, deviceClip, changeCount, clipMode, lastText, lastImage, pushed, pasteOrders>>
        /\ handling = "counting" /\ handling' = "idle" /\ lastChange' \in {changeCount, 0}
        /\ skipped' = ~Known(deviceClip)
    BY <1>14 DEF CountsOwnChange, pasteVars
  <2>2. deviceClip # Nothing
    BY <1>0, <2>1 DEF Wrote
  <2>3. ClipType' /\ OneRemembered' /\ Wrote' /\ PushesTrue'
    BY <1>0, <2>1 DEF ClipType, OneRemembered, Wrote, PushesTrue
  <2>4. Remembered'
    BY <2>1, <2>2 DEF Remembered, Known
  <2> QED BY <2>3, <2>4 DEF ClipboardInv
\* Pasting.
<1>15. ASSUME NEW text \in Texts, PasteText(text) PROVE ClipboardInv'
  <2>1. /\ UNCHANGED <<hostClip, deviceClip, changeCount, clipMode, lastText, lastImage, lastChange, pushed, handling, skipped>>
        /\ pasteOrders' = Append(pasteOrders, [text |-> text, awaited |-> TRUE])
    BY <1>15 DEF PasteText, clipState
  <2>2. pasteOrders' \in Seq([text : Texts, awaited : BOOLEAN])
    BY <1>4, <2>1
  <2> QED BY <1>0, <1>1, <2>1, <2>2 DEF ClipType
<1>16. CASE PasteTimesOut
  <2>1. /\ UNCHANGED <<hostClip, deviceClip, changeCount, clipMode, lastText, lastImage, lastChange, pushed, handling, skipped>>
        /\ pasteOrders' = [i \in DOMAIN pasteOrders |-> [pasteOrders[i] EXCEPT !.awaited = FALSE]]
    BY <1>16 DEF PasteTimesOut, clipState
  <2>2. pasteOrders' \in Seq([text : Texts, awaited : BOOLEAN])
    <3> DEFINE O == [text : Texts, awaited : BOOLEAN]
    <3>1. \A o \in O : [o EXCEPT !.awaited = FALSE] \in O
      OBVIOUS
    <3>0. pasteOrders \in Seq(O)
      BY <1>4
    <3> HIDE DEF O
    <3>2. DOMAIN pasteOrders = 1..Len(pasteOrders) /\ Len(pasteOrders) \in Nat
          /\ \A i \in 1..Len(pasteOrders) : pasteOrders[i] \in O
      BY <3>0
    <3>3. pasteOrders' \in [1..Len(pasteOrders) -> O]
      BY <2>1, <3>1, <3>2
    <3>4. pasteOrders' \in Seq(O)
      BY <3>2, <3>3
    <3> QED BY <3>4 DEF O
  <2> QED BY <1>0, <1>1, <2>1, <2>2 DEF ClipType
<1>17. CASE ExecutesCommand
  <2> DEFINE text == Head(pasteOrders).text
  <2>1. /\ pasteOrders # <<>> /\ pasteOrders' = Tail(pasteOrders) /\ UNCHANGED <<hostClip, skipped>>
    BY <1>17 DEF ExecutesCommand
  <2>2. text \in Contents /\ pasteOrders' \in Seq([text : Texts, awaited : BOOLEAN])
    <3> DEFINE O == [text : Texts, awaited : BOOLEAN]
    <3>1. pasteOrders \in Seq(O)
      BY <1>4
    <3>2. \A o \in O : o.text \in Texts
      OBVIOUS
    <3> HIDE DEF O
    <3>3. Head(pasteOrders) \in O /\ Tail(pasteOrders) \in Seq(O)
      BY <2>1, <3>1, TakeFacts
    <3>4. text \in Contents
      BY <3>2, <3>3 DEF Contents
    <3> QED BY <2>1, <3>3, <3>4 DEF O
  <2>3. CASE /\ PasteboardChanges(text, "paste") /\ UNCHANGED <<clipMode, lastChange>>
             /\ IF clipMode = "sync" THEN Remembers(text) /\ handling' = "counting"
                ELSE UNCHANGED <<lastText, lastImage, handling>>
    <3>1. CASE clipMode = "sync"
      <4>1. skipped' \in BOOLEAN
        BY <1>0, <2>1 DEF ClipType
      <4> HIDE DEF text
      <4> QED BY <1>3, <2>1, <2>2, <2>3, <3>1, <4>1
    <3>2. CASE clipMode # "sync"
      BY <1>2, <2>1, <2>2, <2>3, <3>2
    <3> QED BY <3>1, <3>2
  <2>4. CASE /\ PasteboardChanges(text, "paste") \/ (PasteboardKept /\ pushed' \in {pushed, <<>>})
             /\ UNCHANGED <<clipState, handling>> /\ clipMode' = IF clipMode = "sync" THEN "sync" ELSE "detached"
    <3>1. UNCHANGED <<lastText, lastImage, lastChange>> /\ (clipMode' = "sync" => clipMode = "sync")
      BY <2>4 DEF clipState
    <3>2. CASE PasteboardChanges(text, "paste")
      BY <1>2, <2>1, <2>2, <3>1, <3>2
    <3>3. CASE PasteboardKept /\ pushed' \in {pushed, <<>>}
      <4>1. UNCHANGED <<deviceClip, changeCount>> /\ hostClip' \in Contents \cup {Nothing}
        BY <1>0, <2>1, <3>3 DEF PasteboardKept, ClipType
      <4> QED BY <1>1, <2>1, <2>2, <2>4, <3>1, <3>3, <4>1
    <3> QED BY <2>4, <3>2, <3>3
  <2> QED BY <1>17, <2>3, <2>4 DEF ExecutesCommand
<1>18. CASE Reattaches
  <2>1. /\ UNCHANGED <<hostClip, deviceClip, changeCount, lastText, lastImage, lastChange, pushed, handling, skipped>>
        /\ pasteOrders # <<>> /\ pasteOrders' \in {pasteOrders, Tail(pasteOrders)}
        /\ clipMode = "detached" /\ clipMode' \in {"commands", "detached"}
    BY <1>18 DEF Reattaches, clipState
  <2>2. pasteOrders' \in Seq([text : Texts, awaited : BOOLEAN])
    BY <1>4, <2>1, TakeFacts
  <2> QED BY <1>0, <1>1, <2>1, <2>2 DEF ClipType
<1>19. CASE SendsChord
  <2>1. UNCHANGED <<hostClip, deviceClip, changeCount, clipMode, lastText, lastImage, lastChange, pushed, handling, pasteOrders, skipped>>
    BY <1>19 DEF SendsChord, clipState
  <2> QED BY <1>0, <1>1, <1>4, <2>1 DEF ClipType
<1> QED BY <1>5, <1>6, <1>7, <1>8, <1>9, <1>10, <1>11, <1>12, <1>13, <1>14, <1>15, <1>16, <1>17,
           <1>18, <1>19 DEF ClipboardNext

LEMMA ClipboardInvHolds == ClipboardSpec => []ClipboardInv
<1>1. ClipboardInit => ClipboardInv
  <2> SUFFICES ASSUME ClipboardInit PROVE ClipboardInv
    OBVIOUS
  <2>1. <<>> \in Seq([text : Texts, awaited : BOOLEAN])
    BY ShortSequences
  <2>2. ClipType
    <3>1. pasteOrders \in Seq([text : Texts, awaited : BOOLEAN])
      BY <2>1 DEF ClipboardInit
    <3>2. {hostClip, deviceClip} \subseteq Contents \cup {Nothing} /\ skipped \in BOOLEAN
      BY DEF ClipboardInit
    <3>3. changeCount \in Nat /\ lastChange \in Nat /\ lastChange <= changeCount
      BY DEF ClipboardInit
    <3> QED BY <3>1, <3>2, <3>3 DEF ClipboardInit, ClipType
  <2> QED BY <2>2 DEF ClipboardInit, ClipboardInv, OneRemembered, PushesTrue, Wrote, Remembered
<1>2. ClipboardInv /\ UNCHANGED clipVars => ClipboardInv'
  BY DEF ClipboardInv, ClipType, OneRemembered, PushesTrue, Wrote, Remembered, clipVars, clipState, pasteVars
<1> QED BY <1>1, <1>2, ClipboardStep, PTL DEF ClipboardSpec

\* When the task has nothing left to do both sides hold the same, unless it
\* skipped a change for a reason.
THEOREM ClipboardsAgree == ClipboardSpec => []ClipboardAgrees
<1>1. ClipboardInv => ClipboardAgrees
  BY ClipboardAssumption DEF ClipboardInv, ClipType, OneRemembered, Remembered, ClipboardAgrees, Known, Contents
<1> QED BY <1>1, ClipboardInvHolds, PTL-----------------------------------------------------------------------------
(***************************************************************************)
(* McpInput.  A call presses only while it holds the gesture lock, and only *)
(* what it counts as pressed, on the device that is selected unless the    *)
(* selection changed under it; the same holds of the game session and its  *)
(* own device.  A device without a session has nothing pressed, so a send  *)
(* that fails leaves nothing behind.                                       *)
(***************************************************************************)
Who == Tools \cup {"game"}
Kinds == Gestures \cup {"none", "keymap", "start", "set", "stop"}
Pressing == {"moving", "lifting", "releasing"}
Returned == {"done", "failed"}
ToolStages == Pressing \cup Returned \cup {"idle", "locking", "pressing", "spawning", "asked"}
ToolRecords == [kind : Kinds, at : ToolStages, did : SUBSET Controls, script : InputDevices \cup {NoTool},
                game : Nat, strayed : BOOLEAN]
GameStages == {"none", "locking", "top", "select", "ending"}
GameRecords == [at : GameStages, id : Nat, on : InputDevices \cup {NoTool}, due : BOOLEAN, button : BOOLEAN,
                pressed : SUBSET Controls, queue : Seq(Tools), stopper : Tools \cup {NoTool}]

McpType ==
    /\ selected \in InputDevices /\ ready \in [InputDevices -> BOOLEAN]
    /\ down \in [InputDevices -> SUBSET (Controls \X Who)]
    /\ tool \in [Tools -> ToolRecords] /\ started \in Nat /\ game \in GameRecords
    /\ game.at \in {"locking", "top", "select"} => game.on \in InputDevices
    /\ active # NoGame => active.id \in Nat

\* The controls that w holds down on d, and those a call counts as pressed.
Presses(w, d) == {c \in Controls : <<c, w>> \in down[d]}
Counts(t) == IF tool[t].kind = "keymap" THEN tool[t].did ELSE {"touch"}

Hands(t) ==
    /\ tool[t].at \in Pressing /\ ~tool[t].strayed =>
          /\ tool[t].kind = "keymap" => tool[t].script = selected
          /\ \A d \in InputDevices : Presses(t, d) \subseteq IF d = selected THEN Counts(t) ELSE {}
    /\ tool[t].at \in Returned /\ ~tool[t].strayed => \A d \in InputDevices : Presses(t, d) = {}
    /\ tool[t].at \notin Pressing \cup Returned => \A d \in InputDevices : Presses(t, d) = {}

GameHands ==
    \A d \in InputDevices :
        Presses("game", d) \subseteq IF game.at \in {"top", "select"} /\ d = game.on THEN game.pressed ELSE {}

Unready == \A d \in InputDevices : ~ready[d] => down[d] = {}

Locked ==
    /\ \A t \in Tools : tool[t].at \in Pressing \cup {"pressing"} => gesture = t
    /\ game.at \in {"top", "select", "ending"} => gesture = "game"

OneGame ==
    /\ game.at # "none" => active # NoGame /\ active.id = game.id
    /\ \A t \in Tools : tool[t].at = "spawning" =>
          /\ active # NoGame /\ game.at = "none"
          /\ \A u \in Tools : tool[u].at = "spawning" => u = t

KindOfStage(rec) ==
    /\ rec.at \in {"pressing", "moving"} => rec.kind \in Gestures \cup {"keymap"}
    /\ rec.at = "lifting" => rec.kind \in Gestures
    /\ rec.at = "releasing" => rec.kind = "keymap"

McpInv ==
    /\ McpType /\ GameHands /\ Unready /\ Locked /\ OneGame
    /\ \A t \in Tools : Hands(t) /\ KindOfStage(tool[t])

LEMMA UpFacts ==
    ASSUME McpType, NEW d \in InputDevices, NEW cs
    PROVE  /\ Up(d, cs) \in SUBSET (Controls \X Who)
           /\ \A c, w : <<c, w>> \in Up(d, cs) <=> <<c, w>> \in down[d] /\ c \notin cs
BY DEF Up, McpType

LEMMA DownFacts ==
    ASSUME McpType, NEW d \in InputDevices, NEW cs \in SUBSET Controls, NEW who \in Who
    PROVE  /\ Down(d, cs, who) \in SUBSET (Controls \X Who)
           /\ \A c, w : <<c, w>> \in Down(d, cs, who) <=>
                  \/ <<c, w>> \in down[d] /\ c \notin cs
                  \/ c \in cs /\ w = who
<1>1. cs \X {who} \subseteq Controls \X Who
  OBVIOUS
<1>2. \A c, w : <<c, w>> \in cs \X {who} <=> c \in cs /\ w = who
  OBVIOUS
<1> QED BY <1>1, <1>2, UpFacts DEF Down

\* What a send does: those of a device without a session do nothing.
LEMMA SendUpFacts ==
    ASSUME McpType, Unready, NEW d \in InputDevices, NEW cs \in SUBSET Controls, SendUp(d, cs), ready' = ready
    PROVE  /\ down' \in [InputDevices -> SUBSET (Controls \X Who)] /\ Unready'
           /\ \A w : \A e \in InputDevices :
                  Presses(w, e)' = IF e = d THEN Presses(w, d) \ cs ELSE Presses(w, e)
<1>1. Up(d, cs) \in SUBSET (Controls \X Who)
      /\ \A c, w : <<c, w>> \in Up(d, cs) <=> <<c, w>> \in down[d] /\ c \notin cs
  BY UpFacts
<1>2. down' \in [InputDevices -> SUBSET (Controls \X Who)]
      /\ \A e \in InputDevices : down'[e] = IF e = d /\ ready[d] THEN Up(d, cs) ELSE down[e]
  BY <1>1 DEF SendUp, McpType
<1>3. Unready'
  BY <1>2 DEF Unready
<1>4. ASSUME NEW w, NEW e \in InputDevices
      PROVE  Presses(w, e)' = IF e = d THEN Presses(w, d) \ cs ELSE Presses(w, e)
  <2>1. CASE e = d /\ ready[d]
    BY <1>1, <1>2, <2>1 DEF Presses
  <2>2. CASE e = d /\ ~ready[d]
    <3>1. down[d] = {} /\ down'[d] = {}
      BY <1>2, <2>2 DEF Unready
    <3> QED BY <2>2, <3>1 DEF Presses
  <2>3. CASE e # d
    BY <1>2, <2>3 DEF Presses
  <2> QED BY <2>1, <2>2, <2>3
<1> QED BY <1>2, <1>3, <1>4

LEMMA SendDownFacts ==
    ASSUME McpType, Unready, NEW d \in InputDevices, NEW cs \in SUBSET Controls, NEW who \in Who,
           SendDown(d, cs, who), ready' = ready
    PROVE  /\ down' \in [InputDevices -> SUBSET (Controls \X Who)] /\ Unready'
           /\ \A w : \A e \in InputDevices :
                  Presses(w, e)' \subseteq Presses(w, e) \cup (IF e = d /\ w = who /\ ready[d] THEN cs ELSE {})
<1>1. Down(d, cs, who) \in SUBSET (Controls \X Who)
      /\ \A c, w : <<c, w>> \in Down(d, cs, who) <=>
                  \/ <<c, w>> \in down[d] /\ c \notin cs
                  \/ c \in cs /\ w = who
  BY DownFacts
<1>2. down' \in [InputDevices -> SUBSET (Controls \X Who)]
      /\ \A e \in InputDevices : down'[e] = IF e = d /\ ready[d] THEN Down(d, cs, who) ELSE down[e]
  BY <1>1 DEF SendDown, McpType
<1>3. Unready'
  BY <1>2 DEF Unready
<1>4. ASSUME NEW w, NEW e \in InputDevices
      PROVE  Presses(w, e)' \subseteq Presses(w, e) \cup (IF e = d /\ w = who /\ ready[d] THEN cs ELSE {})
  <2>1. CASE e = d /\ ready[d]
    BY <1>1, <1>2, <2>1 DEF Presses
  <2>2. CASE ~(e = d /\ ready[d])
    BY <1>2, <2>2 DEF Presses
  <2> QED BY <2>1, <2>2
<1> QED BY <1>2, <1>3, <1>4

LEMMA HandsKept ==
    ASSUME NEW t \in Tools, Hands(t), tool'[t] = tool[t], selected' = selected,
           \A d \in InputDevices : Presses(t, d)' \subseteq Presses(t, d)
    PROVE  Hands(t)'
BY DEF Hands, Counts

\* A step of one call.
LEMMA ToolStep ==
    ASSUME McpInv, NEW t \in Tools, NEW rec \in ToolRecords, tool' = [tool EXCEPT ![t] = rec],
           KindOfStage(rec), Hands(t)',
           UNCHANGED <<selected, ready, active, started, game>>,
           down' \in [InputDevices -> SUBSET (Controls \X Who)], Unready',
           \A w \in Who \ {t} : \A d \in InputDevices : Presses(w, d)' \subseteq Presses(w, d),
           \/ gesture' = gesture
           \/ gesture = NoTool /\ gesture' = t
           \/ gesture = t /\ gesture' = NoTool,
           rec.at \in Pressing \cup {"pressing"} => gesture' = t,
           rec.at # "spawning"
    PROVE  McpInv'
<1>0. McpType /\ GameHands /\ Unready /\ Locked /\ OneGame /\ NoTool \notin Who /\ "game" \in Who \ {t}
  BY McpAssumption DEF McpInv, Who
<1>1. tool' \in [Tools -> ToolRecords] /\ \A u \in Tools : tool'[u] = IF u = t THEN rec ELSE tool[u]
  BY <1>0 DEF McpType
<1>2. McpType'
  BY <1>0, <1>1 DEF McpType
<1>3. GameHands'
  BY <1>0 DEF GameHands
<1>4. Locked'
  BY <1>0, <1>1 DEF Locked, Who
<1>5. OneGame'
  BY <1>0, <1>1 DEF OneGame
<1>6. ASSUME NEW u \in Tools PROVE Hands(u)' /\ KindOfStage(tool'[u])
  <2>1. CASE u = t
    BY <1>1, <2>1
  <2>2. CASE u # t
    <3>1. Hands(u) /\ KindOfStage(tool[u]) /\ u \in Who \ {t}
      BY <2>2 DEF McpInv, Who
    <3>2. tool'[u] = tool[u]
      BY <1>1, <2>2
    <3>3. Hands(u)'
      BY <3>1, <3>2, HandsKept
    <3> QED BY <3>1, <3>2, <3>3
  <2> QED BY <2>1, <2>2
<1> QED BY <1>2, <1>3, <1>4, <1>5, <1>6 DEF McpInv

\* A step of the game session, which may answer calls that wait for it.
LEMMA GameStep ==
    ASSUME McpInv, NEW g \in GameRecords, game' = g,
           g.at \in {"locking", "top", "select"} => g.on \in InputDevices,
           NEW done \in [Tools -> Returned], NEW waits \in SUBSET Tools,
           \A t \in waits : tool[t].at = "asked",
           tool' = [t \in Tools |-> IF t \in waits THEN [tool[t] EXCEPT !.at = done[t]] ELSE tool[t]],
           UNCHANGED <<selected, ready, started>>,
           down' \in [InputDevices -> SUBSET (Controls \X Who)], Unready', GameHands',
           \A t \in Tools : \A d \in InputDevices : Presses(t, d)' \subseteq Presses(t, d),
           \/ gesture' = gesture
           \/ gesture = NoTool /\ gesture' = "game"
           \/ gesture = "game" /\ gesture' = NoTool,
           g.at \in {"top", "select", "ending"} => gesture' = "game",
           game.at # "none",
           \/ active' = active /\ g.at # "none" /\ g.id = game.id
           \/ active' \in {active, NoGame} /\ g.at = "none"
    PROVE  McpInv'
<1>0. McpType /\ Unready /\ Locked /\ OneGame /\ NoTool \notin Who /\ "game" \notin Tools
  BY McpAssumption DEF McpInv, Who
<1>1. \A t \in Tools : tool[t] \in ToolRecords /\ Hands(t) /\ KindOfStage(tool[t])
  BY <1>0 DEF McpInv, McpType
<1>2. ASSUME NEW t \in Tools
      PROVE  /\ tool'[t] \in ToolRecords
             /\ \/ tool'[t] = tool[t]
                \/ /\ t \in waits /\ tool'[t].at \in Returned /\ tool[t].at = "asked"
  BY <1>1 DEF ToolRecords, ToolStages, Returned
<1>3. tool' \in [Tools -> ToolRecords]
  BY <1>2
<1>4. McpType'
  BY <1>0, <1>3 DEF McpType
<1>5. Locked'
  BY <1>0, <1>2 DEF Locked, Who, Pressing, Returned
<1>6. \A t \in Tools : tool'[t].at # "spawning"
  BY <1>0, <1>2 DEF OneGame, Returned
<1>7. OneGame'
  BY <1>0, <1>6 DEF OneGame
<1>8. ASSUME NEW t \in Tools PROVE Hands(t)' /\ KindOfStage(tool'[t])
  <2>1. CASE tool'[t] = tool[t]
    BY <1>1, <2>1, HandsKept
  <2>2. CASE tool'[t].at \in Returned /\ tool[t].at = "asked"
    <3>1. \A d \in InputDevices : Presses(t, d)' = {}
      BY <1>1, <2>2 DEF Hands, Pressing, Returned
    <3> QED BY <2>2, <3>1 DEF Hands, KindOfStage, Pressing, Returned
  <2> QED BY <1>2, <2>1, <2>2
<1> QED BY <1>4, <1>5, <1>7, <1>8 DEF McpInv
\* A call moves on or returns; what it holds is given up with its last send.
LEMMA MoveFacts ==
    ASSUME McpInv, NEW t \in Tools, NEW at \in ToolStages, Goes(t, at)
    PROVE  /\ tool' = [tool EXCEPT ![t] = [tool[t] EXCEPT !.at = at]]
           /\ [tool[t] EXCEPT !.at = at] \in ToolRecords /\ tool'[t].at = at
           /\ tool'[t].kind = tool[t].kind /\ tool'[t].did = tool[t].did
           /\ tool'[t].script = tool[t].script /\ tool'[t].strayed = tool[t].strayed
<1>1. tool[t] \in ToolRecords /\ tool \in [Tools -> ToolRecords]
  BY DEF McpInv, McpType
<1>2. [tool[t] EXCEPT !.at = at] \in ToolRecords
  BY <1>1 DEF ToolRecords
<1>3. tool' = [tool EXCEPT ![t] = [tool[t] EXCEPT !.at = at]]
  BY <1>1 DEF Goes
<1> QED BY <1>1, <1>2, <1>3 DEF ToolRecords

LEMMA GestureStep ==
    ASSUME McpInv, NEW t \in Tools, NEW kind \in Gestures, Gesture(t, kind) PROVE McpInv'
<1>0. /\ McpType /\ Unready /\ Locked /\ Hands(t) /\ selected \in InputDevices /\ t \in Who
      /\ {"touch"} \in SUBSET Controls
  BY DEF McpInv, McpType, Who, Controls
<1>1. UNCHANGED <<selected, ready, active, started, game>>
  BY DEF Gesture
<1>2. tool[t].kind = kind /\ kind # "keymap" /\ tool[t].at \in {"pressing", "moving", "lifting"} /\ gesture = t
  <2>1. tool[t].kind = kind /\ tool[t].at \in {"pressing", "moving", "lifting"}
    BY DEF Gesture, At
  <2> QED BY <1>0, <2>1 DEF Gestures, Locked, Pressing
<1>3. ASSUME ready[selected], SendDown(selected, {"touch"}, t), NEW at \in {"moving", "lifting"}, Goes(t, at),
             gesture' = gesture
      PROVE  McpInv'
  <2> DEFINE rec == [tool[t] EXCEPT !.at = at]
  <2>1. at \in ToolStages
    BY DEF ToolStages, Pressing
  <2>2. /\ tool' = [tool EXCEPT ![t] = rec] /\ rec \in ToolRecords /\ tool'[t].at = at
        /\ tool'[t].kind = kind /\ tool'[t].strayed = tool[t].strayed
    BY <1>2, <1>3, <2>1, MoveFacts
  <2>3. /\ down' \in [InputDevices -> SUBSET (Controls \X Who)] /\ Unready'
        /\ \A w : \A e \in InputDevices :
               Presses(w, e)' \subseteq Presses(w, e) \cup (IF e = selected /\ w = t /\ ready[selected] THEN {"touch"} ELSE {})
    BY <1>0, <1>1, <1>3, SendDownFacts
  <2>4. tool'[t] = rec
    BY <1>0, <2>2 DEF McpType
  <2>5. KindOfStage(rec)
    BY <1>2, <1>3, <2>2, <2>4 DEF KindOfStage
  <2>6. \A d \in InputDevices : Presses(t, d) \subseteq IF tool[t].strayed THEN Controls ELSE IF d = selected THEN {"touch"} ELSE {}
    BY <1>0, <1>2 DEF Hands, Counts, Pressing, Returned, Presses
  <2>7. Hands(t)'
    BY <1>1, <1>2, <1>3, <2>2, <2>3, <2>6 DEF Hands, Counts, Pressing, Returned
  <2>8. \A w \in Who \ {t} : \A d \in InputDevices : Presses(w, d)' \subseteq Presses(w, d)
    BY <2>3
  <2> HIDE DEF rec
  <2>9. rec.at = at
    BY <2>2, <2>4
  <2> QED BY <1>1, <1>2, <1>3, <2>2, <2>3, <2>5, <2>7, <2>8, <2>9, ToolStep
<1>4. ASSUME NEW at \in Returned, Returns(t, at), down' \in [InputDevices -> SUBSET (Controls \X Who)], Unready',
             \A w : \A d \in InputDevices : Presses(w, d)' \subseteq Presses(w, d),
             ~tool[t].strayed => \A d \in InputDevices : Presses(t, d)' = {}
      PROVE  McpInv'
  <2> DEFINE rec == [tool[t] EXCEPT !.at = at]
  <2>1. at \in ToolStages
    BY DEF ToolStages
  <2>2. /\ tool' = [tool EXCEPT ![t] = rec] /\ rec \in ToolRecords /\ tool'[t].at = at
        /\ tool'[t].strayed = tool[t].strayed /\ gesture' = NoTool
    BY <1>4, <2>1, MoveFacts DEF Returns
  <2>3. tool'[t] = rec
    BY <1>0, <2>2 DEF McpType
  <2>4. KindOfStage(rec) /\ Hands(t)'
    BY <1>4, <2>2, <2>3 DEF KindOfStage, Hands, Pressing, Returned
  <2> HIDE DEF rec
  <2>5. rec.at \notin Pressing \cup {"pressing", "spawning"}
    BY <2>2, <2>3 DEF Pressing, Returned
  <2> QED BY <1>1, <1>2, <1>4, <2>2, <2>4, <2>5, ToolStep
<1>5. ASSUME SendUp(selected, {"touch"}), Returns(t, "done"), tool[t].at = "lifting" PROVE McpInv'
  <2>1. /\ down' \in [InputDevices -> SUBSET (Controls \X Who)] /\ Unready'
        /\ \A w : \A e \in InputDevices :
               Presses(w, e)' = IF e = selected THEN Presses(w, selected) \ {"touch"} ELSE Presses(w, e)
    BY <1>0, <1>1, <1>5, SendUpFacts
  <2>2. ~tool[t].strayed => \A d \in InputDevices : Presses(t, d) \subseteq IF d = selected THEN {"touch"} ELSE {}
    BY <1>0, <1>2, <1>5 DEF Hands, Counts, Pressing
  <2>3. ~tool[t].strayed => \A d \in InputDevices : Presses(t, d)' = {}
    BY <2>1, <2>2
  <2> QED BY <1>4, <1>5, <2>1, <2>3 DEF Returned
<1>6. ASSUME ~ready[selected], Returns(t, "failed"), down' = down PROVE McpInv'
  <2>1. \A w : \A d \in InputDevices : Presses(w, d)' = Presses(w, d)
    BY <1>6 DEF Presses
  <2>2. ~tool[t].strayed => \A d \in InputDevices : Presses(t, d) \subseteq IF d = selected THEN {"touch"} ELSE {}
    BY <1>0, <1>2 DEF Hands, Counts, Pressing, Returned
  <2>3. Presses(t, selected) = {}
    BY <1>0, <1>6 DEF Unready, Presses
  <2>4. ~tool[t].strayed => \A d \in InputDevices : Presses(t, d)' = {}
    BY <2>1, <2>2, <2>3
  <2>5. down' \in [InputDevices -> SUBSET (Controls \X Who)] /\ Unready'
    BY <1>0, <1>1, <1>6 DEF McpType, Unready
  <2> QED BY <1>4, <1>6, <2>1, <2>4, <2>5 DEF Returned
<1> QED BY <1>3, <1>5, <1>6 DEF Gesture, At
LEMMA KeymapButtonsStep ==
    ASSUME McpInv, NEW t \in Tools, KeymapButtons(t) PROVE McpInv'
<1>0. /\ McpType /\ Unready /\ Locked /\ Hands(t) /\ selected \in InputDevices /\ t \in Who
      /\ tool[t] \in ToolRecords
  BY DEF McpInv, McpType, Who
<1>1. UNCHANGED <<selected, ready, active, started, game, gesture>> /\ tool[t].at = "pressing" /\ tool[t].kind = "keymap"
  BY DEF KeymapButtons, At
<1>2. gesture = t
  BY <1>0, <1>1 DEF Locked
<1>3. PICK cs \in SUBSET {"button"} :
          /\ SendDown(selected, cs, t)
          /\ tool' = [tool EXCEPT
                ![t].did = IF ready[selected] THEN cs ELSE {},
                ![t].script = selected,
                ![t].at = IF ready[selected] \/ cs = {} THEN "moving" ELSE "releasing"]
  BY DEF KeymapButtons
<1> DEFINE at == IF ready[selected] \/ cs = {} THEN "moving" ELSE "releasing"
           did == IF ready[selected] THEN cs ELSE {}
           rec == [tool[t] EXCEPT !.did = did, !.script = selected, !.at = at]
<1>4. tool' = [tool EXCEPT ![t] = rec]
  BY <1>0, <1>3 DEF McpType
<1>5. at \in ToolStages /\ at \in {"moving", "releasing"} /\ did \in SUBSET Controls /\ cs \in SUBSET Controls
  BY DEF ToolStages, Pressing, Controls
<1> HIDE DEF at
<1>6. /\ rec \in ToolRecords /\ rec.at = at /\ rec.did = did /\ rec.script = selected
      /\ rec.kind = "keymap"
  BY <1>0, <1>1, <1>5 DEF ToolRecords
<1>7. /\ down' \in [InputDevices -> SUBSET (Controls \X Who)] /\ Unready'
      /\ \A w : \A e \in InputDevices :
             Presses(w, e)' \subseteq Presses(w, e) \cup (IF e = selected /\ w = t /\ ready[selected] THEN cs ELSE {})
  BY <1>0, <1>1, <1>3, <1>5, SendDownFacts
<1>8. tool'[t] = rec
  BY <1>0, <1>4 DEF McpType
<1>9. \A e \in InputDevices : Presses(t, e)' \subseteq IF e = selected THEN did ELSE {}
  BY <1>0, <1>1, <1>7 DEF Hands, Pressing, Returned
<1> HIDE DEF rec, did
<1>10. Hands(t)' /\ KindOfStage(rec)
  BY <1>1, <1>5, <1>6, <1>8, <1>9 DEF Hands, Counts, KindOfStage, Pressing, Returned
<1>11. \A w \in Who \ {t} : \A d \in InputDevices : Presses(w, d)' \subseteq Presses(w, d)
  BY <1>7
<1> QED BY <1>1, <1>2, <1>4, <1>5, <1>6, <1>7, <1>10, <1>11, ToolStep

\* What the frames of a key map send.
LEMMA FrameFacts ==
    ASSUME McpType, Unready, NEW t \in Tools, NEW frame \in SUBSET Controls,
           down' = TouchSent(t, frame, ScriptSent(t, frame)), ready' = ready
    PROVE  /\ down' \in [InputDevices -> SUBSET (Controls \X Who)] /\ Unready'
           /\ \A w \in Who \ {t} : \A d \in InputDevices : Presses(w, d)' \subseteq Presses(w, d)
           /\ \A d \in InputDevices : d # selected /\ d # tool[t].script => Presses(t, d)' = Presses(t, d)
           /\ \A d \in InputDevices : d = selected /\ d = tool[t].script /\ ready[d] =>
                  Presses(t, d)' \subseteq (Presses(t, d) \ (tool[t].did \cap {"key", "touch"})) \cup (frame \cap {"key", "touch"})
<1> DEFINE s == ScriptSent(t, frame)
<1>0. "key" \in Controls /\ "touch" \in Controls /\ t \in Who /\ {"key"} \in SUBSET Controls
  BY DEF Controls, Who
<1>1. ASSUME NEW d \in InputDevices
      PROVE  s[d] = IF d # tool[t].script \/ ~ready[d] THEN down[d]
                    ELSE IF "key" \in frame \ tool[t].did THEN Down(d, {"key"}, t)
                    ELSE IF "key" \in tool[t].did \ frame THEN Up(d, {"key"}) ELSE down[d]
  BY DEF ScriptSent
<1>2. ASSUME NEW d \in InputDevices
      PROVE  down'[d] = IF d # selected \/ ~ready[d] THEN s[d]
                        ELSE IF "touch" \in frame THEN {x \in s[d] : x[1] # "touch"} \cup {<<"touch", t>>}
                        ELSE IF "touch" \in tool[t].did THEN {x \in s[d] : x[1] # "touch"} ELSE s[d]
  BY DEF TouchSent
<1>3. \A d \in InputDevices : /\ Up(d, {"key"}) \in SUBSET (Controls \X Who)
                              /\ \A c, w : <<c, w>> \in Up(d, {"key"}) <=> <<c, w>> \in down[d] /\ c # "key"
  BY UpFacts
<1>4. ASSUME NEW d \in InputDevices
      PROVE  /\ Down(d, {"key"}, t) \in SUBSET (Controls \X Who)
             /\ \A c, w : <<c, w>> \in Down(d, {"key"}, t) <=>
                    (<<c, w>> \in down[d] /\ c # "key") \/ (c = "key" /\ w = t)
  <2>0. PICK cs \in SUBSET Controls : cs = {"key"}
    BY <1>0
  <2>1. /\ Down(d, cs, t) \in SUBSET (Controls \X Who)
        /\ \A c, w : <<c, w>> \in Down(d, cs, t) <=>
               \/ <<c, w>> \in down[d] /\ c \notin cs
               \/ c \in cs /\ w = t
    BY <1>0, <2>0, DownFacts
  <2> QED BY <2>0, <2>1
<1> HIDE DEF s
<1>5. ASSUME NEW d \in InputDevices
      PROVE  /\ s[d] \in SUBSET (Controls \X Who)
             /\ ~ready[d] => s[d] = down[d]
             /\ d # tool[t].script => s[d] = down[d]
             /\ \A c, w : w # t /\ <<c, w>> \in s[d] => <<c, w>> \in down[d]
             /\ d = tool[t].script /\ ready[d] =>
                   \A c : <<c, t>> \in s[d] =>
                       \/ <<c, t>> \in down[d] /\ (c = "key" => "key" \notin tool[t].did)
                       \/ c = "key" /\ "key" \in frame
  <2>1. down[d] \in SUBSET (Controls \X Who)
    BY DEF McpType
  <2>2. CASE s[d] = down[d] /\ ~(d = tool[t].script /\ ready[d])
    BY <2>1, <2>2
  <2>3. CASE s[d] = down[d] /\ d = tool[t].script /\ ready[d] /\ ~("key" \in tool[t].did \ frame)
    BY <2>1, <2>3
  <2>4. CASE s[d] = Down(d, {"key"}, t) /\ d = tool[t].script /\ ready[d] /\ "key" \in frame
    BY <1>4, <2>4
  <2>5. CASE s[d] = Up(d, {"key"}) /\ d = tool[t].script /\ ready[d]
    BY <1>3, <2>5
  <2> QED BY <1>1, <2>2, <2>3, <2>4, <2>5
<1>6. ASSUME NEW d \in InputDevices
      PROVE  /\ down'[d] \in SUBSET (Controls \X Who)
             /\ ~ready[d] => down'[d] = down[d]
             /\ d # selected => down'[d] = s[d]
             /\ \A c, w : w # t /\ <<c, w>> \in down'[d] => <<c, w>> \in s[d]
             /\ d = selected /\ ready[d] =>
                   \A c : <<c, t>> \in down'[d] =>
                       \/ <<c, t>> \in s[d] /\ (c = "touch" => "touch" \notin tool[t].did)
                       \/ c = "touch" /\ "touch" \in frame
  <2>1. s[d] \in SUBSET (Controls \X Who) /\ (~ready[d] => s[d] = down[d])
    BY <1>5
  <2>2. CASE down'[d] = s[d] /\ ~(d = selected /\ ready[d])
    BY <2>1, <2>2
  <2>3. CASE down'[d] = s[d] /\ d = selected /\ ready[d] /\ "touch" \notin tool[t].did
    BY <2>1, <2>3
  <2>4. CASE down'[d] = {x \in s[d] : x[1] # "touch"} /\ d = selected /\ ready[d]
    BY <2>1, <2>4
  <2>5. CASE down'[d] = {x \in s[d] : x[1] # "touch"} \cup {<<"touch", t>>} /\ d = selected /\ ready[d] /\ "touch" \in frame
    <3>1. <<"touch", t>> \in Controls \X Who
      BY <1>0
    <3> QED BY <2>1, <2>5, <3>1
  <2> QED BY <1>2, <2>2, <2>3, <2>4, <2>5
<1>7. down' \in [InputDevices -> SUBSET (Controls \X Who)]
  <2>1. DOMAIN down' = InputDevices /\ down' = [d \in InputDevices |-> down'[d]]
    BY DEF TouchSent
  <2> QED BY <1>6, <2>1
<1>8. Unready'
  BY <1>6 DEF Unready
<1>9. \A w \in Who \ {t} : \A d \in InputDevices : Presses(w, d)' \subseteq Presses(w, d)
  BY <1>5, <1>6 DEF Presses
<1>10. \A d \in InputDevices : d # selected /\ d # tool[t].script => Presses(t, d)' = Presses(t, d)
  BY <1>5, <1>6 DEF Presses
<1>11. ASSUME NEW d \in InputDevices, d = selected, d = tool[t].script, ready[d], NEW c \in Presses(t, d)'
       PROVE  c \in (Presses(t, d) \ (tool[t].did \cap {"key", "touch"})) \cup (frame \cap {"key", "touch"})
  <2>1. c \in Controls /\ <<c, t>> \in down'[d]
    BY <1>11 DEF Presses
  <2>2. \/ <<c, t>> \in s[d] /\ (c = "touch" => "touch" \notin tool[t].did)
        \/ c = "touch" /\ "touch" \in frame
    BY <1>6, <1>11, <2>1
  <2>3. CASE <<c, t>> \in s[d] /\ (c = "touch" => "touch" \notin tool[t].did)
    <3>1. \/ <<c, t>> \in down[d] /\ (c = "key" => "key" \notin tool[t].did)
          \/ c = "key" /\ "key" \in frame
      BY <1>5, <1>11, <2>1, <2>3
    <3> QED BY <2>1, <2>3, <3>1 DEF Presses
  <2> QED BY <2>2, <2>3
<1> QED BY <1>7, <1>8, <1>9, <1>10, <1>11

LEMMA KeymapFrameStep ==
    ASSUME McpInv, NEW t \in Tools, KeymapFrame(t) PROVE McpInv'
<1>0. /\ McpType /\ Unready /\ Locked /\ Hands(t) /\ selected \in InputDevices /\ t \in Who
      /\ tool[t] \in ToolRecords
  BY DEF McpInv, McpType, Who
<1>1. UNCHANGED <<selected, ready, active, started, game, gesture>> /\ tool[t].at = "moving" /\ tool[t].kind = "keymap"
  BY DEF KeymapFrame, At
<1>2. gesture = t
  BY <1>0, <1>1 DEF Locked, Pressing
<1>3. ~tool[t].strayed => /\ tool[t].script = selected
                          /\ \A d \in InputDevices : Presses(t, d) \subseteq IF d = selected THEN tool[t].did ELSE {}
  BY <1>0, <1>1 DEF Hands, Counts, Pressing
<1>4. ASSUME NEW at \in {"moving", "releasing"}, NEW did \in SUBSET Controls,
             tool' = [tool EXCEPT ![t] = [tool[t] EXCEPT !.did = did, !.at = at]],
             down' \in [InputDevices -> SUBSET (Controls \X Who)], Unready',
             \A w \in Who \ {t} : \A d \in InputDevices : Presses(w, d)' \subseteq Presses(w, d),
             ~tool[t].strayed => \A d \in InputDevices : Presses(t, d)' \subseteq IF d = selected THEN did ELSE {}
      PROVE  McpInv'
  <2> DEFINE rec == [tool[t] EXCEPT !.did = did, !.at = at]
  <2>1. at \in ToolStages
    BY DEF ToolStages, Pressing
  <2>2. /\ rec \in ToolRecords /\ rec.at = at /\ rec.did = did /\ rec.kind = "keymap"
        /\ rec.script = tool[t].script /\ rec.strayed = tool[t].strayed
    BY <1>0, <1>1, <2>1 DEF ToolRecords
  <2>3. tool' = [tool EXCEPT ![t] = rec] /\ tool'[t] = rec
    BY <1>0, <1>4 DEF McpType
  <2> HIDE DEF rec
  <2>4. KindOfStage(rec) /\ Hands(t)'
    BY <1>1, <1>3, <1>4, <2>2, <2>3 DEF KindOfStage, Hands, Counts, Pressing, Returned
  <2> QED BY <1>1, <1>2, <1>4, <2>2, <2>3, <2>4, ToolStep
<1>5. ASSUME NEW touchKey \in SUBSET {"touch", "key"}, NEW ends \in BOOLEAN,
             NEW frame, frame = touchKey \cup (tool[t].did \cap {"button"}),
             NEW scriptFails, scriptFails = (~ready[tool[t].script] /\ ("key" \in frame) # ("key" \in tool[t].did)),
             NEW touchFails, touchFails = (~ready[selected] /\ "touch" \in frame \cup tool[t].did),
             down' = IF scriptFails THEN down ELSE TouchSent(t, frame, ScriptSent(t, frame)),
             tool' = [tool EXCEPT
                      ![t].did = IF scriptFails \/ touchFails
                                 THEN (@ \ {"key"}) \cup (frame \cap {"key"}) ELSE frame,
                      ![t].at = IF scriptFails \/ touchFails \/ ends THEN "releasing" ELSE "moving"]
      PROVE  McpInv'
  <2> DEFINE did == IF scriptFails \/ touchFails
                    THEN (tool[t].did \ {"key"}) \cup (frame \cap {"key"}) ELSE frame
             at == IF scriptFails \/ touchFails \/ ends THEN "releasing" ELSE "moving"
  <2>1. frame \in SUBSET Controls /\ tool[t].did \in SUBSET Controls
    BY <1>0, <1>5 DEF Controls, ToolRecords
  <2>2. did \in SUBSET Controls /\ at \in {"moving", "releasing"}
    BY <2>1
  <2>3. tool' = [tool EXCEPT ![t] = [tool[t] EXCEPT !.did = did, !.at = at]]
    BY <1>0, <1>5 DEF McpType
  <2>4. \A d \in InputDevices : ~ready[d] => \A w : Presses(w, d) = {}
    BY <1>0 DEF Unready, Presses
  <2>5. CASE scriptFails
    <3>1. down' = down
      BY <1>5, <2>5
    <3>2. down' \in [InputDevices -> SUBSET (Controls \X Who)] /\ Unready'
          /\ \A w : \A d \in InputDevices : Presses(w, d)' = Presses(w, d)
      BY <1>0, <1>1, <3>1 DEF McpType, Unready, Presses
    <3>3. ~ready[tool[t].script]
      BY <1>5, <2>5
    <3>4. ~tool[t].strayed => \A d \in InputDevices : Presses(t, d)' = {}
      BY <1>3, <2>4, <3>2, <3>3
    <3> HIDE DEF did, at
    <3> QED BY <1>4, <2>2, <2>3, <3>2, <3>4
  <2>6. CASE ~scriptFails
    <3>1. down' = TouchSent(t, frame, ScriptSent(t, frame))
      BY <1>5, <2>6
    <3>2. /\ down' \in [InputDevices -> SUBSET (Controls \X Who)] /\ Unready'
          /\ \A w \in Who \ {t} : \A d \in InputDevices : Presses(w, d)' \subseteq Presses(w, d)
          /\ \A d \in InputDevices : d # selected /\ d # tool[t].script => Presses(t, d)' = Presses(t, d)
          /\ \A d \in InputDevices : d = selected /\ d = tool[t].script /\ ready[d] =>
                 Presses(t, d)' \subseteq (Presses(t, d) \ (tool[t].did \cap {"key", "touch"})) \cup (frame \cap {"key", "touch"})
      BY <1>0, <1>1, <2>1, <3>1, FrameFacts
    <3>3. ASSUME ~tool[t].strayed, ready[selected]
          PROVE  \A d \in InputDevices : Presses(t, d)' \subseteq IF d = selected THEN did ELSE {}
      <4>1. ~touchFails
        BY <1>5, <3>3
      <4>2. did = frame
        BY <2>6, <4>1
      <4>3. tool[t].did \ {"key", "touch"} \subseteq frame
        BY <1>5, <2>1 DEF Controls
      <4>4. ASSUME NEW d \in InputDevices, d = selected PROVE Presses(t, d)' \subseteq frame
        <5>1. Presses(t, d) \subseteq tool[t].did /\ d = tool[t].script /\ ready[d]
          BY <1>3, <3>3, <4>4
        <5> QED BY <3>2, <4>3, <4>4, <5>1
      <4>5. ASSUME NEW d \in InputDevices, d # selected PROVE Presses(t, d)' = {}
        <5>1. Presses(t, d) = {} /\ d # tool[t].script
          BY <1>3, <3>3, <4>5
        <5> QED BY <3>2, <4>5, <5>1
      <4> HIDE DEF did
      <4> QED BY <4>2, <4>4, <4>5
    <3>4. ASSUME ~tool[t].strayed, ~ready[selected]
          PROVE  \A d \in InputDevices : Presses(t, d)' = {}
      <4>1. ASSUME NEW d \in InputDevices, d = selected PROVE Presses(t, d)' = {}
        <5>1. down'[d] = {}
          BY <1>1, <3>2, <3>4, <4>1 DEF Unready
        <5> QED BY <5>1 DEF Presses
      <4>2. ASSUME NEW d \in InputDevices, d # selected PROVE Presses(t, d)' = {}
        <5>1. Presses(t, d) = {} /\ d # tool[t].script
          BY <1>3, <3>4, <4>2
        <5> QED BY <3>2, <4>2, <5>1
      <4> QED BY <4>1, <4>2
    <3>5. ready[selected] \in BOOLEAN
      BY <1>0 DEF McpType
    <3> HIDE DEF did, at
    <3>6. ~tool[t].strayed => \A d \in InputDevices : Presses(t, d)' \subseteq IF d = selected THEN did ELSE {}
      BY <3>3, <3>4, <3>5
    <3> QED BY <1>4, <2>2, <2>3, <3>2, <3>6
  <2> QED BY <2>5, <2>6
<1>6. ASSUME Goes(t, "releasing"), down' = down PROVE McpInv'
  <2>1. "releasing" \in ToolStages
    BY DEF ToolStages, Pressing
  <2>2. /\ tool' = [tool EXCEPT ![t] = [tool[t] EXCEPT !.at = "releasing"]]
        /\ [tool[t] EXCEPT !.at = "releasing"] = [tool[t] EXCEPT !.did = tool[t].did, !.at = "releasing"]
    BY <1>0, <1>6, <2>1, MoveFacts DEF ToolRecords
  <2>3. tool' = [tool EXCEPT ![t] = [tool[t] EXCEPT !.did = tool[t].did, !.at = "releasing"]]
    BY <2>2
  <2>4. tool[t].did \in SUBSET Controls
    BY <1>0 DEF ToolRecords
  <2>5. down' \in [InputDevices -> SUBSET (Controls \X Who)] /\ Unready'
        /\ \A w : \A d \in InputDevices : Presses(w, d)' = Presses(w, d)
    BY <1>0, <1>1, <1>6 DEF McpType, Unready, Presses
  <2>6. ~tool[t].strayed => \A d \in InputDevices : Presses(t, d)' \subseteq IF d = selected THEN tool[t].did ELSE {}
    BY <1>3, <2>5
  <2>7. \A w \in Who \ {t} : \A d \in InputDevices : Presses(w, d)' \subseteq Presses(w, d)
    BY <2>5
  <2> QED BY <1>4, <2>3, <2>4, <2>5, <2>6, <2>7
<1> QED BY <1>5, <1>6 DEF KeymapFrame

LEMMA KeymapReleasesStep ==
    ASSUME McpInv, NEW t \in Tools, KeymapReleases(t) PROVE McpInv'
<1>0. /\ McpType /\ Unready /\ Locked /\ Hands(t) /\ selected \in InputDevices /\ t \in Who
      /\ tool[t] \in ToolRecords
  BY DEF McpInv, McpType, Who
<1>1. UNCHANGED <<selected, ready, active, started, game>> /\ tool[t].at = "releasing" /\ tool[t].kind = "keymap"
  BY DEF KeymapReleases, At
<1>2. gesture = t
  BY <1>0, <1>1 DEF Locked, Pressing
<1>3. PICK at \in Returned : Returns(t, at)
  BY DEF KeymapReleases, Returned
<1>4. /\ down' \in [InputDevices -> SUBSET (Controls \X Who)]
      /\ \A d \in InputDevices : down'[d] =
            IF ~ready[d] THEN down[d]
            ELSE {x \in down[d] : ~ \/ d = selected /\ x[1] \in tool[t].did \ {"key"}
                                    \/ d = tool[t].script /\ x[1] \in tool[t].did \cap {"key"}}
  BY <1>0 DEF KeymapReleases, McpType
<1>5. \A d \in InputDevices : down'[d] \subseteq down[d]
  BY <1>4
<1>6. Unready' /\ \A w : \A d \in InputDevices : Presses(w, d)' \subseteq Presses(w, d)
  BY <1>0, <1>1, <1>5 DEF Unready, Presses
<1>7. ASSUME ~tool[t].strayed, NEW d \in InputDevices PROVE Presses(t, d)' = {}
  <2>1. tool[t].script = selected /\ Presses(t, d) \subseteq IF d = selected THEN tool[t].did ELSE {}
    BY <1>0, <1>1, <1>7 DEF Hands, Counts, Pressing
  <2>2. CASE d # selected
    BY <1>6, <2>1, <2>2
  <2>3. CASE ~ready[d]
    BY <1>0, <1>6, <2>3 DEF Unready, Presses
  <2>4. ASSUME d = selected, ready[d], NEW c \in Presses(t, d)' PROVE FALSE
    <3>1. <<c, t>> \in down'[d] /\ c \in tool[t].did
      BY <1>6, <2>1, <2>4 DEF Presses
    <3> QED BY <1>4, <2>1, <2>4, <3>1
  <2> QED BY <2>2, <2>3, <2>4
<1> DEFINE rec == [tool[t] EXCEPT !.at = at]
<1>8. at \in ToolStages
  BY DEF ToolStages
<1>9. /\ tool' = [tool EXCEPT ![t] = rec] /\ rec \in ToolRecords /\ tool'[t].at = at
      /\ tool'[t].strayed = tool[t].strayed /\ gesture' = NoTool
  BY <1>3, <1>8, MoveFacts DEF Returns
<1>10. tool'[t] = rec
  BY <1>0, <1>9 DEF McpType
<1>11. KindOfStage(rec) /\ Hands(t)'
  BY <1>7, <1>9, <1>10 DEF KindOfStage, Hands, Pressing, Returned
<1> HIDE DEF rec
<1>12. rec.at \notin Pressing \cup {"pressing", "spawning"}
  BY <1>9, <1>10 DEF Pressing, Returned
<1> QED BY <1>1, <1>2, <1>4, <1>6, <1>9, <1>11, <1>12, ToolStep
\* The game session forgets what it pressed when it sends its releases, and
\* those that fail had nothing to release.
LEMMA ReleaseFacts ==
    ASSUME McpInv, NEW g \in GameRecords, g.on = game.on, g.pressed = game.pressed, g.id = game.id,
           game.at \in {"top", "select"}, ReleaseGame(g), ready' = ready
    PROVE  /\ game' \in GameRecords /\ game'.at = "ending" /\ game'.id = game.id
           /\ down' \in [InputDevices -> SUBSET (Controls \X Who)] /\ Unready' /\ GameHands'
           /\ \A w : \A d \in InputDevices : Presses(w, d)' \subseteq Presses(w, d)
<1>0. McpType /\ Unready /\ GameHands /\ game.on \in InputDevices /\ game.pressed \in SUBSET Controls
  BY DEF McpInv, McpType, GameRecords
<1>1. game' = [g EXCEPT !.at = "ending", !.pressed = {}] /\ SendUp(game.on, game.pressed)
  BY DEF ReleaseGame
<1>2. "ending" \in GameStages
  BY DEF GameStages
<1>3. game' \in GameRecords /\ game'.at = "ending" /\ game'.id = game.id
  BY <1>1, <1>2 DEF GameRecords
<1>4. /\ down' \in [InputDevices -> SUBSET (Controls \X Who)] /\ Unready'
      /\ \A w : \A e \in InputDevices :
             Presses(w, e)' = IF e = game.on THEN Presses(w, game.on) \ game.pressed ELSE Presses(w, e)
  BY <1>0, <1>1, SendUpFacts
<1>5. \A w : \A d \in InputDevices : Presses(w, d)' \subseteq Presses(w, d)
  BY <1>4
<1>6. GameHands'
  <2>1. \A d \in InputDevices : Presses("game", d)' = {}
    BY <1>0, <1>4 DEF GameHands
  <2> QED BY <2>1 DEF GameHands
<1> QED BY <1>3, <1>4, <1>5, <1>6

\* A frame of the game session sends the differences to its last one.
LEMMA RenderFacts ==
    ASSUME McpInv, NEW g \in GameRecords, g.on = game.on, g.pressed = game.pressed, g.id = game.id,
           game.at \in {"top", "select"}, NEW frame \in SUBSET Controls, Renders(g, frame), RenderGame(g, frame),
           ready' = ready
    PROVE  /\ game' \in GameRecords /\ game'.at = "top" /\ game'.id = game.id /\ game'.on \in InputDevices
           /\ down' \in [InputDevices -> SUBSET (Controls \X Who)] /\ Unready' /\ GameHands'
           /\ \A t \in Tools : \A d \in InputDevices : Presses(t, d)' \subseteq Presses(t, d)
<1>0. McpType /\ Unready /\ GameHands /\ game.on \in InputDevices /\ "game" \in Who /\ "game" \notin Tools
  BY McpAssumption DEF McpInv, McpType, Who
<1> DEFINE p == game.pressed
           S == Up(game.on, p \ frame) \cup ((frame \ p) \X {"game"})
<1>1. /\ game' = [g EXCEPT !.at = "top", !.pressed = frame] /\ down' = [down EXCEPT ![game.on] = S]
      /\ ready[game.on] \/ frame = p
  BY DEF RenderGame, Renders
<1>2. "top" \in GameStages
  BY DEF GameStages
<1>3. /\ game' \in GameRecords /\ game'.at = "top" /\ game'.id = game.id /\ game'.on = game.on
      /\ game'.pressed = frame
  BY <1>1, <1>2 DEF GameRecords
<1>4. /\ S \in SUBSET (Controls \X Who)
      /\ \A c, w : <<c, w>> \in S <=>
            (<<c, w>> \in down[game.on] /\ c \notin p \ frame) \/ (c \in frame \ p /\ w = "game")
  <2>1. (frame \ p) \X {"game"} \subseteq Controls \X Who
    BY <1>0
  <2>0. \A c, w : <<c, w>> \in (frame \ p) \X {"game"} <=> c \in frame \ p /\ w = "game"
    OBVIOUS
  <2>2. PICK q : q = (frame \ p) \X {"game"}
    OBVIOUS
  <2>8. q \subseteq Controls \X Who /\ \A c, w : <<c, w>> \in q <=> c \in frame \ p /\ w = "game"
    BY <2>0, <2>1, <2>2
  <2>3. PICK k : k = p \ frame
    OBVIOUS
  <2>4. /\ Up(game.on, k) \in SUBSET (Controls \X Who)
        /\ \A c, w : <<c, w>> \in Up(game.on, k) <=> <<c, w>> \in down[game.on] /\ c \notin k
    BY <1>0, UpFacts
  <2>5. S = Up(game.on, k) \cup q
    BY <2>2, <2>3
  <2> HIDE DEF S, p
  <2>6. S \in SUBSET (Controls \X Who)
    BY <2>4, <2>5, <2>8
  <2>7. ASSUME NEW c, NEW w
        PROVE  <<c, w>> \in S <=>
            (<<c, w>> \in down[game.on] /\ c \notin p \ frame) \/ (c \in frame \ p /\ w = "game")
    <3>0. PICK x : x = <<c, w>>
      OBVIOUS
    <3>1. x \in S <=> x \in Up(game.on, k) \/ x \in q
      BY <2>5
    <3>2. x \in Up(game.on, k) <=> x \in down[game.on] /\ c \notin p \ frame
      BY <2>3, <2>4, <3>0
    <3>3. x \in q <=> c \in frame \ p /\ w = "game"
      BY <2>8, <3>0
    <3> QED BY <3>0, <3>1, <3>2, <3>3
  <2> QED BY <2>6, <2>7
<1>5. ~ready[game.on] => S = {}
  <2>1. SUFFICES ASSUME ~ready[game.on] PROVE S = {}
    OBVIOUS
  <2>2. down[game.on] = {} /\ frame = p
    BY <1>0, <1>1, <2>1 DEF Unready
  <2> QED BY <2>2 DEF Up
<1> HIDE DEF S
<1>6. down' \in [InputDevices -> SUBSET (Controls \X Who)]
      /\ \A d \in InputDevices : down'[d] = IF d = game.on THEN S ELSE down[d]
  BY <1>0, <1>1, <1>4 DEF McpType
<1>7. Unready'
  BY <1>0, <1>5, <1>6 DEF Unready
<1>8. \A t \in Tools : \A d \in InputDevices : Presses(t, d)' \subseteq Presses(t, d)
  BY <1>0, <1>4, <1>6 DEF Presses
<1>9. GameHands'
  <2>1. ASSUME NEW d \in InputDevices, d = game.on, NEW c \in Presses("game", d)' PROVE c \in frame
    <3>1. <<c, "game">> \in S
      BY <1>6, <2>1 DEF Presses
    <3>2. <<c, "game">> \in down[game.on] => c \in p
      BY <1>0, <2>1 DEF GameHands, Presses
    <3> QED BY <1>4, <3>1, <3>2
  <2>2. \A d \in InputDevices : d # game.on => Presses("game", d)' = {}
    BY <1>0, <1>6 DEF GameHands, Presses
  <2> QED BY <1>3, <2>1, <2>2 DEF GameHands
<1> QED BY <1>0, <1>3, <1>6, <1>7, <1>8, <1>9

\* The steps of the game session.
LEMMA GameTaskStep == ASSUME McpInv, GameTask PROVE McpInv'
<1>0. /\ McpType /\ Unready /\ GameHands /\ Locked /\ OneGame /\ game \in GameRecords
      /\ \A t \in Tools : Hands(t) /\ tool[t] \in ToolRecords
      /\ NoTool \notin Tools \cup {"game"}
      /\ (game.at \in {"locking", "top", "select"} => game.on \in InputDevices)
  BY McpAssumption DEF McpInv, McpType
\* A step that answers some of the calls with the same answer.
<1>1. ASSUME NEW ts \in SUBSET Tools, NEW at \in Returned, AnswerAsks(ts, at) \/ tool' = tool,
             UNCHANGED <<selected, ready, active, started>>, game' \in GameRecords, game'.id = game.id,
             game.at # "none", game'.at \in {"top", "select", "ending"}, gesture' = "game",
             gesture \in {NoTool, "game"}, game'.at \in {"top", "select"} => game'.on \in InputDevices,
             down' \in [InputDevices -> SUBSET (Controls \X Who)], Unready', GameHands',
             \A t \in Tools : \A d \in InputDevices : Presses(t, d)' \subseteq Presses(t, d)
      PROVE  McpInv'
  <2> DEFINE done == [t \in Tools |-> at]
             waits == IF tool' = tool THEN {} ELSE {t \in ts : tool[t].at = "asked"}
  <2>1. tool' = [t \in Tools |-> IF t \in waits THEN [tool[t] EXCEPT !.at = done[t]] ELSE tool[t]]
    <3>1. CASE tool' = tool
      BY <1>0, <3>1 DEF McpType
    <3>2. CASE tool' # tool
      BY <1>1, <3>2 DEF AnswerAsks
    <3> QED BY <3>1, <3>2
  <2>2. done \in [Tools -> Returned] /\ waits \in SUBSET Tools /\ \A t \in waits : tool[t].at = "asked"
    OBVIOUS
  <2> HIDE DEF done, waits
  <2>3. PICK g \in GameRecords : game' = g
    BY <1>1
  <2>4. /\ g.at \in {"locking", "top", "select"} => g.on \in InputDevices
        /\ g.at # "none" /\ g.id = game.id
    BY <1>1, <2>3
  <2>5. gesture' = gesture \/ (gesture = NoTool /\ gesture' = "game")
    BY <1>1
  <2> QED BY <1>1, <2>1, <2>2, <2>3, <2>4, <2>5, GameStep
<1>2. ASSUME down' = down, ready' = ready
      PROVE  /\ down' \in [InputDevices -> SUBSET (Controls \X Who)] /\ Unready'
             /\ \A w : \A d \in InputDevices : Presses(w, d)' = Presses(w, d)
  BY <1>0, <1>2 DEF McpType, Unready, Presses
<1>3. ASSUME game.at \in {"top", "select", "ending"} PROVE gesture = "game"
  BY <1>0, <1>3 DEF Locked
<1>4. {} \in SUBSET Tools /\ "done" \in Returned /\ "failed" \in Returned
      /\ "top" \in GameStages /\ "select" \in GameStages
  BY DEF Returned, GameStages
<1>5. CASE GameLocks
  <2>1. /\ game.at = "locking" /\ gesture = NoTool /\ gesture' = "game" /\ game' = [game EXCEPT !.at = "top"]
        /\ UNCHANGED <<selected, ready, down, tool, active, started>>
    BY <1>5 DEF GameLocks
  <2>2. game' \in GameRecords /\ game'.at = "top" /\ game'.on = game.on /\ game'.id = game.id
    BY <1>0, <1>4, <2>1 DEF GameRecords
  <2>3. GameHands'
    BY <1>0, <1>2, <2>1, <2>2 DEF GameHands
  <2>4. \A t \in Tools : \A d \in InputDevices : Presses(t, d)' \subseteq Presses(t, d)
    BY <1>2, <2>1
  <2>5. /\ game'.on \in InputDevices /\ game.at # "none" /\ game'.at \in {"top", "select", "ending"}
    BY <1>0, <2>1, <2>2
  <2>7. down' \in [InputDevices -> SUBSET (Controls \X Who)] /\ Unready'
    BY <1>2, <2>1
  <2>6. PICK ts \in SUBSET Tools, at \in Returned : tool' = tool
    BY <1>4, <2>1
  <2> QED BY <1>1, <2>1, <2>2, <2>3, <2>4, <2>5, <2>6, <2>7
\* A step that only moves the loop.
<1>6. ASSUME NEW g \in GameRecords, game' = g, g.on = game.on, g.pressed = game.pressed, g.id = game.id,
             game.at \in {"top", "select"}, g.at \in {"top", "select"},
             UNCHANGED <<selected, ready, down, active, started, gesture>>,
             NEW ts \in SUBSET Tools, NEW at \in Returned, AnswerAsks(ts, at) \/ tool' = tool
      PROVE  McpInv'
  <2>1. GameHands'
    BY <1>0, <1>2, <1>6 DEF GameHands
  <2>2. \A t \in Tools : \A d \in InputDevices : Presses(t, d)' \subseteq Presses(t, d)
    BY <1>2, <1>6
  <2>3. gesture = "game"
    BY <1>3, <1>6
  <2>5. down' \in [InputDevices -> SUBSET (Controls \X Who)] /\ Unready'
    BY <1>2, <1>6
  <2>4. /\ game'.on \in InputDevices /\ game.at # "none" /\ game'.at \in {"top", "select", "ending"}
        /\ game' \in GameRecords /\ game'.id = game.id /\ gesture' = "game"
    BY <1>0, <1>6, <2>3
  <2> QED BY <1>1, <1>6, <2>1, <2>2, <2>3, <2>4, <2>5
<1>7. CASE LeasePasses
  <2>1. /\ game.at = "select" /\ game' = [game EXCEPT !.due = TRUE]
        /\ UNCHANGED <<selected, ready, down, gesture, tool, active, started>>
    BY <1>7 DEF LeasePasses
  <2>2. /\ game' \in GameRecords /\ game'.at = "select" /\ game'.on = game.on /\ game'.id = game.id
        /\ game'.pressed = game.pressed
    BY <1>0, <2>1 DEF GameRecords
  <2> QED BY <1>4, <1>6, <2>1, <2>2
\* The ends of the loop, and its frames.
<1>8. ASSUME NEW g \in GameRecords, g.on = game.on, g.pressed = game.pressed, g.id = game.id,
             game.at \in {"top", "select"}, ReleaseGame(g),
             UNCHANGED <<selected, ready, active, started, gesture>>,
             NEW ts \in SUBSET Tools, NEW at \in Returned, AnswerAsks(ts, at) \/ tool' = tool
      PROVE  McpInv'
  <2>1. /\ game' \in GameRecords /\ game'.at = "ending" /\ game'.id = game.id
        /\ down' \in [InputDevices -> SUBSET (Controls \X Who)] /\ Unready' /\ GameHands'
        /\ \A w : \A d \in InputDevices : Presses(w, d)' \subseteq Presses(w, d)
    BY <1>8, ReleaseFacts
  <2>2. gesture = "game"
    BY <1>3, <1>8
  <2> QED BY <1>1, <1>8, <2>1, <2>2
<1>9. ASSUME NEW g \in GameRecords, g.on = game.on, g.pressed = game.pressed, g.id = game.id,
             game.at \in {"top", "select"}, NEW f \in Frames(g), Renders(g, f), RenderGame(g, f),
             UNCHANGED <<selected, ready, active, started, gesture>>,
             NEW ts \in SUBSET Tools, NEW at \in Returned, AnswerAsks(ts, at) \/ tool' = tool
      PROVE  McpInv'
  <2>1. f \in SUBSET Controls
    BY DEF Frames, Controls
  <2>2. /\ game' \in GameRecords /\ game'.at = "top" /\ game'.id = game.id /\ game'.on \in InputDevices
        /\ down' \in [InputDevices -> SUBSET (Controls \X Who)] /\ Unready' /\ GameHands'
        /\ \A t \in Tools : \A d \in InputDevices : Presses(t, d)' \subseteq Presses(t, d)
    BY <1>9, <2>1, RenderFacts
  <2>3. gesture = "game"
    BY <1>3, <1>9
  <2> QED BY <1>1, <1>9, <2>2, <2>3
<1>10. CASE GameTurn
  <2>1. game.at = "top" /\ UNCHANGED <<selected, ready, gesture, tool, active, started>>
    BY <1>10 DEF GameTurn
  <2>2. CASE ReleaseGame(game)
    BY <1>0, <1>4, <1>8, <2>1, <2>2
  <2>3. CASE game' = [game EXCEPT !.at = "select"] /\ down' = down
    <3>1. /\ game' \in GameRecords /\ game'.at = "select" /\ game'.on = game.on /\ game'.id = game.id
          /\ game'.pressed = game.pressed
      BY <1>0, <1>4, <2>3 DEF GameRecords
    <3> QED BY <1>4, <1>6, <2>1, <2>3, <3>1
  <2> QED BY <1>10, <2>2, <2>3 DEF GameTurn
<1>11. CASE GameTicks
  <2>1. game.at = "select" /\ UNCHANGED <<selected, ready, gesture, tool, active, started>>
    BY <1>11 DEF GameTicks
  <2>2. CASE ReleaseGame(game)
    BY <1>0, <1>4, <1>8, <2>1, <2>2
  <2>3. ASSUME NEW f \in Frames(game), Renders(game, f), RenderGame(game, f) PROVE McpInv'
    BY <1>0, <1>4, <1>9, <2>1, <2>3
  <2> QED BY <1>11, <2>2, <2>3 DEF GameTicks
\* The requests of calls.
<1>12. ASSUME game.queue # <<>>
       PROVE  /\ Taken \in GameRecords /\ Taken.on = game.on /\ Taken.pressed = game.pressed /\ Taken.id = game.id
              /\ Head(game.queue) \in Tools
  <2>1. game.queue \in Seq(Tools)
    BY <1>0 DEF GameRecords
  <2>2. Head(game.queue) \in Tools /\ Tail(game.queue) \in Seq(Tools)
    BY <1>12, <2>1, TakeFacts
  <2> QED BY <1>0, <2>2 DEF Taken, GameRecords
<1>13. CASE GameInput
  <2>1. /\ game.at = "select" /\ game.queue # <<>> /\ UNCHANGED <<selected, ready, gesture, active, started>>
    BY <1>13 DEF GameInput
  <2> DEFINE t == Head(game.queue)
  <2>2. {t} \in SUBSET Tools
    BY <1>12, <2>1
  <2>3. CASE AnswerAsks({t}, "failed") /\ game' = [Taken EXCEPT !.at = "top"] /\ UNCHANGED down
    <3>1. /\ game' \in GameRecords /\ game'.at = "top" /\ game'.on = game.on /\ game'.id = game.id
          /\ game'.pressed = game.pressed
      BY <1>4, <1>12, <2>1, <2>3 DEF GameRecords
    <3> QED BY <1>4, <1>6, <2>1, <2>2, <2>3, <3>1
  <2>4. ASSUME NEW button \in BOOLEAN, NEW g, g = [Taken EXCEPT !.button = button, !.due = FALSE],
               \/ \E f \in Frames(g) : Renders(g, f) /\ RenderGame(g, f) /\ AnswerAsks({t}, "done")
               \/ \E f \in Frames(g) : ~Renders(g, f) /\ ReleaseGame(g) /\ AnswerAsks({t}, "failed")
               \/ game' = [g EXCEPT !.at = "top"] /\ UNCHANGED down /\ AnswerAsks({t}, "failed")
        PROVE  McpInv'
    <3>1. g \in GameRecords /\ g.on = game.on /\ g.pressed = game.pressed /\ g.id = game.id
      BY <1>12, <2>1, <2>4 DEF GameRecords
    <3>2. ASSUME NEW f \in Frames(g), Renders(g, f), RenderGame(g, f), AnswerAsks({t}, "done") PROVE McpInv'
      BY <1>4, <1>9, <2>1, <2>2, <3>1, <3>2
    <3>3. ASSUME ReleaseGame(g), AnswerAsks({t}, "failed") PROVE McpInv'
      BY <1>4, <1>8, <2>1, <2>2, <3>1, <3>3
    <3>4. ASSUME game' = [g EXCEPT !.at = "top"], UNCHANGED down, AnswerAsks({t}, "failed") PROVE McpInv'
      <4>1. /\ game' \in GameRecords /\ game'.at = "top" /\ game'.on = game.on /\ game'.id = game.id
            /\ game'.pressed = game.pressed
        BY <1>4, <3>1, <3>4 DEF GameRecords
      <4> QED BY <1>4, <1>6, <2>1, <2>2, <3>4, <4>1
    <3> QED BY <2>4, <3>2, <3>3, <3>4
  <2> QED BY <1>13, <2>3, <2>4 DEF GameInput
<1>14. CASE GameStops
  <2> DEFINE g == [Taken EXCEPT !.stopper = Head(game.queue)]
  <2>1. /\ game.at = "select" /\ game.queue # <<>> /\ UNCHANGED <<selected, ready, gesture, tool, active, started>>
        /\ ReleaseGame(g)
    BY <1>14 DEF GameStops
  <2>2. g \in GameRecords /\ g.on = game.on /\ g.pressed = game.pressed /\ g.id = game.id
    BY <1>12, <2>1 DEF GameRecords
  <2> HIDE DEF g
  <2> QED BY <1>4, <1>8, <2>1, <2>2
\* The end of the task.
<1>15. CASE GameEnds
  <2>1. /\ game.at = "ending" /\ gesture' = NoTool /\ game' = IdleGame
        /\ UNCHANGED <<selected, ready, down, started>>
    BY <1>15 DEF GameEnds
  <2>2. gesture = "game"
    BY <1>3, <2>1
  <2> DEFINE waits == {t \in Tools : tool[t].at = "asked" /\ (t = game.stopper \/ t \in Range(game.queue))}
             done == [t \in Tools |-> IF t = game.stopper THEN "done" ELSE "failed"]
  <2>3. tool' = [t \in Tools |-> IF t \in waits THEN [tool[t] EXCEPT !.at = done[t]] ELSE tool[t]]
    <3>1. \A t \in Tools :
             (IF tool[t].at # "asked" THEN tool[t]
              ELSE IF t = game.stopper THEN [tool[t] EXCEPT !.at = "done"]
              ELSE IF t \in Range(game.queue) THEN [tool[t] EXCEPT !.at = "failed"] ELSE tool[t])
             = IF t \in waits THEN [tool[t] EXCEPT !.at = done[t]] ELSE tool[t]
      OBVIOUS
    <3> HIDE DEF waits, done
    <3> QED BY <1>15, <3>1 DEF GameEnds
  <2>4. done \in [Tools -> Returned] /\ waits \in SUBSET Tools /\ \A t \in waits : tool[t].at = "asked"
    BY DEF Returned
  <2> HIDE DEF waits, done
  <2>5. IdleGame \in GameRecords /\ IdleGame.at = "none"
    <3>1. <<>> \in Seq(Tools)
      BY ShortSequences
    <3> QED BY <3>1 DEF IdleGame, GameRecords, GameStages
  <2>6. GameHands'
    <3>1. \A d \in InputDevices : Presses("game", d)' = {}
      BY <1>0, <1>2, <2>1 DEF GameHands
    <3> QED BY <3>1 DEF GameHands
  <2>7. \A t \in Tools : \A d \in InputDevices : Presses(t, d)' \subseteq Presses(t, d)
    BY <1>2, <2>1
  <2>8. active' \in {active, NoGame}
    BY <1>15 DEF GameEnds
  <2> QED BY <1>2, <2>1, <2>2, <2>3, <2>4, <2>5, <2>6, <2>7, <2>8, GameStep
<1> QED BY <1>5, <1>7, <1>10, <1>11, <1>13, <1>14, <1>15 DEF GameTask
LEMMA McpStep == ASSUME McpInv, [McpNext]_mcpVars PROVE McpInv'
<1>0. /\ McpType /\ GameHands /\ Unready /\ Locked /\ OneGame /\ NoTool \notin Tools /\ "game" \notin Tools
      /\ tool \in [Tools -> ToolRecords] /\ selected \in InputDevices
      /\ \A t \in Tools : Hands(t) /\ KindOfStage(tool[t]) /\ tool[t] \in ToolRecords
  BY McpAssumption DEF McpInv, McpType
<1>1. ASSUME down' = down
      PROVE  /\ down' \in [InputDevices -> SUBSET (Controls \X Who)]
             /\ \A w : \A d \in InputDevices : Presses(w, d)' = Presses(w, d)
  BY <1>0, <1>1 DEF McpType, Presses
\* A call that presses nothing takes a step.
<1>2. ASSUME NEW t \in Tools, NEW rec \in ToolRecords, tool' = [tool EXCEPT ![t] = rec],
             tool[t].at \notin Pressing \cup Returned, rec.at \notin Pressing \cup {"spawning"},
             KindOfStage(rec), UNCHANGED <<selected, ready, down, active, started, game>>,
             gesture' = gesture \/ (gesture = NoTool /\ gesture' = t), rec.at = "pressing" => gesture' = t
      PROVE  McpInv'
  <2>1. \A d \in InputDevices : Presses(t, d)' = {}
    BY <1>0, <1>1, <1>2 DEF Hands
  <2>2. tool'[t] = rec
    BY <1>0, <1>2
  <2>3. Hands(t)'
    BY <1>2, <2>1, <2>2 DEF Hands
  <2>4. /\ down' \in [InputDevices -> SUBSET (Controls \X Who)] /\ Unready'
        /\ \A w \in Who \ {t} : \A d \in InputDevices : Presses(w, d)' \subseteq Presses(w, d)
    BY <1>0, <1>1, <1>2 DEF Unready
  <2>5. rec.at \in Pressing \cup {"pressing"} => gesture' = t
    BY <1>2
  <2> QED BY <1>2, <2>3, <2>4, <2>5, ToolStep
\* The same, when only the stage changes.
<1>3. ASSUME NEW t \in Tools, NEW at \in Returned \cup {"asked"}, Goes(t, at), tool[t].at \in {"locking", "asked"},
             UNCHANGED <<selected, ready, down, active, started, game, gesture>>
      PROVE  McpInv'
  <2>1. at \in ToolStages
    BY DEF ToolStages
  <2>2. PICK rec \in ToolRecords : tool' = [tool EXCEPT ![t] = rec] /\ rec = [tool[t] EXCEPT !.at = at]
    BY <1>3, <2>1, MoveFacts
  <2>3. rec.at = at
    BY <1>0, <2>2 DEF ToolRecords
  <2>4. KindOfStage(rec) /\ rec.at \notin Pressing \cup {"spawning"} /\ rec.at # "pressing"
        /\ tool[t].at \notin Pressing \cup Returned
    BY <1>3, <2>3 DEF KindOfStage, Pressing, Returned
  <2> QED BY <1>2, <1>3, <2>2, <2>4
<1>4. ASSUME NEW t \in Tools, NEW kind \in Gestures \cup {"keymap", "start", "set", "stop"}, Begin(t, kind) PROVE McpInv'
  <2> DEFINE rec == [tool[t] EXCEPT !.kind = kind, !.at = "locking", !.game = started]
  <2>1. /\ tool[t].at = "idle" /\ tool' = [tool EXCEPT ![t] = rec]
        /\ UNCHANGED <<selected, ready, down, gesture, active, started, game>>
    BY <1>4 DEF Begin
  <2>2. kind \in Kinds /\ "locking" \in ToolStages /\ started \in Nat
    BY <1>0 DEF Kinds, ToolStages, McpType
  <2>3. rec \in ToolRecords /\ rec.at = "locking"
    BY <1>0, <2>2 DEF ToolRecords
  <2> HIDE DEF rec
  <2>4. KindOfStage(rec) /\ rec.at \notin Pressing \cup {"spawning"} /\ rec.at # "pressing"
        /\ tool[t].at \notin Pressing \cup Returned
    BY <2>1, <2>3 DEF KindOfStage, Pressing, Returned
  <2> QED BY <1>2, <2>1, <2>3, <2>4
<1>5. ASSUME NEW t \in Tools, Locks(t) PROVE McpInv'
  <2> DEFINE rec == [tool[t] EXCEPT !.at = "pressing", !.strayed = FALSE]
  <2>1. /\ tool[t].kind \in Gestures \cup {"keymap"} /\ tool[t].at = "locking" /\ gesture = NoTool /\ gesture' = t
        /\ tool' = [tool EXCEPT ![t] = rec]
        /\ UNCHANGED <<selected, ready, down, active, started, game>>
    BY <1>5 DEF Locks, At
  <2>2. "pressing" \in ToolStages
    BY DEF ToolStages
  <2>3. rec \in ToolRecords /\ rec.at = "pressing" /\ rec.kind = tool[t].kind
    BY <1>0, <2>2 DEF ToolRecords
  <2> HIDE DEF rec
  <2>4. KindOfStage(rec) /\ rec.at \notin Pressing \cup {"spawning"}
        /\ tool[t].at \notin Pressing \cup Returned
    BY <2>1, <2>3 DEF KindOfStage, Pressing, Returned
  <2> QED BY <1>2, <2>1, <2>3, <2>4
<1>6. ASSUME NEW t \in Tools, StartGame(t) PROVE McpInv'
  <2>1. CASE active # NoGame /\ Goes(t, "failed") /\ UNCHANGED <<active, started>>
    BY <1>3, <1>6, <2>1 DEF StartGame, At, Returned
  <2>2. CASE /\ active = NoGame /\ started' = started + 1
             /\ active' = [id |-> started', selection |-> selected] /\ Goes(t, "spawning")
    <3>1. "spawning" \in ToolStages
      BY DEF ToolStages
    <3>2. PICK rec \in ToolRecords : tool' = [tool EXCEPT ![t] = rec] /\ rec.at = "spawning"
      <4>1. [tool[t] EXCEPT !.at = "spawning"].at = "spawning"
        BY <1>0 DEF ToolRecords
      <4> QED BY <2>2, <3>1, <4>1, MoveFacts
    <3>3. tool' \in [Tools -> ToolRecords] /\ \A u \in Tools : tool'[u] = IF u = t THEN rec ELSE tool[u]
      BY <1>0, <3>2
    <3>4. tool[t].at = "locking" /\ UNCHANGED <<selected, ready, down, gesture, game>>
      BY <1>6 DEF StartGame, At
    <3>5. active' # NoGame /\ active'.id \in Nat /\ started' \in Nat
      BY <1>0, <2>2 DEF McpType, NoGame
    <3>6. McpType' /\ GameHands' /\ Unready'
      BY <1>0, <1>1, <3>3, <3>4, <3>5 DEF McpType, GameHands, Unready
    <3>7. Locked'
      BY <1>0, <3>2, <3>3, <3>4 DEF Locked, Pressing
    <3>8. game.at = "none" /\ \A u \in Tools : tool[u].at # "spawning"
      BY <1>0, <2>2 DEF OneGame
    <3>9. OneGame'
      BY <3>2, <3>3, <3>4, <3>5, <3>8 DEF OneGame
    <3>10. ASSUME NEW u \in Tools PROVE Hands(u)' /\ KindOfStage(tool'[u])
      <4>1. CASE u = t
        <5>1. \A d \in InputDevices : Presses(t, d)' = {}
          BY <1>0, <1>1, <3>4 DEF Hands, Pressing, Returned
        <5> QED BY <3>2, <3>3, <4>1, <5>1 DEF Hands, KindOfStage, Pressing, Returned
      <4>2. CASE u # t
        <5>1. tool'[u] = tool[u] /\ Hands(u) /\ KindOfStage(tool[u]) /\ selected' = selected
              /\ \A d \in InputDevices : Presses(u, d)' \subseteq Presses(u, d)
          BY <1>0, <1>1, <3>3, <3>4, <4>2
        <5> QED BY <5>1, HandsKept
      <4> QED BY <4>1, <4>2
    <3> QED BY <3>6, <3>7, <3>9, <3>10 DEF McpInv
  <2> QED BY <1>6, <2>1, <2>2 DEF StartGame
<1>7. ASSUME NEW t \in Tools, SpawnGame(t) PROVE McpInv'
  <2>1. /\ tool[t].at = "spawning" /\ Goes(t, "done")
        /\ game' = [IdleGame EXCEPT !.at = "locking", !.id = active.id, !.on = selected]
        /\ UNCHANGED <<selected, ready, down, gesture, active, started>>
    BY <1>7 DEF SpawnGame, At
  <2>2. "done" \in ToolStages /\ "done" \in Returned
    BY DEF ToolStages, Returned
  <2>3. PICK rec \in ToolRecords : tool' = [tool EXCEPT ![t] = rec] /\ rec.at = "done"
    <3>1. [tool[t] EXCEPT !.at = "done"].at = "done"
      BY <1>0 DEF ToolRecords
    <3> QED BY <2>1, <2>2, <3>1, MoveFacts
  <2>4. tool' \in [Tools -> ToolRecords] /\ \A u \in Tools : tool'[u] = IF u = t THEN rec ELSE tool[u]
    BY <1>0, <2>3
  <2>5. active # NoGame /\ game.at = "none" /\ active.id \in Nat
        /\ \A u \in Tools : tool[u].at = "spawning" => u = t
    BY <1>0, <2>1 DEF OneGame, McpType
  <2>6. game' = [at |-> "locking", id |-> active.id, on |-> selected, due |-> FALSE, button |-> FALSE,
                 pressed |-> {}, queue |-> <<>>, stopper |-> NoTool]
    BY <2>1 DEF IdleGame
  <2>7. "locking" \in GameStages /\ <<>> \in Seq(Tools) /\ {} \in SUBSET Controls
    BY DEF GameStages
  <2>8. game' \in GameRecords /\ game'.at = "locking" /\ game'.on = selected /\ game'.id = active.id
    BY <1>0, <2>5, <2>6, <2>7 DEF GameRecords
  <2>9. McpType'
    BY <1>0, <1>1, <2>1, <2>4, <2>8 DEF McpType
  <2>10. GameHands' /\ Unready'
    <3>1. \A d \in InputDevices : Presses("game", d)' = {}
      BY <1>0, <1>1, <2>1, <2>5 DEF GameHands
    <3> QED BY <1>0, <2>1, <3>1 DEF GameHands, Unready
  <2>11. Locked'
    BY <1>0, <2>1, <2>3, <2>4, <2>8 DEF Locked, Pressing
  <2>12. OneGame'
    BY <1>0, <2>1, <2>3, <2>4, <2>5, <2>8 DEF OneGame
  <2>13. ASSUME NEW u \in Tools PROVE Hands(u)' /\ KindOfStage(tool'[u])
    <3>1. CASE u = t
      <4>1. \A d \in InputDevices : Presses(t, d)' = {}
        BY <1>0, <1>1, <2>1 DEF Hands, Pressing, Returned
      <4> QED BY <2>3, <2>4, <3>1, <4>1 DEF Hands, KindOfStage, Pressing, Returned
    <3>2. CASE u # t
      <4>1. tool'[u] = tool[u] /\ Hands(u) /\ KindOfStage(tool[u]) /\ selected' = selected
            /\ \A d \in InputDevices : Presses(u, d)' \subseteq Presses(u, d)
        BY <1>0, <1>1, <2>1, <2>4, <3>2
      <4> QED BY <4>1, HandsKept
    <3> QED BY <3>1, <3>2
  <2> QED BY <2>9, <2>10, <2>11, <2>12, <2>13 DEF McpInv
<1>8. ASSUME NEW t \in Tools, GameAsks(t) PROVE McpInv'
  <2>1. tool[t].at = "locking" /\ UNCHANGED <<selected, ready, down, gesture, active, started>>
    BY <1>8 DEF GameAsks, At
  <2>2. CASE Goes(t, "failed") /\ UNCHANGED game
    BY <1>3, <2>1, <2>2 DEF Returned
  <2>3. CASE game.at # "none" /\ game' = [game EXCEPT !.queue = Append(@, t)] /\ Goes(t, "asked")
    <3>1. "asked" \in ToolStages
      BY DEF ToolStages
    <3>2. PICK rec \in ToolRecords : tool' = [tool EXCEPT ![t] = rec] /\ rec.at = "asked"
      <4>1. [tool[t] EXCEPT !.at = "asked"].at = "asked"
        BY <1>0 DEF ToolRecords
      <4> QED BY <2>3, <3>1, <4>1, MoveFacts
    <3>3. tool' \in [Tools -> ToolRecords] /\ \A u \in Tools : tool'[u] = IF u = t THEN rec ELSE tool[u]
      BY <1>0, <3>2
    <3>4. game \in GameRecords /\ Append(game.queue, t) \in Seq(Tools)
      BY <1>0 DEF McpType, GameRecords
    <3>5. /\ game' \in GameRecords /\ game'.at = game.at /\ game'.on = game.on /\ game'.id = game.id
          /\ game'.pressed = game.pressed
      BY <2>3, <3>4 DEF GameRecords
    <3>6. McpType' /\ GameHands' /\ Unready'
      BY <1>0, <1>1, <2>1, <3>3, <3>5 DEF McpType, GameHands, Unready
    <3>7. Locked'
      BY <1>0, <2>1, <3>2, <3>3, <3>5 DEF Locked, Pressing
    <3>8. OneGame'
      BY <1>0, <2>1, <3>2, <3>3, <3>5 DEF OneGame
    <3>9. ASSUME NEW u \in Tools PROVE Hands(u)' /\ KindOfStage(tool'[u])
      <4>1. CASE u = t
        <5>1. \A d \in InputDevices : Presses(t, d)' = {}
          BY <1>0, <1>1, <2>1 DEF Hands, Pressing, Returned
        <5> QED BY <3>2, <3>3, <4>1, <5>1 DEF Hands, KindOfStage, Pressing, Returned
      <4>2. CASE u # t
        <5>1. tool'[u] = tool[u] /\ Hands(u) /\ KindOfStage(tool[u]) /\ selected' = selected
              /\ \A d \in InputDevices : Presses(u, d)' \subseteq Presses(u, d)
          BY <1>0, <1>1, <2>1, <3>3, <4>2
        <5> QED BY <5>1, HandsKept
      <4> QED BY <4>1, <4>2
    <3> QED BY <3>6, <3>7, <3>8, <3>9 DEF McpInv
  <2> QED BY <1>8, <2>2, <2>3 DEF GameAsks
<1>9. ASSUME NEW t \in Tools, AskTimesOut(t) PROVE McpInv'
  BY <1>3, <1>9 DEF AskTimesOut, At, Returned
<1>10. ASSUME NEW d \in InputDevices, SwitchDevice(d) PROVE McpInv'
  <2>1. /\ selected' = d /\ UNCHANGED <<ready, down, gesture, active, started, game>>
        /\ tool' = [t \in Tools |-> [tool[t] EXCEPT !.strayed = TRUE]]
    BY <1>10 DEF SwitchDevice
  <2>2. ASSUME NEW t \in Tools
        PROVE  /\ tool'[t] \in ToolRecords /\ tool'[t].strayed /\ tool'[t].at = tool[t].at
               /\ tool'[t].kind = tool[t].kind
    BY <1>0, <2>1 DEF ToolRecords
  <2>3. McpType' /\ GameHands' /\ Unready'
    <3>1. tool' \in [Tools -> ToolRecords]
      BY <2>1, <2>2
    <3> QED BY <1>0, <1>1, <2>1, <3>1 DEF McpType, GameHands, Unready
  <2>4. Locked' /\ OneGame'
    BY <1>0, <2>1, <2>2 DEF Locked, OneGame
  <2>5. \A t \in Tools : Hands(t)' /\ KindOfStage(tool'[t])
    BY <1>0, <1>1, <2>1, <2>2 DEF Hands, KindOfStage
  <2> QED BY <2>3, <2>4, <2>5 DEF McpInv
<1>11. ASSUME NEW d \in InputDevices, DeviceChanges(d) PROVE McpInv'
  <2>1. /\ ready' = [ready EXCEPT ![d] = ~@] /\ down' = [down EXCEPT ![d] = {}]
        /\ UNCHANGED <<selected, gesture, tool, active, started, game>>
    BY <1>11 DEF DeviceChanges
  <2>2. /\ ready' \in [InputDevices -> BOOLEAN] /\ down' \in [InputDevices -> SUBSET (Controls \X Who)]
        /\ \A e \in InputDevices : down'[e] = IF e = d THEN {} ELSE down[e]
        /\ \A e \in InputDevices : e # d => ready'[e] = ready[e]
    BY <1>0, <2>1 DEF McpType
  <2>3. \A w : \A e \in InputDevices : Presses(w, e)' \subseteq Presses(w, e)
    BY <2>2 DEF Presses
  <2>4. McpType' /\ GameHands' /\ Unready'
    BY <1>0, <2>1, <2>2, <2>3 DEF McpType, GameHands, Unready
  <2>5. Locked' /\ OneGame'
    BY <1>0, <2>1 DEF Locked, OneGame
  <2>6. ASSUME NEW t \in Tools PROVE Hands(t)' /\ KindOfStage(tool'[t])
    <3>1. tool'[t] = tool[t] /\ Hands(t) /\ KindOfStage(tool[t]) /\ selected' = selected
          /\ \A e \in InputDevices : Presses(t, e)' \subseteq Presses(t, e)
      BY <1>0, <2>1, <2>3
    <3> QED BY <3>1, HandsKept
  <2> QED BY <2>4, <2>5, <2>6 DEF McpInv
<1>12. CASE UNCHANGED mcpVars
  <2>1. UNCHANGED <<selected, ready, down, gesture, tool, active, started, game>>
    BY <1>12 DEF mcpVars
  <2>2. McpType' /\ GameHands' /\ Unready' /\ Locked' /\ OneGame'
    BY <1>0, <1>1, <2>1 DEF McpType, GameHands, Unready, Locked, OneGame
  <2>3. \A t \in Tools : Hands(t)' /\ KindOfStage(tool'[t])
    BY <1>0, <1>1, <2>1, HandsKept
  <2> QED BY <2>2, <2>3 DEF McpInv
<1>13. ASSUME NEW t \in Tools, Tap(t) \/ Swipe(t) \/ MultiTouch(t) PROVE McpInv'
  BY <1>13, GestureStep DEF Tap, Swipe, MultiTouch, Gestures
<1>14. ASSUME NEW t \in Tools, RunKeymap(t) PROVE McpInv'
  BY <1>14, KeymapButtonsStep, KeymapFrameStep, KeymapReleasesStep DEF RunKeymap
<1> QED
  BY <1>4, <1>5, <1>6, <1>7, <1>8, <1>9, <1>10, <1>11, <1>12, <1>13, <1>14, GameTaskStep DEF McpNext

LEMMA McpInvHolds == McpSpec => []McpInv
<1>1. McpInit => McpInv
  <2>1. SUFFICES ASSUME McpInit PROVE McpInv
    OBVIOUS
  <2>2. /\ "none" \in Kinds /\ "idle" \in ToolStages /\ "none" \in GameStages /\ <<>> \in Seq(Tools)
        /\ {} \in SUBSET Controls /\ {} \in SUBSET (Controls \X Who)
    BY DEF Kinds, ToolStages, GameStages
  <2>3. IdleTool \in ToolRecords /\ IdleTool.at = "idle"
    BY <2>2 DEF IdleTool, ToolRecords
  <2>4. IdleGame \in GameRecords /\ IdleGame.at = "none"
    BY <2>2 DEF IdleGame, GameRecords
  <2>5. \A w : \A d \in InputDevices : Presses(w, d) = {}
    BY <2>1 DEF McpInit, Presses
  <2>6. \A t \in Tools : tool[t] = IdleTool
    BY <2>1 DEF McpInit
  <2>7. McpType
    BY <2>1, <2>2, <2>3, <2>4 DEF McpInit, McpType
  <2>8. GameHands /\ Unready
    BY <2>1, <2>5 DEF McpInit, GameHands, Unready
  <2>9. Locked /\ OneGame
    BY <2>1, <2>3, <2>4, <2>6 DEF McpInit, Locked, OneGame, Pressing
  <2>10. \A t \in Tools : Hands(t) /\ KindOfStage(tool[t])
    BY <2>3, <2>5, <2>6 DEF Hands, KindOfStage, Pressing, Returned
  <2> QED BY <2>7, <2>8, <2>9, <2>10 DEF McpInv
<1>2. McpInv /\ [McpNext]_mcpVars => McpInv'
  BY McpStep
<1> QED BY <1>1, <1>2, PTL DEF McpSpec

\* Whatever a call or the game session of the MCP server holds down is down
\* only while the one that pressed it holds the gesture lock: a call that
\* returns, in any way, released all it pressed (unless the selection changed
\* under it), and the game session presses nothing outside its own device and
\* its own loop (mcp.rs: tap, swipe, multi_touch, run_keymap and
\* release_game_control).
THEOREM InputIsReleased == McpSpec => []InputReleased
<1>1. McpInv => InputReleased
  <2>1. SUFFICES ASSUME McpInv PROVE InputReleased
    OBVIOUS
  <2>2. ASSUME NEW w, NEW d \in PressedBy(w) PROVE d \in InputDevices /\ Presses(w, d) # {}
    <3>1. d \in InputDevices /\ down[d] \subseteq Controls \X Who
      BY <2>1, <2>2 DEF PressedBy, McpInv, McpType
    <3>2. PICK x \in down[d] : x[2] = w
      BY <2>2 DEF PressedBy
    <3>3. x = <<x[1], w>> /\ x[1] \in Controls
      BY <3>1, <3>2
    <3> QED BY <3>1, <3>2, <3>3 DEF Presses
  <2>3. ASSUME NEW t \in Tools, PressedBy(t) # {} PROVE gesture = t \/ tool[t].strayed
    BY <2>1, <2>2, <2>3 DEF McpInv, Hands, Locked
  <2>4. ASSUME NEW d \in PressedBy("game") PROVE d = game.on /\ game.at \in {"top", "select"}
    BY <2>1, <2>2, <2>4 DEF McpInv, GameHands
  <2> QED BY <2>3, <2>4 DEF InputReleased
<1> QED BY <1>1, McpInvHolds, PTL

(***************************************************************************)
(* AppControl.  A launch or stop has the device to itself, and is carried  *)
(* out at most once.                                                       *)
(***************************************************************************)

AppSpec == AppInit /\ [][AppNext]_appVars

UnderWay == {"dvt", "dvt launch", "connect", "launch", "resolve", "signal", "verify"}

AppType ==
    /\ appQueue \in Seq(AppAsks) /\ control \in BOOLEAN
    /\ controls \in [AppAsks -> {"none", "done"} \cup UnderWay]
    /\ launched \in [AppAsks -> Nat]
    /\ appCaller \in [AppAsks -> {"new", "waiting", "gone", "ok", "err"}]

\* A request is in the queue at most once, and only before it is taken up.
AsksQueued ==
    /\ \A i, j \in 1..Len(appQueue) : appQueue[i] = appQueue[j] => i = j
    /\ \A i \in 1..Len(appQueue) : appCaller[appQueue[i]] # "new" /\ controls[appQueue[i]] = "none"
    /\ \A r \in AppAsks : appCaller[r] = "new" => controls[r] = "none"

\* The slot is taken exactly while one request is under way.
SlotHeld ==
    /\ control => \E r \in AppAsks : controls[r] \in UnderWay
    /\ \A r \in AppAsks : controls[r] \in UnderWay => control
    /\ \A r, q \in AppAsks : controls[r] \in UnderWay /\ controls[q] \in UnderWay => r = q

\* An application is launched for a request only by its last step.
LaunchedLast == \A r \in AppAsks : launched[r] <= IF controls[r] = "done" THEN 1 ELSE 0

AppInv == AppType /\ AsksQueued /\ SlotHeld /\ LaunchedLast

\* The list command in the loop is one that was asked for.
ListsAsked == listing = NotListing \/ listing \in [id : AppAsks, step : {"first", "reconnect", "retry"}]

LEMMA AppInitially == AppInit => AppInv
<1> SUFFICES ASSUME AppInit PROVE AppInv
  OBVIOUS
<1>1. AppType
  <2>1. <<>> \in Seq(AppAsks)
    OBVIOUS
  <2>2. control \in BOOLEAN
    BY DEF AppInit
  <2> QED BY <2>1, <2>2 DEF AppInit, AppType
<1>2. AsksQueued /\ LaunchedLast
  BY DEF AppInit, AsksQueued, LaunchedLast
<1>3. SlotHeld
  BY DEF AppInit, SlotHeld, UnderWay
<1> QED BY <1>1, <1>2, <1>3 DEF AppInv

\* What an answer to a caller leaves alone.
LEMMA AskAnswered ==
    ASSUME NEW r \in AppAsks, NEW a \in {"ok", "err"}, TellApp(r, a), AppType
    PROVE  /\ appCaller' \in [AppAsks -> {"new", "waiting", "gone", "ok", "err"}]
           /\ \A q \in AppAsks : appCaller'[q] = "new" <=> appCaller[q] = "new"
BY DEF TellApp, AppType

\* A step that starts, moves on or ends no launch or stop, and launches
\* nothing, preserves the invariant if the queue does not change.
LEMMA Elsewhere ==
    ASSUME AppInv, UNCHANGED <<appQueue, control, controls, launched>>,
           appCaller' \in [AppAsks -> {"new", "waiting", "gone", "ok", "err"}],
           \A q \in AppAsks : appCaller'[q] = "new" <=> appCaller[q] = "new"
    PROVE  AppInv'
<1>1. \A i \in 1..Len(appQueue) : appQueue[i] \in AppAsks
  BY DEF AppInv, AppType
<1> QED BY <1>1 DEF AppInv, AppType, AsksQueued, SlotHeld, LaunchedLast

\* The requests that are queued are requests, and are not under way.
LEMMA QueueApart ==
    ASSUME AppInv
    PROVE  /\ Len(appQueue) \in Nat
           /\ \A i \in 1..Len(appQueue) : appQueue[i] \in AppAsks
           /\ \A i \in 1..Len(appQueue) : controls[appQueue[i]] \notin UnderWay
<1>1. appQueue \in Seq(AppAsks)
  BY DEF AppInv, AppType
<1>2. Len(appQueue) \in Nat /\ \A i \in 1..Len(appQueue) : appQueue[i] \in AppAsks
  BY <1>1
<1>3. "none" \notin UnderWay
  BY DEF UnderWay
<1>4. \A i \in 1..Len(appQueue) : controls[appQueue[i]] = "none"
  BY DEF AppInv, AsksQueued
<1> QED BY <1>2, <1>3, <1>4

\* A request that is under way goes on to another step.
LEMMA MovesOn ==
    ASSUME AppInv, NEW r \in AppAsks, controls[r] \in UnderWay, NEW s \in UnderWay,
           Controlled(r, s), UNCHANGED <<appQueue, control, appCaller, launched>>
    PROVE  AppInv'
<1>1. \A q \in AppAsks : controls'[q] = IF q = r THEN s ELSE controls[q]
  BY DEF AppInv, AppType, Controlled
<1>2. AppType'
  <2>1. controls' \in [AppAsks -> {"none", "done"} \cup UnderWay]
    BY DEF AppInv, AppType, Controlled
  <2> QED BY <2>1 DEF AppInv, AppType
<1>3. \A i \in 1..Len(appQueue) : appQueue[i] \in AppAsks /\ appQueue[i] # r
  BY QueueApart
<1>4. AsksQueued'
  <2>1. "none" \notin UnderWay
    BY DEF UnderWay
  <2> QED BY <1>1, <1>3, <2>1 DEF AppInv, AsksQueued
<1>5. SlotHeld'
  BY <1>1 DEF AppInv, SlotHeld
<1>6. LaunchedLast'
  <2>1. "done" \notin UnderWay
    BY DEF UnderWay
  <2> QED BY <1>1, <2>1 DEF AppInv, LaunchedLast
<1> QED BY <1>2, <1>4, <1>5, <1>6 DEF AppInv

\* A request that is under way ends, and may have launched its application.
LEMMA EndsControl ==
    ASSUME AppInv, NEW r \in AppAsks, controls[r] \in UnderWay, NEW a \in {"ok", "err"},
           ControlEnds(r, a), UNCHANGED appQueue,
           launched' = launched \/ launched' = [launched EXCEPT ![r] = @ + 1]
    PROVE  AppInv'
<1>0. "none" \notin UnderWay /\ "done" \notin UnderWay /\ "done" # "none"
  BY DEF UnderWay
<1>1. \A q \in AppAsks : controls'[q] = IF q = r THEN "done" ELSE controls[q]
  BY DEF AppInv, AppType, ControlEnds, Controlled
<1>2. /\ appCaller' \in [AppAsks -> {"new", "waiting", "gone", "ok", "err"}]
      /\ \A q \in AppAsks : appCaller'[q] = "new" <=> appCaller[q] = "new"
  BY AskAnswered DEF AppInv, ControlEnds
<1>3. AppType'
  <2>1. controls' \in [AppAsks -> {"none", "done"} \cup UnderWay]
    BY DEF AppInv, AppType, ControlEnds, Controlled
  <2>2. control' \in BOOLEAN
    BY DEF ControlEnds
  <2>3. launched' \in [AppAsks -> Nat]
    BY DEF AppInv, AppType
  <2>4. appQueue' \in Seq(AppAsks)
    BY DEF AppInv, AppType
  <2> QED BY <1>2, <2>1, <2>2, <2>3, <2>4 DEF AppType
<1>4. \A i \in 1..Len(appQueue) : appQueue[i] \in AppAsks /\ appQueue[i] # r
  BY QueueApart
<1>5. AsksQueued'
  <2>1. appCaller[r] # "new"
    BY <1>0 DEF AppInv, AsksQueued
  <2> QED BY <1>1, <1>2, <1>4, <2>1 DEF AppInv, AsksQueued
<1>6. SlotHeld'
  <2>1. \A q \in AppAsks : controls'[q] \notin UnderWay
    BY <1>0, <1>1 DEF AppInv, SlotHeld
  <2>2. control' = FALSE
    BY DEF ControlEnds
  <2> QED BY <2>1, <2>2 DEF SlotHeld
<1>7. LaunchedLast'
  <2>1. launched \in [AppAsks -> Nat] /\ launched[r] <= 0
    BY <1>0 DEF AppInv, AppType, LaunchedLast
  <2>2. \A q \in AppAsks : q # r => launched'[q] = launched[q]
    BY <2>1
  <2>3. launched'[r] <= 1
    BY <2>1
  <2> QED BY <1>1, <2>2, <2>3 DEF AppInv, LaunchedLast
<1> QED BY <1>3, <1>5, <1>6, <1>7 DEF AppInv

\* A request joins the queue.
LEMMA AskKeeps ==
    ASSUME AppInv, NEW r \in AppAsks, NEW cmd \in AppCommands, AskApp(r, cmd)
    PROVE  AppInv'
<1>1. appQueue \in Seq(AppAsks) /\ appQueue' = Append(appQueue, r) /\ appCaller[r] = "new"
  BY DEF AppInv, AppType, AskApp
<1>2. UNCHANGED <<control, controls, launched>>
  BY DEF AskApp
<1>3. \A q \in AppAsks : appCaller'[q] = IF q = r THEN "waiting" ELSE appCaller[q]
  BY DEF AppInv, AppType, AskApp
<1>4. AppType'
  <2>1. appQueue' \in Seq(AppAsks)
    BY <1>1
  <2>2. appCaller' \in [AppAsks -> {"new", "waiting", "gone", "ok", "err"}]
    BY DEF AppInv, AppType, AskApp
  <2> QED BY <1>2, <2>1, <2>2 DEF AppInv, AppType
<1>5. AsksQueued'
  <2>1. Len(appQueue) \in Nat /\ \A i \in 1..Len(appQueue) : appQueue[i] \in AppAsks /\ appQueue[i] # r
    BY <1>1, QueueApart DEF AppInv, AsksQueued
  <2>2. Len(appQueue') = Len(appQueue) + 1
    BY <1>1
  <2>3. \A i \in 1..Len(appQueue') : appQueue'[i] = IF i <= Len(appQueue) THEN appQueue[i] ELSE r
    BY <1>1, <2>1, <2>2
  <2>4. \A i \in 1..Len(appQueue') : i <= Len(appQueue) => i \in 1..Len(appQueue)
    BY <2>1, <2>2
  <2>5. \A i, j \in 1..Len(appQueue') : appQueue'[i] = appQueue'[j] => i = j
    BY <2>1, <2>2, <2>3, <2>4 DEF AppInv, AsksQueued
  <2>6. \A i \in 1..Len(appQueue') : appCaller'[appQueue'[i]] # "new" /\ controls'[appQueue'[i]] = "none"
    BY <1>1, <1>2, <1>3, <2>1, <2>3, <2>4 DEF AppInv, AsksQueued
  <2>7. \A q \in AppAsks : appCaller'[q] = "new" => controls'[q] = "none"
    BY <1>2, <1>3 DEF AppInv, AsksQueued
  <2> QED BY <2>5, <2>6, <2>7 DEF AsksQueued
<1>6. SlotHeld' /\ LaunchedLast'
  BY <1>2 DEF AppInv, SlotHeld, LaunchedLast
<1> QED BY <1>4, <1>5, <1>6 DEF AppInv

\* The session takes a request from the queue.
LEMMA TakeKeeps == ASSUME AppInv, TakeApp PROVE AppInv'
<1> DEFINE r == Head(appQueue)
<1>1. appQueue \in Seq(AppAsks) /\ appQueue # <<>> /\ appQueue' = Tail(appQueue) /\ launched' = launched
  BY DEF AppInv, AppType, TakeApp
<1>2. /\ r \in AppAsks /\ r = appQueue[1] /\ Len(appQueue) \in Nat /\ Len(appQueue) >= 1
      /\ Len(appQueue') = Len(appQueue) - 1 /\ appQueue' \in Seq(AppAsks)
      /\ \A i \in 1..Len(appQueue') : appQueue'[i] = appQueue[i + 1]
  BY <1>1
<1>3. \A i \in 1..Len(appQueue') : i + 1 \in 1..Len(appQueue)
  BY <1>2
<1>4. 1 \in 1..Len(appQueue)
  BY <1>2
<1>5. controls[r] = "none" /\ appCaller[r] # "new"
  BY <1>2, <1>4 DEF AppInv, AsksQueued
<1>6. \A i, j \in 1..Len(appQueue') : appQueue'[i] = appQueue'[j] => i = j
  <2> SUFFICES ASSUME NEW i \in 1..Len(appQueue'), NEW j \in 1..Len(appQueue'), appQueue'[i] = appQueue'[j]
               PROVE i = j
    OBVIOUS
  <2>1. appQueue[i + 1] = appQueue[j + 1] /\ i + 1 \in 1..Len(appQueue) /\ j + 1 \in 1..Len(appQueue)
    BY <1>2, <1>3
  <2>2. i + 1 = j + 1
    BY <2>1 DEF AppInv, AsksQueued
  <2>3. i \in Int /\ j \in Int
    OBVIOUS
  <2> QED BY <2>2, <2>3
<1>7. \A i \in 1..Len(appQueue') : appQueue'[i] \in AppAsks /\ appQueue'[i] # r
  <2> SUFFICES ASSUME NEW i \in 1..Len(appQueue') PROVE appQueue'[i] \in AppAsks /\ appQueue'[i] # r
    OBVIOUS
  <2>1. appQueue'[i] = appQueue[i + 1] /\ i + 1 \in 1..Len(appQueue) /\ i + 1 # 1
    BY <1>2, <1>3
  <2>2. appQueue[i + 1] \in AppAsks
    BY <2>1, QueueApart
  <2>3. appQueue[i + 1] # appQueue[1]
    BY <1>4, <2>1 DEF AppInv, AsksQueued
  <2> QED BY <1>2, <2>1, <2>2, <2>3
<1>8. \A i \in 1..Len(appQueue') : appCaller[appQueue'[i]] # "new" /\ controls[appQueue'[i]] = "none"
  BY <1>2, <1>3 DEF AppInv, AsksQueued
<1>9. CASE UNCHANGED <<control, controls, appCaller>>
  <2>1. AppType'
    BY <1>1, <1>2, <1>9 DEF AppInv, AppType
  <2>2. AsksQueued'
    BY <1>6, <1>8, <1>9 DEF AppInv, AsksQueued
  <2>3. SlotHeld' /\ LaunchedLast'
    BY <1>1, <1>9 DEF AppInv, SlotHeld, LaunchedLast
  <2> QED BY <2>1, <2>2, <2>3 DEF AppInv
<1>10. CASE TellApp(r, "err") /\ UNCHANGED <<control, controls>>
  <2>1. /\ appCaller' \in [AppAsks -> {"new", "waiting", "gone", "ok", "err"}]
        /\ \A q \in AppAsks : appCaller'[q] = "new" <=> appCaller[q] = "new"
    BY <1>2, <1>10, AskAnswered DEF AppInv
  <2>2. AppType'
    BY <1>1, <1>2, <1>10, <2>1 DEF AppInv, AppType
  <2>3. AsksQueued'
    BY <1>6, <1>7, <1>8, <1>10, <2>1 DEF AppInv, AsksQueued
  <2>4. SlotHeld' /\ LaunchedLast'
    BY <1>1, <1>10 DEF AppInv, SlotHeld, LaunchedLast
  <2> QED BY <2>2, <2>3, <2>4 DEF AppInv
<1>11. ASSUME control = FALSE, control' = TRUE, UNCHANGED appCaller,
              NEW s \in UnderWay, controls' = [controls EXCEPT ![r] = s]
       PROVE AppInv'
  <2>1. controls' \in [AppAsks -> {"none", "done"} \cup UnderWay] /\ \A q \in AppAsks : controls'[q] = IF q = r THEN s ELSE controls[q]
    BY <1>2, <1>11 DEF AppInv, AppType
  <2>2. control' \in BOOLEAN
    BY <1>11
  <2>3. AppType'
    BY <1>1, <1>2, <1>11, <2>1, <2>2 DEF AppInv, AppType
  <2>4. AsksQueued'
    BY <1>2, <1>5, <1>6, <1>7, <1>8, <1>11, <2>1 DEF AppInv, AsksQueued
  <2>5. \A q \in AppAsks : controls'[q] \in UnderWay <=> q = r
    BY <1>2, <1>11, <2>1 DEF AppInv, SlotHeld
  <2>6. SlotHeld'
    BY <1>2, <1>11, <2>5 DEF SlotHeld
  <2>7. LaunchedLast'
    <3>1. "done" # "none" /\ "done" \notin UnderWay
      BY DEF UnderWay
    <3> QED BY <1>1, <1>5, <2>1, <3>1 DEF AppInv, LaunchedLast
  <2> QED BY <2>3, <2>4, <2>6, <2>7 DEF AppInv
<1>12. "dvt" \in UnderWay /\ "connect" \in UnderWay
  BY DEF UnderWay
<1>13. \/ UNCHANGED <<control, controls, appCaller>>
       \/ TryStart(r)
  BY DEF TakeApp
<1>14. CASE TryStart(r)
  <2>1. CASE control
    BY <1>10, <1>14, <2>1 DEF TryStart
  <2>2. CASE ~control
    <3>1. control = FALSE
      BY <2>2 DEF AppInv, AppType
    <3>2. control' = TRUE /\ UNCHANGED appCaller /\ controls' = [controls EXCEPT ![r] = IF appAsked[r].op = "launch" THEN "dvt" ELSE "connect"]
      BY <1>14, <2>2 DEF TryStart
    <3>3. (IF appAsked[r].op = "launch" THEN "dvt" ELSE "connect") \in UnderWay
      BY <1>12
    <3> HIDE DEF r
    <3> QED BY <1>11, <3>1, <3>2, <3>3
  <2> QED BY <2>1, <2>2
<1> QED BY <1>9, <1>13, <1>14

\* Every step of a launch or stop.
LEMMA ControlKeeps ==
    ASSUME AppInv, NEW r \in AppAsks, NEW ok \in BOOLEAN,
           DvtConnects(r, ok) \/ ControlConnects(r, ok) \/ ResolveApp(r, ok) \/ KillApp(r, ok) \/ VerifyStopped(r, ok)
    PROVE  AppInv'
<1>1. CASE DvtConnects(r, ok)
  <2>1. PICK s \in {"dvt launch", "connect"} : Controlled(r, s)
    BY <1>1 DEF DvtConnects
  <2>2. controls[r] \in UnderWay /\ s \in UnderWay /\ UNCHANGED <<appQueue, control, appCaller, launched>>
    BY <1>1 DEF DvtConnects, UnderWay, controlUnchanged
  <2> QED BY <2>1, <2>2, MovesOn
<1>2. CASE ControlConnects(r, ok)
  <2>1. controls[r] \in UnderWay /\ UNCHANGED <<appQueue, launched>>
    BY <1>2 DEF ControlConnects, UnderWay, controlUnchanged
  <2>2. CASE ok
    <3>1. PICK s \in {"launch", "resolve"} : Controlled(r, s)
      BY <1>2, <2>2 DEF ControlConnects
    <3>2. s \in UnderWay /\ UNCHANGED <<control, appCaller>>
      BY <1>2, <2>2 DEF ControlConnects, UnderWay
    <3> QED BY <2>1, <3>1, <3>2, MovesOn
  <2>3. CASE ~ok
    <3>1. ControlEnds(r, "err")
      BY <1>2, <2>3 DEF ControlConnects
    <3> QED BY <2>1, <3>1, EndsControl
  <2> QED BY <2>2, <2>3
<1>3. CASE ResolveApp(r, ok)
  <2>1. controls[r] \in UnderWay /\ UNCHANGED <<appQueue, launched>>
    BY <1>3 DEF ResolveApp, UnderWay, controlUnchanged
  <2>2. CASE ok /\ appAsked[r].on \in runningApps
    <3>1. Controlled(r, "signal") /\ UNCHANGED <<control, appCaller>> /\ "signal" \in UnderWay
      BY <1>3, <2>2 DEF ResolveApp, UnderWay
    <3> QED BY <2>1, <3>1, MovesOn
  <2>3. CASE ~(ok /\ appAsked[r].on \in runningApps)
    <3>1. PICK a \in {"ok", "err"} : ControlEnds(r, a)
      BY <1>3, <2>3 DEF ResolveApp
    <3> QED BY <2>1, <3>1, EndsControl
  <2> QED BY <2>2, <2>3
<1>4. CASE KillApp(r, ok)
  <2>1. /\ controls[r] \in UnderWay /\ "verify" \in UnderWay
        /\ Controlled(r, "verify") /\ UNCHANGED <<appQueue, control, appCaller, launched>>
    BY <1>4 DEF KillApp, UnderWay, controlUnchanged
  <2> QED BY <2>1, MovesOn
<1>5. CASE VerifyStopped(r, ok)
  <2>1. controls[r] \in UnderWay /\ UNCHANGED <<appQueue, launched>>
    BY <1>5 DEF VerifyStopped, UnderWay, controlUnchanged
  <2>2. PICK a \in {"ok", "err"} : ControlEnds(r, a)
    BY <1>5 DEF VerifyStopped
  <2> QED BY <2>1, <2>2, EndsControl
<1> QED BY <1>1, <1>2, <1>3, <1>4, <1>5

\* A launch is attempted once, and its request ends with the attempt.
LEMMA LaunchKeeps ==
    ASSUME AppInv, NEW r \in AppAsks, NEW a \in {"ok", "err"}, LaunchApp(r, a)
    PROVE  AppInv'
<1>1. controls[r] \in UnderWay /\ ControlEnds(r, a) /\ UNCHANGED appQueue
  BY DEF LaunchApp, UnderWay, AfterAttempt, controlUnchanged
<1>2. launched' = launched \/ launched' = [launched EXCEPT ![r] = @ + 1]
  BY DEF LaunchApp, DeviceLaunches
<1> QED BY <1>1, <1>2, EndsControl

\* What the list command does disturbs nothing but its caller's answer.
LEMMA ListKeeps ==
    ASSUME AppInv, ListsAsked,
           (\E ok \in BOOLEAN : ListApps(ok)) \/ (\E got \in SUBSET {"service", "proxy"} : ReconnectClients(got))
    PROVE  AppInv'
<1>1. listing.step # "none"
  BY DEF ListApps, ReconnectClients
<1>2. listing.id \in AppAsks
  BY <1>1 DEF ListsAsked, NotListing
<1>3. UNCHANGED <<appQueue, control, controls, launched>>
  BY DEF ListApps, ReconnectClients
<1>4. UNCHANGED appCaller \/ \E a \in {"ok", "err"} : TellApp(listing.id, a)
  BY DEF ListApps, ReconnectClients, ListEnds
<1>5. CASE UNCHANGED appCaller
  BY <1>3, <1>5, Elsewhere DEF AppInv, AppType
<1>6. CASE \E a \in {"ok", "err"} : TellApp(listing.id, a)
  BY <1>2, <1>3, <1>6, AskAnswered, Elsewhere DEF AppInv
<1> QED BY <1>4, <1>5, <1>6

\* A list is taken from the queue, and keeps its request until it ends.
LEMMA ListedKeeps == ASSUME AppInv, ListsAsked, [AppNext]_appVars PROVE ListsAsked'
<1>1. CASE TakeApp
  <2>1. Head(appQueue) \in AppAsks
    <3>1. appQueue \in Seq(AppAsks) /\ appQueue # <<>>
      BY <1>1 DEF AppInv, AppType, TakeApp
    <3> QED BY <3>1
  <2>2. listing' \in {listing, NotListing, [id |-> Head(appQueue), step |-> "first"]}
    BY <1>1 DEF TakeApp
  <2> QED BY <2>1, <2>2 DEF ListsAsked
<1>2. CASE \E ok \in BOOLEAN : ListApps(ok)
  <2>1. listing.step # "none" /\ listing' \in {NotListing, [listing EXCEPT !.step = "reconnect"]}
    BY <1>2 DEF ListApps, ListEnds
  <2> QED BY <2>1 DEF ListsAsked, NotListing
<1>3. CASE \E got \in SUBSET {"service", "proxy"} : ReconnectClients(got)
  <2>1. listing.step # "none" /\ listing' \in {NotListing, [listing EXCEPT !.step = "retry"]}
    BY <1>3 DEF ReconnectClients, ListEnds
  <2> QED BY <2>1 DEF ListsAsked, NotListing
<1>4. CASE UNCHANGED listing
  BY <1>4 DEF ListsAsked
<1> QED BY <1>1, <1>2, <1>3, <1>4 DEF AppNext, appVars, AskApp, AppCallerLeaves, DvtConnects, ControlConnects,
          ResolveApp, KillApp, VerifyStopped, LaunchApp, UserTouches, controlUnchanged

\* Every step preserves the invariant.
LEMMA AppStep == ASSUME AppInv, ListsAsked, [AppNext]_appVars PROVE AppInv'
<1>1. ASSUME NEW r \in AppAsks, NEW cmd \in AppCommands, AskApp(r, cmd) PROVE AppInv'
  BY <1>1, AskKeeps
<1>2. ASSUME NEW r \in AppAsks, AppCallerLeaves(r) PROVE AppInv'
  <2>1. UNCHANGED <<appQueue, control, controls, launched>>
    BY <1>2 DEF AppCallerLeaves
  <2>2. /\ appCaller' \in [AppAsks -> {"new", "waiting", "gone", "ok", "err"}]
        /\ \A q \in AppAsks : appCaller'[q] = "new" <=> appCaller[q] = "new"
    BY <1>2 DEF AppCallerLeaves, AppInv, AppType
  <2> QED BY <2>1, <2>2, Elsewhere
<1>3. ASSUME NEW r \in AppAsks, NEW ok \in BOOLEAN,
             DvtConnects(r, ok) \/ ControlConnects(r, ok) \/ ResolveApp(r, ok) \/ KillApp(r, ok) \/ VerifyStopped(r, ok)
      PROVE  AppInv'
  BY <1>3, ControlKeeps
<1>4. ASSUME NEW r \in AppAsks, NEW a \in {"ok", "err"}, LaunchApp(r, a) PROVE AppInv'
  BY <1>4, LaunchKeeps
<1>5. CASE TakeApp
  BY <1>5, TakeKeeps
<1>6. CASE (\E ok \in BOOLEAN : ListApps(ok)) \/ (\E got \in SUBSET {"service", "proxy"} : ReconnectClients(got))
  BY <1>6, ListKeeps
<1>7. CASE (\E b \in Bundles : UserTouches(b)) \/ UNCHANGED appVars
  <2>1. UNCHANGED <<appQueue, control, appCaller, controls, launched>>
    BY <1>7 DEF UserTouches, controlUnchanged, appVars
  <2>2. appCaller \in [AppAsks -> {"new", "waiting", "gone", "ok", "err"}]
    BY DEF AppInv, AppType
  <2> QED BY <2>1, <2>2, Elsewhere
<1> QED BY <1>1, <1>2, <1>3, <1>4, <1>5, <1>6, <1>7 DEF AppNext

\* The invariant gives the property: what is neither new nor done is under way.
LEMMA AppInvSuffices == ASSUME AppInv PROVE ControlledOnce
<1> DEFINE Busy == {r \in AppAsks : controls[r] \notin {"none", "done"}}
<1>1. \A r \in AppAsks : launched[r] <= 1
  BY DEF AppInv, AppType, LaunchedLast
<1>2. \A r \in AppAsks : r \in Busy <=> controls[r] \in UnderWay
  BY DEF AppInv, AppType, UnderWay
<1>3. CASE control
  <2>1. PICK r \in AppAsks : controls[r] \in UnderWay
    BY <1>3 DEF AppInv, SlotHeld
  <2>2. Busy = {r}
    BY <1>2, <2>1 DEF AppInv, SlotHeld
  <2>3. Cardinality(Busy) = 1
    BY <2>2, FS_Singleton
  <2> QED BY <1>1, <1>3, <2>3 DEF ControlledOnce
<1>4. CASE ~control
  <2>1. Busy = {}
    BY <1>2, <1>4 DEF AppInv, SlotHeld
  <2>2. Cardinality(Busy) = 0
    BY <2>1, FS_EmptySet
  <2> QED BY <1>1, <1>4, <2>2 DEF ControlledOnce
<1> QED BY <1>3, <1>4

\* A launch or stop (applications/manager.rs, AppControlSlot) has the device
\* to itself, and a launch is carried out at most once, whatever the number
\* of requests, of applications and of clients that failed.
THEOREM ControlIsOnce == AppSpec => []ControlledOnce
<1>1. AppInit => AppInv /\ ListsAsked
  BY AppInitially DEF AppInit, ListsAsked
<1>2. AppInv /\ ListsAsked /\ [AppNext]_appVars => AppInv' /\ ListsAsked'
  BY AppStep, ListedKeeps
<1>3. AppInv => ControlledOnce
  BY AppInvSuffices
<1> QED BY <1>1, <1>2, <1>3, PTL DEF AppSpec

(***************************************************************************)
(* ImageCatalog and ImageMount.  A managed image set that can be chosen is *)
(* complete on disk unless its removal was begun, for any number of sets,  *)
(* requests and crashes; and the status of a mount is settled when the     *)
(* mount is.                                                               *)
(***************************************************************************)

CatalogSpec == CatalogInit /\ [][CatalogNext(Callers)]_catalogVars

Works == [op : {"none", "refresh", "import", "remove"}, set : ImageSets \cup {NoSet},
          at : {"none", "scan", "publish", "written", "deleting"},
          todo : SUBSET ImageSets, seen : SUBSET ImageSets, custom : SUBSET CustomSets]

CatalogType ==
    /\ disk \in [ImageSets -> SUBSET Files] /\ roots \in SUBSET CustomSets
    /\ work \in [Callers -> Works]

\* A set that was seen may have begun to go since, and no other way is there
\* for its files to go.
Dependable(s) == Complete(s) \/ s \in removing

\* What requests know of the disk.
ScansKnow(c) ==
    /\ \A s \in work[c].seen : Dependable(s)
    /\ work[c].at \in {"written", "deleting"} => work[c].set \in ImageSets
    /\ work[c].at = "deleting" => work[c].set \in removing

IndexSound == \A s \in DOMAIN index : index[s] = "managed" => s \in ImageSets /\ Dependable(s)

CatalogInv == CatalogType /\ IndexSound /\ \A c \in Callers : ScansKnow(c)

\* A scan publishes as managed what it saw, and only that.
LEMMA IndexedManaged ==
    ASSUME NEW managed \in SUBSET ImageSets, NEW custom \in SUBSET CustomSets
    PROVE  \A s \in DOMAIN Indexed(managed, custom) : Indexed(managed, custom)[s] = "managed" => s \in managed
BY DEF Indexed

LEMMA FreeWorks == Free \in Works /\ Free.at = "none" /\ Free.seen = {}
BY DEF Free, Works

LEMMA CatalogInitially == CatalogInit => CatalogInv
<1> SUFFICES ASSUME CatalogInit PROVE CatalogInv
  OBVIOUS
<1>1. CatalogType
  BY FreeWorks DEF CatalogInit, CatalogType
<1>2. IndexSound
  <2>1. ScanCustomSets(roots) \in SUBSET CustomSets
    BY DEF CatalogInit, ScanCustomSets
  <2>2. \A s \in DOMAIN index : index[s] = "managed" => s \in {}
    BY <2>1, IndexedManaged DEF CatalogInit
  <2> QED BY <2>2 DEF IndexSound
<1>3. ASSUME NEW c \in Callers PROVE ScansKnow(c)
  BY FreeWorks DEF CatalogInit, ScansKnow
<1> QED BY <1>1, <1>2, <1>3 DEF CatalogInv

\* Sets stay sound: a request that publishes or forgets what it saw, or sees a
\* complete set, keeps the invariant.
LEMMA Stays ==
    ASSUME CatalogInv, CatalogType', \A s \in ImageSets : Dependable(s) => Dependable(s)',
           index' = index \/ IndexSound',
           \A c \in Callers :
              \/ work'[c] = work[c] /\ (work[c].at = "deleting" => work[c].set \in removing')
              \/ ScansKnow(c)'
    PROVE  CatalogInv'
<1>1. IndexSound'
  BY DEF CatalogInv, IndexSound
<1>2. ASSUME NEW c \in Callers PROVE ScansKnow(c)'
  <2>1. \A s \in work[c].seen : s \in ImageSets
    BY DEF CatalogInv, CatalogType, Works
  <2> QED BY <2>1 DEF CatalogInv, ScansKnow
<1> QED BY <1>1, <1>2 DEF CatalogInv

\* A request moves on, and nothing else does.
LEMMA WorksOn ==
    ASSUME CatalogInv, NEW c \in Callers, NEW w \in Works, work' = [work EXCEPT ![c] = w],
           UNCHANGED <<disk, removing>>, index' = index \/ IndexSound', roots' \in SUBSET CustomSets,
           \A s \in w.seen : Dependable(s), w.at \in {"written", "deleting"} => w.set \in ImageSets,
           w.at = "deleting" => w.set \in removing
    PROVE  CatalogInv'
<1>1. \A s \in ImageSets : Dependable(s)' = Dependable(s)
  BY DEF Dependable, Complete
<1>2. CatalogType'
  BY DEF CatalogInv, CatalogType
<1>3. work'[c] = w /\ \A b \in Callers : b # c => work'[b] = work[b]
  BY DEF CatalogInv, CatalogType
<1>4. ScansKnow(c)'
  <2>1. \A s \in w.seen : s \in ImageSets
    BY DEF Works
  <2> QED BY <1>1, <1>3, <2>1 DEF ScansKnow
<1>5. \A b \in Callers : work[b].at = "deleting" => work[b].set \in removing'
  BY DEF CatalogInv, ScansKnow
<1> QED BY <1>1, <1>2, <1>3, <1>4, <1>5, Stays

\* A scan begins with nothing seen; the request that ends has seen nothing.
LEMMA Begins ==
    ASSUME NEW c \in Callers, CatalogType
    PROVE  /\ \E w \in Works : BeginScan(c) = [work EXCEPT ![c] = w] /\ w.at = "scan" /\ w.seen = {}
           /\ End(c) = [work EXCEPT ![c] = Free]
<1> DEFINE w == [work[c] EXCEPT !.at = "scan", !.todo = ImageSets, !.seen = {}]
<1>1. work[c] \in Works /\ work \in [Callers -> Works]
  BY DEF CatalogType
<1>2. w \in Works /\ w.at = "scan" /\ w.seen = {}
  BY <1>1 DEF Works
<1>3. BeginScan(c) = [work EXCEPT ![c] = w]
  BY <1>1 DEF BeginScan
<1> QED BY <1>2, <1>3 DEF End

LEMMA ScansKeep ==
    ASSUME CatalogInv, NEW c \in Callers,
           \/ RefreshImages(c) \/ \E dirs \in SUBSET CustomSets : SetCustomRoots(c, dirs)
           \/ ScanForeign(c) \/ PublishIndex(c) \/ \E s \in ImageSets : ScanManagedSet(c, s)
    PROVE  CatalogInv'
<1>0. /\ work[c] \in Works /\ work \in [Callers -> Works] /\ roots \in SUBSET CustomSets
      /\ \A s \in work[c].seen : Dependable(s)
  BY DEF CatalogInv, CatalogType, ScansKnow
<1>1. CASE RefreshImages(c) \/ \E dirs \in SUBSET CustomSets : SetCustomRoots(c, dirs)
  <2>1. PICK w \in Works : BeginScan(c) = [work EXCEPT ![c] = w] /\ w.at = "scan" /\ w.seen = {}
    BY Begins DEF CatalogInv
  <2> DEFINE v == [w EXCEPT !.op = "refresh"]
  <2>2. v \in Works /\ v.at = "scan" /\ v.seen = {}
    BY <2>1 DEF Works
  <2>3. work' = [work EXCEPT ![c] = v]
    <3>1. work' = [BeginScan(c) EXCEPT ![c].op = "refresh"]
      BY <1>1 DEF RefreshImages, SetCustomRoots
    <3> QED BY <1>0, <2>1, <3>1
  <2>4. UNCHANGED <<disk, removing, index>> /\ roots' \in SUBSET CustomSets
    BY <1>0, <1>1 DEF RefreshImages, SetCustomRoots
  <2> HIDE DEF v
  <2> QED BY <2>2, <2>3, <2>4, WorksOn
<1>2. CASE ScanForeign(c)
  <2> DEFINE w == [work[c] EXCEPT !.at = "publish", !.custom = ScanCustomSets(roots)]
  <2>1. ScanCustomSets(roots) \in SUBSET CustomSets
    BY <1>0 DEF ScanCustomSets
  <2>2. w \in Works /\ w.at = "publish" /\ w.seen = work[c].seen
    BY <1>0, <2>1 DEF Works
  <2>3. work' = [work EXCEPT ![c] = w] /\ UNCHANGED <<disk, removing, index, roots>>
    BY <1>0, <1>2 DEF ScanForeign
  <2> HIDE DEF w
  <2> QED BY <1>0, <2>2, <2>3, WorksOn
<1>3. CASE PublishIndex(c)
  <2>1. /\ index' = Indexed(work[c].seen, work[c].custom) /\ work' = [work EXCEPT ![c] = Free]
        /\ UNCHANGED <<disk, removing, roots>>
    BY <1>3, Begins DEF PublishIndex, CatalogInv
  <2>2. work[c].seen \in SUBSET ImageSets /\ work[c].custom \in SUBSET CustomSets
    BY <1>0 DEF Works
  <2>3. \A s \in DOMAIN index' : index'[s] = "managed" => s \in work[c].seen
    BY <2>1, <2>2, IndexedManaged
  <2>4. \A s \in work[c].seen : Dependable(s)'
    BY <1>0, <2>1 DEF Dependable, Complete
  <2>5. IndexSound'
    BY <2>2, <2>3, <2>4 DEF IndexSound
  <2> QED BY <1>0, <2>1, <2>5, FreeWorks, WorksOn
<1>4. ASSUME NEW s \in ImageSets, ScanManagedSet(c, s) PROVE CatalogInv'
  <2> DEFINE saw == IF Complete(s) THEN work[c].seen \cup {s} ELSE work[c].seen
             w == [work[c] EXCEPT !.todo = @ \ {s}, !.seen = saw]
  <2>1. saw \in SUBSET ImageSets /\ \A t \in saw : Dependable(t)
    BY <1>0 DEF Works, Dependable
  <2>2. work' = [work EXCEPT ![c] = w] /\ UNCHANGED <<disk, removing, index, roots>> /\ work[c].at = "scan"
    BY <1>0, <1>4 DEF ScanManagedSet
  <2> HIDE DEF saw
  <2>3. w \in Works /\ w.at = "scan" /\ w.seen = saw
    BY <1>0, <2>1, <2>2 DEF Works
  <2> HIDE DEF w
  <2> QED BY <1>0, <2>1, <2>2, <2>3, WorksOn
<1> QED BY <1>1, <1>2, <1>3, <1>4

\* An import makes its set complete at once, or changes nothing.
LEMMA ImportsKeep ==
    ASSUME CatalogInv, NEW c \in Callers,
           CommitImport(c) \/ \E s \in ImageSets, upload \in Uploads : ImportSet(c, s, upload)
    PROVE  CatalogInv'
<1>0. /\ work[c] \in Works /\ work \in [Callers -> Works] /\ roots \in SUBSET CustomSets
      /\ disk \in [ImageSets -> SUBSET Files]
  BY DEF CatalogInv, CatalogType
<1>1. ASSUME NEW s \in ImageSets, NEW upload \in Uploads, ImportSet(c, s, upload) PROVE CatalogInv'
  <2> DEFINE w == [Free EXCEPT !.op = "import", !.set = s, !.at = "written"]
  <2>1. w \in Works /\ w.at = "written" /\ w.set = s /\ w.seen = {}
    BY FreeWorks DEF Works
  <2>2. work' = [work EXCEPT ![c] = w] /\ UNCHANGED <<disk, removing, index, roots>>
    BY <1>1 DEF ImportSet
  <2> HIDE DEF w
  <2> QED BY <1>0, <2>1, <2>2, WorksOn
<1>2. CASE CommitImport(c)
  <2>1. CASE work' = End(c) /\ UNCHANGED <<disk, removing, index, roots>>
    <3>1. work' = [work EXCEPT ![c] = Free]
      BY <2>1 DEF End
    <3> QED BY <1>0, <2>1, <3>1, FreeWorks, WorksOn
  <2>2. CASE Committed(c, work[c].set) /\ UNCHANGED <<index, roots>>
    <3> DEFINE s == work[c].set
    <3>1. s \in ImageSets
      BY <1>2 DEF CommitImport, CatalogInv, ScansKnow
    <3>2. PICK w \in Works : BeginScan(c) = [work EXCEPT ![c] = w] /\ w.at = "scan" /\ w.seen = {}
      BY Begins DEF CatalogInv
    <3>3. /\ disk' = [disk EXCEPT ![s] = Parts(s) \cup {"metadata"}] /\ work' = [work EXCEPT ![c] = w]
          /\ removing' = IF Deleting(s) THEN removing ELSE removing \ {s}
      BY <2>2, <3>2 DEF Committed
    <3>4. Parts(s) \cup {"metadata"} \in SUBSET Files
      BY DEF Parts, Files
    <3> HIDE DEF s
    <3>5. CatalogType'
      BY <1>0, <2>2, <3>3, <3>4 DEF CatalogType
    <3>6. disk'[s] = Parts(s) \cup {"metadata"} /\ \A t \in ImageSets : t # s => disk'[t] = disk[t]
      BY <1>0, <3>1, <3>3
    <3>7. ASSUME NEW t \in ImageSets, Dependable(t) PROVE Dependable(t)'
      <4>1. CASE t = s
        BY <3>6, <4>1 DEF Dependable, Complete
      <4>2. CASE t # s
        BY <3>3, <3>6, <3>7, <4>2 DEF Dependable, Complete
      <4> QED BY <4>1, <4>2
    <3>8. work'[c] = w /\ \A b \in Callers : b # c => work'[b] = work[b]
      BY <1>0, <3>3
    <3>9. ScansKnow(c)'
      BY <3>2, <3>8 DEF ScansKnow
    <3>10. \A b \in Callers : work[b].at = "deleting" => work[b].set \in removing'
      BY <3>3 DEF CatalogInv, ScansKnow, Deleting
    <3> QED BY <2>2, <3>5, <3>7, <3>8, <3>9, <3>10, Stays
  <2> QED BY <1>2, <2>1, <2>2 DEF CommitImport
<1> QED BY <1>1, <1>2

\* Files go only of a set whose removal was begun.
LEMMA RemovalsKeep ==
    ASSUME CatalogInv, NEW c \in Callers,
           \/ \E s \in ImageSets : RemoveSet(c, s)
           \/ \E f \in Files : DeleteFile(c, f)
           \/ DeleteRest(c)
    PROVE  CatalogInv'
<1>0. /\ work[c] \in Works /\ work \in [Callers -> Works] /\ roots \in SUBSET CustomSets
      /\ disk \in [ImageSets -> SUBSET Files]
  BY DEF CatalogInv, CatalogType
<1>1. ASSUME NEW s \in ImageSets, RemoveSet(c, s) PROVE CatalogInv'
  <2> DEFINE w == [Free EXCEPT !.op = "remove", !.set = s, !.at = "deleting"]
  <2>1. w \in Works /\ w.at = "deleting" /\ w.set = s /\ w.seen = {}
    BY FreeWorks DEF Works
  <2>2. work' = [work EXCEPT ![c] = w] /\ UNCHANGED <<disk, index, roots>> /\ removing' = removing \cup {s}
    BY <1>1 DEF RemoveSet
  <2> HIDE DEF w
  <2>3. CatalogType'
    BY <1>0, <2>1, <2>2 DEF CatalogType
  <2>4. \A t \in ImageSets : Dependable(t) => Dependable(t)'
    BY <2>2 DEF Dependable, Complete
  <2>5. work'[c] = w /\ \A b \in Callers : b # c => work'[b] = work[b]
    BY <1>0, <2>2
  <2>6. ScansKnow(c)'
    BY <2>1, <2>2, <2>5 DEF ScansKnow
  <2>7. \A b \in Callers : work[b].at = "deleting" => work[b].set \in removing'
    BY <2>2 DEF CatalogInv, ScansKnow
  <2> QED BY <2>2, <2>3, <2>4, <2>5, <2>6, <2>7, Stays
<1>2. ASSUME work[c].at = "deleting", NEW files \in SUBSET Files, disk' = [disk EXCEPT ![work[c].set] = files],
             NEW w \in Works, work' = [work EXCEPT ![c] = w], w = work[c] \/ (w.at \in {"none", "scan"} /\ w.seen = {}),
             UNCHANGED <<index, roots, removing>>
      PROVE  CatalogInv'
  <2> DEFINE s == work[c].set
  <2>1. s \in ImageSets /\ s \in removing
    BY <1>2 DEF CatalogInv, ScansKnow
  <2>2. CatalogType'
    BY <1>0, <1>2 DEF CatalogType
  <2>3. \A t \in ImageSets : t # s => disk'[t] = disk[t]
    BY <1>0, <1>2
  <2>4. \A t \in ImageSets : Dependable(t) => Dependable(t)'
    BY <1>2, <2>1, <2>3 DEF Dependable, Complete
  <2>5. work'[c] = w /\ \A b \in Callers : b # c => work'[b] = work[b]
    BY <1>0, <1>2
  <2>6. \A b \in Callers : work[b].at = "deleting" => work[b].set \in removing'
    BY <1>2 DEF CatalogInv, ScansKnow
  <2>7. (w.at \in {"none", "scan"} /\ w.seen = {}) => ScansKnow(c)'
    BY <2>5 DEF ScansKnow
  <2> QED BY <1>2, <2>2, <2>4, <2>5, <2>6, <2>7, Stays
<1>3. ASSUME NEW f \in Files, DeleteFile(c, f) PROVE CatalogInv'
  <2>1. /\ work[c].at = "deleting" /\ UNCHANGED <<index, roots, removing, work>>
        /\ disk' = [disk EXCEPT ![work[c].set] = disk[work[c].set] \ {f}]
    BY <1>3 DEF DeleteFile
  <2>2. disk[work[c].set] \ {f} \in SUBSET Files
    BY <1>0, <2>1 DEF CatalogInv, ScansKnow
  <2>3. work' = [work EXCEPT ![c] = work[c]]
    BY <1>0, <2>1
  <2> QED BY <1>0, <1>2, <2>1, <2>2, <2>3
<1>4. CASE DeleteRest(c)
  <2>1. PICK w \in Works : BeginScan(c) = [work EXCEPT ![c] = w] /\ w.at = "scan" /\ w.seen = {}
    BY Begins DEF CatalogInv
  <2>2. work[c].at = "deleting" /\ UNCHANGED <<index, roots, removing>> /\ End(c) = [work EXCEPT ![c] = Free]
    BY <1>4, Begins DEF DeleteRest, CatalogInv
  <2>3. CASE disk' = [disk EXCEPT ![work[c].set] = {}] /\ work' \in {BeginScan(c), End(c)}
    <3>1. PICK v \in Works : work' = [work EXCEPT ![c] = v] /\ v.at \in {"none", "scan"} /\ v.seen = {}
      BY <2>1, <2>2, <2>3, FreeWorks
    <3> QED BY <1>2, <2>2, <2>3, <3>1
  <2>4. CASE work' = End(c) /\ UNCHANGED disk
    BY <1>0, <2>2, <2>4, FreeWorks, WorksOn
  <2> QED BY <1>4, <2>3, <2>4 DEF DeleteRest
<1> QED BY <1>1, <1>3, <1>4

\* A host that starts again finds what is on disk.
LEMMA CrashKeeps == ASSUME CatalogInv, CrashHost PROVE CatalogInv'
<1>1. /\ index' = Indexed({s \in ImageSets : Complete(s)}, ScanCustomSets(roots))
      /\ work' = [c \in Callers |-> Free] /\ UNCHANGED <<disk, roots, removing>>
  BY DEF CrashHost
<1>2. ScanCustomSets(roots) \in SUBSET CustomSets /\ {s \in ImageSets : Complete(s)} \in SUBSET ImageSets
  BY DEF ScanCustomSets, CatalogInv, CatalogType
<1>3. \A s \in DOMAIN index' : index'[s] = "managed" => s \in ImageSets /\ Complete(s)
  BY <1>1, <1>2, IndexedManaged
<1>4. \A s \in ImageSets : Dependable(s)' = Dependable(s)
  BY <1>1 DEF Dependable, Complete
<1>5. IndexSound'
  BY <1>3, <1>4 DEF IndexSound, Dependable
<1>6. CatalogType'
  BY <1>1, FreeWorks DEF CatalogInv, CatalogType
<1>7. ASSUME NEW c \in Callers PROVE ScansKnow(c)'
  BY <1>1, FreeWorks DEF ScansKnow
<1> QED BY <1>5, <1>6, <1>7 DEF CatalogInv

LEMMA CatalogStep == ASSUME CatalogInv, [CatalogNext(Callers)]_catalogVars PROVE CatalogInv'
<1>1. CASE UNCHANGED catalogVars
  BY <1>1 DEF catalogVars, CatalogInv, CatalogType, IndexSound, ScansKnow, Dependable, Complete
<1>2. CASE CrashHost
  BY <1>2, CrashKeeps
<1>3. ASSUME NEW c \in Callers,
             \/ RefreshImages(c) \/ \E dirs \in SUBSET CustomSets : SetCustomRoots(c, dirs)
             \/ ScanForeign(c) \/ PublishIndex(c) \/ \E s \in ImageSets : ScanManagedSet(c, s)
      PROVE  CatalogInv'
  BY <1>3, ScansKeep
<1>4. ASSUME NEW c \in Callers,
             CommitImport(c) \/ \E s \in ImageSets, upload \in Uploads : ImportSet(c, s, upload)
      PROVE  CatalogInv'
  BY <1>4, ImportsKeep
<1>5. ASSUME NEW c \in Callers,
             \/ \E s \in ImageSets : RemoveSet(c, s)
             \/ \E f \in Files : DeleteFile(c, f)
             \/ DeleteRest(c)
      PROVE  CatalogInv'
  BY <1>5, RemovalsKeep
<1> QED BY <1>1, <1>2, <1>3, <1>4, <1>5 DEF CatalogNext

\* A managed set of the index is complete or its removal was begun
\* (developer_image.rs: import_sync, remove, refresh_sync), for any number of
\* concurrent refreshes, imports and removals and any number of crashes.
THEOREM CatalogSound == CatalogSpec => []IndexedComplete
<1>1. CatalogInv => IndexedComplete
  BY DEF CatalogInv, IndexSound, Dependable, IndexedComplete
<1> QED BY <1>1, CatalogInitially, CatalogStep, PTL DEF CatalogSpec

-----------------------------------------------------------------------------
(***************************************************************************)
(* ImageMount.  A task exists only while its service runs, and a task that *)
(* outlived its service was left behind: as long as there is none, nobody  *)
(* else writes the status that a cancel or an end has settled.             *)
(***************************************************************************)
MountInv ==
    /\ ~leaked => detached = NoTask
    /\ mountTask = [at |-> mountTask.at, set |-> mountTask.set]
    /\ mountTask # NoTask => mountTask.at # "none" /\ mountService = "up"
    /\ StatusSettled

LEMMA MountStepFacts ==
    ASSUME NEW t, NEW r \in MountStep(t)
    PROVE  /\ r.at \in {"failed", "done", "load", "upload", "mounting"}
           /\ r.status \in {mountStatus, "mounted", "transferring", "mounting"}
<1>1. CASE r = Step("failed", mountStatus, mounted)
  BY <1>1 DEF Step
<1>2. CASE r # Step("failed", mountStatus, mounted) /\ t.at = "version"
  BY <1>2 DEF MountStep, Step
<1>3. CASE r # Step("failed", mountStatus, mounted) /\ t.at = "load"
  BY <1>3 DEF MountStep, Step, LoadStep
<1>4. CASE r # Step("failed", mountStatus, mounted) /\ t.at = "upload"
  BY <1>4 DEF MountStep, Step, UploadStep
<1>5. CASE r # Step("failed", mountStatus, mounted) /\ t.at \notin {"version", "load", "upload"}
  BY <1>5 DEF MountStep, Step
<1> QED BY <1>1, <1>2, <1>3, <1>4, <1>5

LEMMA MountStepKeeps == ASSUME MountInv, [ImageNext(Callers)]_imageVars PROVE MountInv'
<1>0. /\ (~leaked => detached = NoTask) /\ mountTask = [at |-> mountTask.at, set |-> mountTask.set]
      /\ (mountTask # NoTask => mountTask.at # "none" /\ mountService = "up") /\ StatusSettled
      /\ NoTask = [at |-> NoTask.at, set |-> NoTask.set]
  BY DEF MountInv, NoTask
<1>1. ASSUME UNCHANGED <<mountService, mountTask, detached, leaked, mountStatus, mountRecord, unmounting>> PROVE MountInv'
  BY <1>0, <1>1 DEF MountInv, StatusSettled
<1>2. ASSUME NEW s, SpawnMount(s)
      PROVE  /\ mountTask' = [at |-> mountTask'.at, set |-> mountTask'.set]
             /\ mountTask' # NoTask /\ mountTask'.at # "none" /\ mountStatus' = "validating" /\ mountRecord' = "running"
  BY <1>2 DEF SpawnMount, NoTask
<1>3. ASSUME NEW automatic \in BOOLEAN, StartMountService(automatic) PROVE MountInv'
  <2>1. mountService = "down" /\ mountService' = "up" /\ UNCHANGED <<detached, leaked, unmounting>>
    BY <1>3 DEF StartMountService
  <2>2. CASE UNCHANGED <<mountTask, mountRecord>> /\ mountStatus' \in {"idle", "mounted", "failed"}
    BY <1>0, <2>1, <2>2 DEF MountInv, StatusSettled, InProgress
  <2>3. CASE \E s \in Recommended : SpawnMount(s)
    BY <1>0, <1>2, <2>1, <2>3 DEF MountInv, StatusSettled
  <2> QED BY <1>3, <2>2, <2>3 DEF StartMountService
<1>4. ASSUME TakeStart PROVE MountInv'
  <2>1. mountService = "up" /\ UNCHANGED <<mountService, detached, leaked, unmounting>>
    BY <1>4 DEF TakeStart
  <2>2. CASE mountTask # NoTask
    BY <1>1, <1>4, <2>1, <2>2 DEF TakeStart
  <2>3. CASE mountTask = NoTask
    <3>1. SpawnMount(inbox.set)
      BY <1>4, <2>3 DEF TakeStart
    <3> QED BY <1>0, <1>2, <2>1, <3>1 DEF MountInv, StatusSettled
  <2> QED BY <2>2, <2>3
<1>5. ASSUME TakeStop \/ StopMountService PROVE MountInv'
  <2>1. mountService = "up" /\ unmounting' = unmounting
    BY <1>5 DEF TakeStop, StopMountService
  <2>2. CASE mountTask # NoTask
    <3>1. CancelMount
      BY <1>5, <2>2 DEF TakeStop, StopMountService
    <3> QED BY <1>0, <2>1, <3>1 DEF CancelMount, MountInv, StatusSettled, InProgress
  <2>3. CASE mountTask = NoTask
    <3>1. UNCHANGED <<mountTask, mountStatus, mountRecord, mounted, detached, leaked>>
      BY <1>5, <2>3 DEF TakeStop, StopMountService
    <3> QED BY <1>0, <2>1, <2>3, <3>1 DEF MountInv, StatusSettled
  <2> QED BY <2>2, <2>3
<1>6. ASSUME MountCompletes PROVE MountInv'
  BY <1>0, <1>6 DEF MountCompletes, MountInv, StatusSettled, InProgress
<1>7. ASSUME AbortMountService PROVE MountInv'
  BY <1>0, <1>7 DEF AbortMountService, MountInv, StatusSettled
<1>8. ASSUME TaskRuns PROVE MountInv'
  <2>1. mountTask # NoTask /\ UNCHANGED <<mountService, detached, leaked, mountRecord, unmounting>>
    BY <1>8 DEF TaskRuns, NoTask
  <2>2. PICK r \in MountStep(mountTask) : mountTask' = [mountTask EXCEPT !.at = r.at] /\ mountStatus' = r.status
    BY <1>8 DEF TaskRuns
  <2>3. /\ r.at \in {"failed", "done", "load", "upload", "mounting"}
        /\ r.status \in {mountStatus, "mounted", "transferring", "mounting"}
    BY <2>2, MountStepFacts
  <2>4. mountTask' = [at |-> r.at, set |-> mountTask.set]
    BY <1>0, <2>2
  <2>5. mountTask' = [at |-> mountTask'.at, set |-> mountTask'.set] /\ mountTask' # NoTask /\ mountTask'.at # "none"
    BY <2>3, <2>4 DEF NoTask
  <2> QED BY <1>0, <2>1, <2>2, <2>3, <2>5 DEF MountInv, StatusSettled
<1>9. ASSUME DetachedRuns PROVE MountInv'
  BY <1>0, <1>9 DEF DetachedRuns, MountInv, StatusSettled
<1>10. ASSUME AskUnmount \/ BeginUnmount \/ EndUnmount PROVE MountInv'
  BY <1>0, <1>10 DEF AskUnmount, BeginUnmount, EndUnmount, MountInv, StatusSettled, InProgress
<1>11. CASE \/ CatalogNext(Callers) /\ UNCHANGED mountVars
            \/ UNCHANGED imageVars
            \/ (\E s \in AllSets : AskMount(s)) \/ AskStop
  BY <1>1, <1>11 DEF mountVars, imageVars, AskMount, AskStop
<1> QED BY <1>3, <1>4, <1>5, <1>6, <1>7, <1>8, <1>9, <1>10, <1>11 DEF ImageNext

\* The status and the record of a mount agree, and nothing that is over is
\* shown as under way, unless a service was aborted with its task (mount.rs:
\* cancel awaits the aborted task before it writes).
THEOREM MountSettled == ImageSpec => []StatusSettled
<1>1. ImageInit => MountInv
  BY DEF ImageInit, MountInv, StatusSettled, NoTask, InProgress
<1>2. MountInv /\ [ImageNext(Callers)]_imageVars => MountInv'
  BY MountStepKeeps
<1>3. MountInv => StatusSettled
  BY DEF MountInv
<1> QED BY <1>1, <1>2, <1>3, PTL DEF ImageSpec

\* Mounting leaves the catalog of image sets to its own requests: every
\* behaviour of the whole is one of the catalog, which a mount only reads.
LEMMA MountsReadCatalog == ImageSpec => CatalogSpec
<1>1. ImageInit => CatalogInit
  BY DEF ImageInit
<1>2. [ImageNext(Callers)]_imageVars => [CatalogNext(Callers)]_catalogVars
  <2>1. SUFFICES ASSUME [ImageNext(Callers)]_imageVars PROVE CatalogNext(Callers) \/ UNCHANGED catalogVars
    OBVIOUS
  <2>2. CASE UNCHANGED imageVars
    BY <2>2 DEF imageVars, catalogVars
  <2>3. CASE \/ \E automatic \in BOOLEAN : StartMountService(automatic)
             \/ \E s \in AllSets : AskMount(s)
             \/ AskStop \/ TakeStart \/ TakeStop \/ MountCompletes \/ StopMountService \/ AbortMountService
             \/ TaskRuns \/ DetachedRuns \/ AskUnmount \/ BeginUnmount \/ EndUnmount
    BY <2>3 DEF StartMountService, AskMount, AskStop, TakeStart, TakeStop, MountCompletes, StopMountService,
                AbortMountService, TaskRuns, DetachedRuns, AskUnmount, BeginUnmount, EndUnmount
  <2> QED BY <2>1, <2>2, <2>3 DEF ImageNext
<1> QED BY <1>1, <1>2, PTL DEF ImageSpec, CatalogSpec

\* So what a service or a caller chooses to mount from the index is complete on
\* disk, or its removal was begun, whatever mounts, stops and unmounts go on.
THEOREM MountsFindComplete == ImageSpec => []IndexedComplete
BY MountsReadCatalog, CatalogSound, PTL

==============================================================================
