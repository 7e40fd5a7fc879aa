---------------------------- MODULE MediaRecovery ----------------------------
(***************************************************************************)
(* One connected session and how its video recovers: the setup and the end *)
(* of run_connected_session (session/runner.rs, media/negotiation.rs), the *)
(* task set of the media session (media/orchestrator.rs), ingestion as far *)
(* as recovery sees it (media/video_rtp.rs), the stall watchdog            *)
(* (media/watchdog.rs) and the RTCP tasks (media/rtcp.rs).                 *)
(*                                                                         *)
(* `corruption` is a tokio Notify: a permit, or nothing.  Key frame        *)
(* requests are datagrams that may be lost.                                *)
(***************************************************************************)
EXTENDS Naturals

CONSTANTS
    SilentWindows,   \* TRANSPORT_SILENT_WINDOWS
    MaxSetups,       \* bound: times the session is set up
    MaxDemands       \* bound: changes of the demand for video

ASSUME RecoveryAssumption == SilentWindows \in Nat \ {0} /\ MaxSetups \in Nat /\ MaxDemands \in Nat

VARIABLES
    runStage,     \* where run_connected_session stands
    setups,
    services,     \* are the session's services running?
    streams,      \* media streams the device was asked to start
    demanded,     \* Demand::enabled
    demands,
    sawDemand,  \* was_demanded of receive_video_rtp
    waitsIrap,    \* waiting_for_irap of the HEVC queue
    sized,        \* has the publisher seen a readable SPS?
    seen,         \* counters that moved since the watchdog's last snapshot
    silent,       \* silent_windows
    permit,       \* the permit of `corruption`
    resting,      \* the RTCP sender sleeps after a request
    ssrcKnown,    \* media_ssrc of RtcpShared
    request,      \* a key frame request on its way to the device
    irapDue       \* the device has a request to answer

runVars == <<runStage, setups, services, streams>>
demandVars == <<demanded, demands>>
ingestionVars == <<sawDemand, waitsIrap, sized>>
rtcpVars == <<resting, ssrcKnown, request, irapDue>>
recoveryVars == <<runStage, setups, services, streams, demanded, demands, sawDemand, waitsIrap, sized,
                  seen, silent, permit, resting, ssrcKnown, request, irapDue>>

\* What the tasks of a media session start with.
FreshTasks ==
    /\ sawDemand' = FALSE /\ waitsIrap' = FALSE /\ sized' = FALSE /\ seen' = {} /\ silent' = 0
    /\ permit' = FALSE /\ resting' = FALSE /\ ssrcKnown' = FALSE /\ request' = FALSE /\ irapDue' = FALSE

RecoveryInit ==
    /\ runStage = "down" /\ setups = 0 /\ services = FALSE /\ streams = {}
    /\ demanded \in BOOLEAN /\ demands = 0
    /\ sawDemand = FALSE /\ waitsIrap = FALSE /\ sized = FALSE /\ seen = {} /\ silent = 0
    /\ permit = FALSE /\ resting = FALSE /\ ssrcKnown = FALSE /\ request = FALSE /\ irapDue = FALSE

----------------------------------------------------------------------------
(* The session                                                             *)

taskVars == <<ingestionVars, seen, silent, permit, rtcpVars>>

\* Provider, management bootstrap and tunnel; then the services start.  An
\* error returns before anything runs.
ConnectSession ==
    /\ runStage = "down" /\ setups < MaxSetups /\ setups' = setups + 1
    /\ \/ runStage' = "negotiating" /\ services' = TRUE
       \/ UNCHANGED <<runStage, services>>
    /\ UNCHANGED <<streams, demandVars, taskVars>>

\* start_screen_media_stream: audio first, then video in the same session.
\* When either is refused the session goes on without a screen.
StartScreenMedia ==
    /\ runStage = "negotiating"
    /\ \/ runStage' = "hid" /\ streams' = {"audio", "video"}
       \/ runStage' = "managing" /\ streams' \in {{}, {"audio"}}
    /\ UNCHANGED <<setups, services, demandVars, taskVars>>

\* connect_device_input fails the session, which drops its services without
\* the ordered shutdown (ServiceSupervisor::drop aborts them); the clipboard,
\* the orientation watcher and the app service are optional.
ConnectInput ==
    /\ runStage = "hid"
    /\ \/ runStage' = "running" /\ UNCHANGED services
       \/ runStage' = "down" /\ services' = FALSE
    /\ FreshTasks /\ UNCHANGED <<setups, streams, demandVars>>

\* Any task of the set, or the command loop, ends: services, display service.
EndRun ==
    /\ runStage \in {"running", "managing"} /\ runStage' = "down" /\ services' = FALSE
    /\ streams' = IF runStage = "running" THEN {} ELSE streams
    /\ FreshTasks /\ UNCHANGED <<setups, demandVars>>

ChangeDemand ==
    /\ demands < MaxDemands /\ demands' = demands + 1 /\ demanded' = ~demanded
    /\ UNCHANGED <<runVars, taskVars>>

----------------------------------------------------------------------------
(* Ingestion                                                               *)

\* RTCP on the video socket or on its own (note_inbound).
ReceiveRtcp ==
    /\ runStage = "running" /\ seen' = seen \cup {"transport"}
    /\ ssrcKnown' \in {ssrcKnown, TRUE}
    /\ UNCHANGED <<runVars, demandVars, ingestionVars, silent, permit, resting, request, irapDue>>

\* The first packet after a change of the demand: force_resync, and a request
\* when the video is wanted again.
Noticed ==
    <<waitsIrap \/ demanded # sawDemand, permit \/ (demanded /\ ~sawDemand)>>

\* A whole access unit: a marker packet is a source frame; with demand the
\* unit is queued and published, or dropped while the queue waits.  A device
\* that was asked answers with a key frame.
ReceiveUnit(irap, readable, overflow) ==
    LET waits == Noticed[1] /\ ~irap
        kept == demanded /\ ~waits /\ ~overflow
    IN /\ runStage = "running" /\ (irapDue => irap)
       /\ overflow => demanded /\ ~waits /\ ~irap
       /\ irapDue' = FALSE /\ ssrcKnown' = TRUE /\ sawDemand' = demanded
       /\ waitsIrap' = IF demanded THEN waits \/ overflow ELSE Noticed[1]
       /\ sized' = (sized \/ (kept /\ irap /\ readable))
       /\ permit' = (Noticed[2] \/ overflow \/ (kept /\ irap /\ ~sized'))
       /\ seen' = seen \cup {"transport", "source"} \cup (IF kept /\ sized' THEN {"decoded"} ELSE {})
       /\ UNCHANGED <<runVars, demandVars, silent, resting, request>>

----------------------------------------------------------------------------
(* The watchdog and the RTCP sender                                        *)

Observation ==
    CASE "decoded" \in seen -> "Decoded"
      [] "decoded" \notin seen /\ "source" \in seen -> "SourceWithoutDecode"
      [] seen = {"transport"} -> "TransportOnly"
      [] OTHER -> "Silent"

MutantWatch ==
    /\ runStage = "running"
    /\ LET o == Observation
           full == o = "Silent" /\ silent + 1 >= SilentWindows
       IN /\ silent' = IF o = "Silent" /\ ~full THEN silent + 1 ELSE 0
          /\ permit' = (permit \/ full)
    /\ seen' = {}
    /\ UNCHANGED <<runVars, demandVars, ingestionVars, rtcpVars>>

\* One round of stall_watchdog.
Watch ==
    /\ runStage = "running"
    /\ LET o == Observation
           full == o = "Silent" /\ silent + 1 >= SilentWindows
       IN /\ silent' = IF o = "Silent" /\ ~full THEN silent + 1 ELSE 0
          /\ permit' = (permit \/ full \/ o = "SourceWithoutDecode")
    /\ seen' = {}
    /\ UNCHANGED <<runVars, demandVars, ingestionVars, rtcpVars>>

\* request_keyframe and forward_keyframe_requests: a browser asks.
BrowserAsks ==
    /\ runStage = "running" /\ demanded /\ permit' = TRUE
    /\ UNCHANGED <<runVars, demandVars, ingestionVars, seen, silent, rtcpVars>>

\* send_task takes the permit; without a known source there is nobody to ask.
SendKeyframeRequest ==
    /\ runStage = "running" /\ permit /\ ~resting
    /\ permit' = FALSE /\ resting' = TRUE /\ request' = (request \/ ssrcKnown)
    /\ UNCHANGED <<runVars, demandVars, ingestionVars, seen, silent, ssrcKnown, irapDue>>
\* KEYFRAME_DEBOUNCE is over.
Rested ==
    /\ resting /\ resting' = FALSE
    /\ UNCHANGED <<runVars, demandVars, ingestionVars, seen, silent, permit, ssrcKnown, request, irapDue>>

DeliverRequest ==
    /\ request /\ request' = FALSE /\ irapDue' = TRUE
    /\ UNCHANGED <<runVars, demandVars, ingestionVars, seen, silent, permit, resting, ssrcKnown>>
LoseRequest ==
    /\ request /\ request' = FALSE
    /\ UNCHANGED <<runVars, demandVars, ingestionVars, seen, silent, permit, resting, ssrcKnown, irapDue>>

----------------------------------------------------------------------------
RecoveryNext ==
    \/ ConnectSession \/ StartScreenMedia \/ ConnectInput \/ EndRun \/ ChangeDemand
    \/ ReceiveRtcp
    \/ \E irap, readable, overflow \in BOOLEAN : ReceiveUnit(irap, readable, overflow)
    \/ Watch \/ BrowserAsks \/ SendKeyframeRequest \/ Rested \/ DeliverRequest \/ LoseRequest

\* The tasks of a session run, a changing screen keeps sending units, the
\* network delivers one of infinitely many requests, and the answer to one of
\* them can be read.
RecoveryFairness ==
    /\ WF_recoveryVars(Watch /\ seen # {}) /\ WF_recoveryVars(SendKeyframeRequest) /\ WF_recoveryVars(Rested)
    /\ SF_recoveryVars(DeliverRequest)
    /\ WF_recoveryVars(\E irap, readable, overflow \in BOOLEAN : ReceiveUnit(irap, readable, overflow))
    /\ SF_recoveryVars(ReceiveUnit(TRUE, TRUE, FALSE) /\ irapDue)

RecoverySpec == RecoveryInit /\ [][RecoveryNext]_recoveryVars /\ RecoveryFairness

----------------------------------------------------------------------------
(* Properties                                                              *)

\* A queue that waits for a key frame while the video is wanted gets one: the
\* watchdog asks again whenever a request was lost.
WaitEnds ==
    (runStage = "running" /\ demanded /\ waitsIrap) ~> (runStage # "running" \/ ~demanded \/ ~waitsIrap)

=============================================================================
