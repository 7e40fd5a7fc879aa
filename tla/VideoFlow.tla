----------------------------- MODULE VideoFlow -----------------------------
(***************************************************************************)
(* One device's compressed video on its way to one browser: RTP ingestion  *)
(* and the HEVC queue (media/video_rtp.rs, media/session.rs), the          *)
(* publisher and its broadcast channel (media/browser_video.rs), the two   *)
(* halves of the media socket with their frame credits                     *)
(* (websocket/transport.rs, media/flow_control.rs) and the decoder in the  *)
(* page (browserVideo.ts).                                                 *)
(*                                                                         *)
(* A unit is an access unit as the assembler hands it over.  A delta unit  *)
(* can be decoded only right after its predecessor of the same stream.     *)
(* Six places may drop units, each unknown to the others.                  *)
(***************************************************************************)
EXTENDS Naturals, Sequences

CONSTANTS
    Sources,          \* SSRCs that send to the video port
    MaxUnits,         \* bound: units each source sends
    MaxStreams,       \* bound: media streams (begin_stream) of the session
    QueueLimit,       \* HEVC_QUEUE_MAX_BYTES, in units
    ChannelCapacity,  \* CHANNEL_CAPACITY of the broadcast
    MaxInFlight,      \* frame credits of the socket
    MaxPending        \* maxPendingPackets of the page

ASSUME VideoBoundsAssumption ==
    /\ {MaxUnits, MaxStreams, QueueLimit, ChannelCapacity, MaxInFlight, MaxPending} \subseteq Nat \ {0}
    /\ "none" \notin Sources  \* the value of lockedSsrc before a source is selected

Units == [stream: 1..MaxStreams, src: Sources, n: 1..MaxUnits, key: BOOLEAN]
NoUnit == [stream |-> 0]

\* Can u be decoded right after v?
Follows(u, v) == v # NoUnit /\ u.stream = v.stream /\ u.src = v.src /\ u.n = v.n + 1

VARIABLES
    \* receive_video_rtp and the HEVC queue
    made,         \* units each source sent
    lockedSsrc,   \* the selected source, or "none"
    wasDemanded,
    hevc,         \* queued units
    awaitsIrap,   \* waiting_for_irap
    \* publish_hevc_queue and BrowserVideoSlot
    dims,         \* are the dimensions known?
    stream,       \* generation
    sequence,     \* sequence number of the last published frame
    frames,       \* the socket's receiver of the broadcast
    framesLagged,
    \* the media socket
    video,        \* has the page asked for video?
    otherDemand,  \* does another consumer hold a demand lease?
    resync,       \* browser_resync
    observed,     \* browser_generation of the sending half
    sending,      \* the frame the sending half works on
    credits,      \* FramePacer.pending: sequence numbers, oldest first
    wire,         \* frames on their way to the page
    feedback,     \* messages on their way to the receiving half
    \* the page
    tracker,      \* BrowserVideoSequenceTracker
    pendingPackets,
    decoderWaits, \* waitingForKeyframe of the decoder
    fed           \* the unit the decoder was fed last, NoUnit after a reset

ingestVars == <<made, lockedSsrc, wasDemanded, hevc, awaitsIrap>>
publishVars == <<dims, stream, sequence>>
socketVars == <<video, otherDemand, resync, observed, sending, credits>>
pageVars == <<tracker, pendingPackets, decoderWaits, fed>>
videoVars == <<made, lockedSsrc, wasDemanded, hevc, awaitsIrap, dims, stream, sequence,
               frames, framesLagged, video, otherDemand, resync, observed, sending, credits,
               wire, feedback, tracker, pendingPackets, decoderWaits, fed>>

Frames == [seq: Nat, unit: Units]
NoFrame == [seq |-> 0]
Unsent == [step |-> "idle", frame |-> NoFrame, completes |-> FALSE]
NoTracker == [stream |-> 0, seq |-> 0, waits |-> FALSE]

VideoInit ==
    /\ made = [s \in Sources |-> 0] /\ lockedSsrc = "none" /\ wasDemanded = FALSE
    /\ hevc = <<>> /\ awaitsIrap = FALSE
    /\ dims = FALSE /\ stream = 1 /\ sequence = 0
    /\ frames = <<>> /\ framesLagged = FALSE
    /\ video = FALSE /\ otherDemand = FALSE /\ resync = TRUE /\ observed = 1
    /\ sending = Unsent /\ credits = <<>> /\ wire = <<>> /\ feedback = <<>>
    /\ tracker = NoTracker /\ pendingPackets = <<>> /\ decoderWaits = TRUE /\ fed = NoUnit

----------------------------------------------------------------------------
(* RTP ingestion                                                           *)

\* Demand::enabled, with the lease that synchronize_demand_lease keeps for
\* this socket.
Demanded == video \/ otherDemand

MutantPush(q, waits, u) ==
    IF waits /\ ~u.key THEN <<q, waits>>
    ELSE IF Len(q) + 1 > QueueLimit THEN <<<<u>>, FALSE>>
    ELSE <<Append(q, u), FALSE>>

\* HevcQueue::push on an open queue: <<access_units, waiting_for_irap>>.
Push(q, waits, u) ==
    IF waits /\ ~u.key THEN <<q, waits>>
    ELSE IF Len(q) + 1 > QueueLimit THEN <<IF u.key THEN <<u>> ELSE <<>>, ~u.key>>
    ELSE <<Append(q, u), FALSE>>

\* A unit of source s: the demand change it discovers, the choice of the SSRC
\* (another source takes over once the selected one is quiet), the push.
Receive(s, key) ==
    /\ made[s] < MaxUnits
    /\ made' = [made EXCEPT ![s] = @ + 1]
    /\ wasDemanded' = Demanded
    /\ \E takeover \in BOOLEAN :
         LET u == [stream |-> stream, src |-> s, n |-> made[s] + 1, key |-> key]
             foreign == lockedSsrc \notin {"none", s}
             forced == Demanded # wasDemanded \/ (foreign /\ takeover)
             q == IF forced THEN <<>> ELSE hevc
             waits == forced \/ awaitsIrap
             pushed == IF Demanded /\ ~(foreign /\ ~takeover) THEN Push(q, waits, u)
                       ELSE <<q, waits>>
         IN /\ takeover => foreign
            /\ lockedSsrc' = IF foreign /\ ~takeover THEN lockedSsrc ELSE s
            /\ hevc' = pushed[1] /\ awaitsIrap' = pushed[2]
    /\ UNCHANGED publishVars /\ UNCHANGED <<frames, framesLagged, wire, feedback>>
    /\ UNCHANGED socketVars /\ UNCHANGED pageVars

----------------------------------------------------------------------------
(* Publication                                                             *)

\* publish_hevc_queue: units before the first readable SPS are not published.
PublishUnit ==
    /\ hevc # <<>>
    /\ hevc' = Tail(hevc)
    /\ \E readable \in BOOLEAN :
         /\ dims' = (dims \/ readable)
         /\ IF dims \/ readable
            THEN /\ sequence' = sequence + 1
                 /\ LET f == [seq |-> sequence + 1, unit |-> Head(hevc)]
                    IN IF Len(frames) < ChannelCapacity
                       THEN frames' = Append(frames, f) /\ UNCHANGED framesLagged
                       ELSE frames' = Append(Tail(frames), f) /\ framesLagged' = TRUE
            ELSE UNCHANGED <<sequence, frames, framesLagged>>
    /\ UNCHANGED <<made, lockedSsrc, wasDemanded, awaitsIrap, stream, wire, feedback>>
    /\ UNCHANGED socketVars /\ UNCHANGED pageVars

\* The media session ended and the next attempt calls begin_stream: new queue,
\* new publisher, new senders; the broadcast channel stays.
BeginStream ==
    /\ stream < MaxStreams
    /\ stream' = stream + 1
    /\ lockedSsrc' = "none" /\ wasDemanded' = FALSE
    /\ hevc' = <<>> /\ awaitsIrap' = FALSE /\ dims' = FALSE
    /\ UNCHANGED <<made, sequence, frames, framesLagged, wire, feedback>>
    /\ UNCHANGED socketVars /\ UNCHANGED pageVars

----------------------------------------------------------------------------
(* The sending half of the socket                                          *)

\* Lagged: resynchronise and start again at the end of the channel.
TakeLagged ==
    /\ sending = Unsent /\ framesLagged
    /\ framesLagged' = FALSE /\ frames' = <<>> /\ resync' = TRUE
    /\ UNCHANGED ingestVars /\ UNCHANGED publishVars /\ UNCHANGED pageVars
    /\ UNCHANGED <<video, otherDemand, observed, sending, credits, wire, feedback>>

\* A frame: synchronize_browser_generation and the first half of
\* browser_frame_decision, which reads the shared resync flag.
TakeFrame ==
    /\ sending = Unsent /\ ~framesLagged /\ frames # <<>>
    /\ frames' = Tail(frames)
    /\ LET f == Head(frames)
           fresh == observed # f.unit.stream
       IN IF ~video THEN UNCHANGED <<observed, credits, resync, sending>>
          ELSE /\ observed' = f.unit.stream
               /\ credits' = IF fresh THEN <<>> ELSE credits
               /\ resync' = (fresh \/ resync)
               /\ sending' = IF resync' /\ ~f.unit.key THEN Unsent
                             ELSE [step |-> "chosen", frame |-> f, completes |-> resync']
    /\ UNCHANGED ingestVars /\ UNCHANGED publishVars /\ UNCHANGED pageVars
    /\ UNCHANGED <<framesLagged, video, otherDemand, wire, feedback>>

\* FramePacer::try_acquire: the oldest credits may have expired by now.
Acquire ==
    /\ sending.step = "chosen"
    /\ \E expired \in 0..Len(credits) :
         LET kept == SubSeq(credits, expired + 1, Len(credits))
         IN IF Len(kept) >= MaxInFlight
            THEN credits' = kept /\ resync' = TRUE /\ sending' = Unsent
            ELSE /\ credits' = Append(kept, sending.frame.seq)
                 /\ sending' = [sending EXCEPT !.step = "sending"]
                 /\ UNCHANGED resync
    /\ UNCHANGED ingestVars /\ UNCHANGED publishVars /\ UNCHANGED pageVars
    /\ UNCHANGED <<frames, framesLagged, video, otherDemand, observed, wire, feedback>>

\* The socket took the packet.
Sent ==
    /\ sending.step = "sending"
    /\ wire' = Append(wire, sending.frame)
    /\ sending' = IF sending.completes THEN [sending EXCEPT !.step = "sent"] ELSE Unsent
    /\ UNCHANGED ingestVars /\ UNCHANGED publishVars /\ UNCHANGED pageVars
    /\ UNCHANGED <<frames, framesLagged, video, otherDemand, resync, observed, credits, feedback>>

\* browser_resync.store(false), whatever the receiving half stored meanwhile.
CompleteResync ==
    /\ sending.step = "sent"
    /\ resync' = FALSE /\ sending' = Unsent
    /\ UNCHANGED ingestVars /\ UNCHANGED publishVars /\ UNCHANGED pageVars
    /\ UNCHANGED <<frames, framesLagged, video, otherDemand, observed, credits, wire, feedback>>

----------------------------------------------------------------------------
(* The receiving half of the socket                                        *)

\* ClientMessage::VideoDemand, then synchronize_demand_lease.
VideoDemand(active) ==
    /\ video' = active
    /\ resync' = (resync \/ (active /\ ~video))
    /\ credits' = IF video /\ ~active THEN <<>> ELSE credits

\* handle_client_message_with_keymap for the messages of the media channel.
TakeFeedback ==
    /\ feedback # <<>>
    /\ feedback' = Tail(feedback)
    /\ LET m == Head(feedback) IN
       \/ /\ m.type = "accepted"           \* FramePacer::release
          /\ credits' = SelectSeq(credits, LAMBDA c : c # m.seq)
          /\ UNCHANGED <<video, resync>>
       \/ /\ m.type = "keyframe"           \* BrowserVideoKeyframe, ResetBrowser
          /\ resync' = TRUE /\ credits' = <<>>
          /\ UNCHANGED video
       \/ m.type = "demand" /\ VideoDemand(m.active)
    /\ UNCHANGED ingestVars /\ UNCHANGED publishVars /\ UNCHANGED pageVars
    /\ UNCHANGED <<frames, framesLagged, otherDemand, observed, sending, wire>>

\* Another consumer of the session acquires or drops its lease.
OtherDemand ==
    /\ otherDemand' = ~otherDemand
    /\ UNCHANGED ingestVars /\ UNCHANGED publishVars /\ UNCHANGED pageVars
    /\ UNCHANGED <<frames, framesLagged, video, resync, observed, sending, credits, wire, feedback>>

----------------------------------------------------------------------------
(* The page                                                                *)

Message(type) == [type |-> type, seq |-> 0, active |-> FALSE]

\* BrowserVideoDecoder.resync and recover: pending packets of the old decoder
\* generation become no-ops (resync) or stay (recover).
Stale == [i \in DOMAIN pendingPackets |-> [pendingPackets[i] EXCEPT !.live = FALSE]]

\* BrowserVideoSequenceTracker.inspect.
Inspect(f) ==
    LET fresh == tracker.stream # f.unit.stream
        seq == IF fresh THEN 0 ELSE tracker.seq
        waits == (IF fresh THEN ~f.unit.key ELSE tracker.waits) /\ ~f.unit.key
        broken == ~waits /\ seq # 0 /\ f.seq # seq + 1 /\ ~f.unit.key
    IN [accept |-> ~waits /\ ~broken,
        reset |-> (fresh /\ tracker.stream # 0) \/ broken,
        next |-> IF waits \/ broken THEN [stream |-> f.unit.stream, seq |-> seq, waits |-> TRUE]
                 ELSE [stream |-> f.unit.stream, seq |-> f.seq, waits |-> FALSE]]

\* The message handler of the media transport.
PageReceives ==
    /\ wire # <<>>
    /\ wire' = Tail(wire)
    /\ LET f == Head(wire)
           d == Inspect(f)
           packets == IF d.reset THEN Stale ELSE pendingPackets
           full == Len(packets) >= MaxPending
           asks == IF d.reset THEN <<Message("keyframe")>> ELSE <<>>
       IN /\ tracker' = d.next
          /\ pendingPackets' =
                IF ~d.accept THEN packets
                ELSE IF full THEN [i \in DOMAIN packets |-> [packets[i] EXCEPT !.live = FALSE]]
                ELSE Append(packets, [frame |-> f, live |-> TRUE])
          /\ feedback' = feedback \o asks \o
                (IF ~d.accept THEN <<>>
                 ELSE IF full THEN <<Message("keyframe")>>
                 ELSE <<[Message("accepted") EXCEPT !.seq = f.seq]>>)
          /\ LET resets == d.reset \/ (d.accept /\ full)
             IN /\ decoderWaits' = (decoderWaits \/ resets)
                /\ fed' = IF resets THEN NoUnit ELSE fed
    /\ UNCHANGED ingestVars /\ UNCHANGED publishVars /\ UNCHANGED socketVars
    /\ UNCHANGED <<frames, framesLagged>>

\* BrowserVideoDecoder.decode: feed the decoder or ask for a key frame.
Decode ==
    /\ pendingPackets # <<>>
    /\ pendingPackets' = Tail(pendingPackets)
    /\ LET p == Head(pendingPackets) IN
       \/ /\ ~p.live
          /\ UNCHANGED <<decoderWaits, fed, feedback>>
       \/ /\ p.live /\ decoderWaits /\ ~p.frame.unit.key
          /\ feedback' = Append(feedback, Message("keyframe"))
          /\ UNCHANGED <<decoderWaits, fed>>
       \/ /\ p.live /\ (decoderWaits => p.frame.unit.key)
          /\ decoderWaits' = FALSE /\ fed' = p.frame.unit
          /\ UNCHANGED feedback
    /\ UNCHANGED ingestVars /\ UNCHANGED publishVars /\ UNCHANGED socketVars
    /\ UNCHANGED <<frames, framesLagged, wire, tracker>>

\* recover: an error or a timeout resets the decoder, not the pending packets.
DecoderFails ==
    /\ fed # NoUnit
    /\ decoderWaits' = TRUE /\ fed' = NoUnit
    /\ feedback' = Append(feedback, Message("keyframe"))
    /\ UNCHANGED ingestVars /\ UNCHANGED publishVars /\ UNCHANGED socketVars
    /\ UNCHANGED <<frames, framesLagged, wire, tracker, pendingPackets>>

\* The page shows or hides the device; one change under way at a time.
PageDemands(active) ==
    /\ \A i \in DOMAIN feedback : feedback[i].type # "demand"
    /\ active # video
    /\ feedback' = Append(feedback, [Message("demand") EXCEPT !.active = active])
    /\ UNCHANGED ingestVars /\ UNCHANGED publishVars /\ UNCHANGED socketVars /\ UNCHANGED pageVars
    /\ UNCHANGED <<frames, framesLagged, wire>>

----------------------------------------------------------------------------
VideoNext ==
    \/ \E s \in Sources, key \in BOOLEAN : Receive(s, key)
    \/ PublishUnit \/ BeginStream
    \/ TakeLagged \/ TakeFrame \/ Acquire \/ Sent \/ CompleteResync
    \/ TakeFeedback \/ OtherDemand
    \/ PageReceives \/ Decode \/ DecoderFails
    \/ \E active \in BOOLEAN : PageDemands(active)

VideoSpec == VideoInit /\ [][VideoNext]_videoVars
----------------------------------------------------------------------------
(* Properties                                                              *)

\* A decoder is fed a delta frame only right after the frame it depends on:
\* whatever the queue, the broadcast, the credits or the page dropped, the
\* stream resumes at a key frame (architecture: "waits for a keyframe after
\* resynchronization").
Decodable ==
    [][fed' # fed /\ fed' # NoUnit => fed'.key \/ Follows(fed', fed)]_videoVars

=============================================================================
