----------------------------- MODULE Performance ----------------------------
(***************************************************************************)
(* The supervised sources of a device session that run on demand: the five *)
(* performance samplers and the log stream.  Demand is an explicit switch  *)
(* and leases; a source connects while it is demanded, starts sampling on  *)
(* the device, and stops it when the demand or the session ends.           *)
(* `source` is the one a behaviour is about.                               *)
(***************************************************************************)
EXTENDS Naturals, FiniteSets

CONSTANTS
    Viewers,      \* MCP calls that lease a source
    Pids,         \* processes
    MaxTargets,   \* MAX_ENERGY_PROCESSES
    Flows,        \* network connections
    MaxFlows,     \* MAX_CONNECTIONS
    MaxMoved,     \* bound: bytes moved
    MaxRounds,    \* bound: connections of the source
    MaxSamples    \* bound: samples taken

ASSUME PerformanceAssumption ==
    {MaxTargets, MaxFlows, MaxMoved, MaxRounds, MaxSamples} \subseteq Nat

PerformanceSources == {"system", "graphics", "network", "activity", "energy", "logs"}
Unseen == [seen |-> FALSE, sized |-> FALSE, bytes |-> 0]

VARIABLES
    source,
    explicit, leases,  \* Demand: the switch, and who holds a lease
    phase,             \* "off", "connecting", "streaming", "backoff" or "gone"
    rounds,            \* connections so far
    fell,              \* logs: has the unified stream given way to syslog?
    sampled,           \* what the source believes the device samples for it
    onDevice,          \* what the device samples
    lost,              \* what it may sample because a call or a stream failed
    top,               \* top_processes of the snapshot
    captured, samples, \* captured_at_ms, 0 when reset; the clock
    viewer,            \* viewer[v]: a performance_snapshot call
    flows,             \* NetworkAccumulator.connections
    window, counted,   \* bytes of the window, and of all samples before it
    real, moved        \* bytes of each connection, and of all

demandedVars == <<explicit, leases>>
sourceVars == <<phase, rounds, fell, sampled, onDevice, lost>>
sampleVars == <<top, captured, samples, viewer>>
networkVars == <<flows, window, counted, real, moved>>
performanceVars == <<source, demandedVars, sourceVars, sampleVars, networkVars>>

IdleViewer == [at |-> "idle", baseline |-> 0, since |-> 0, fresh |-> FALSE]

PerformanceInit ==
    /\ source \in PerformanceSources
    /\ explicit = FALSE /\ leases = {}
    /\ phase = "off" /\ rounds = 0 /\ fell = FALSE /\ sampled = {} /\ onDevice = {} /\ lost = {}
    /\ top = {} /\ captured = 0 /\ samples = 0 /\ viewer = [v \in Viewers |-> IdleViewer]
    /\ flows = [c \in Flows |-> Unseen] /\ window = 0 /\ counted = 0
    /\ real = [c \in Flows |-> 0] /\ moved = 0

----------------------------------------------------------------------------
(* Demand.                                                                 *)

Wanted == explicit \/ leases # {}

\* start_performance_sampling and stop_performance_sampling also reset the
\* snapshot, start_device_logs and stop_device_logs do not.
SetDemand(enabled) ==
    /\ explicit' = enabled
    /\ IF source = "logs" THEN UNCHANGED <<top, captured>> ELSE top' = {} /\ captured' = 0
    /\ UNCHANGED <<source, leases, sourceVars, samples, viewer, networkVars>>

\* performance_snapshot, recent_device_logs: a lease while the call waits.
AcquireSource(v) ==
    /\ viewer[v].at = "idle"
    /\ leases' = leases \cup {v}
    /\ viewer' = [viewer EXCEPT ![v] = [at |-> "waiting", baseline |-> captured, since |-> samples, fresh |-> FALSE]]
    /\ UNCHANGED <<source, explicit, sourceVars, top, captured, samples, networkVars>>

\* A newer sample, or the end of the wait; the lease goes with the call.
SnapshotAnswered(v) ==
    /\ viewer[v].at = "waiting"
    /\ leases' = leases \ {v}
    /\ viewer' = [viewer EXCEPT ![v].at = "answered",
                                ![v].fresh = captured # 0 /\ captured > viewer[v].baseline]
    /\ UNCHANGED <<source, explicit, sourceVars, top, captured, samples, networkVars>>

----------------------------------------------------------------------------
(* The supervised loop.                                                    *)

\* What a source other than energy starts on the device.
Stream == IF source = "energy" THEN {} ELSE {IF fell THEN "syslog" ELSE source}

Connects ==
    /\ phase = "off" /\ Wanted /\ rounds < MaxRounds
    /\ phase' = "connecting" /\ rounds' = rounds + 1 /\ fell' = FALSE
    /\ UNCHANGED <<source, demandedVars, sampled, onDevice, lost, sampleVars, networkVars>>

\* Set up; the network accumulator is new.
Opens ==
    /\ phase = "connecting"
    /\ phase' = "streaming" /\ sampled' = Stream /\ onDevice' = onDevice \cup Stream
    /\ flows' = [c \in Flows |-> Unseen] /\ window' = 0
    /\ UNCHANGED <<source, demandedVars, rounds, fell, lost, sampleVars, counted, real, moved>>

\* The unified log stream cannot be opened or breaks: the syslog relay.
FallsBack ==
    /\ source = "logs" /\ ~fell /\ phase \in {"connecting", "streaming"}
    /\ fell' = TRUE /\ phase' = "connecting" /\ sampled' = {}
    /\ \E started \in SUBSET Stream : lost' = lost \cup sampled \cup started /\ onDevice' = onDevice \cup started
    /\ UNCHANGED <<source, demandedVars, rounds, sampleVars, networkVars>>

\* No connection, no answer to the setup, or a broken stream: nothing is
\* stopped on the device.
Breaks ==
    /\ phase \in {"connecting", "streaming"}
    /\ phase' = "backoff" /\ sampled' = {}
    /\ \E started \in SUBSET (IF phase = "connecting" THEN Stream ELSE {}) :
          onDevice' = onDevice \cup started /\ lost' = lost \cup sampled \cup started
    /\ UNCHANGED <<source, demandedVars, rounds, fell, sampleVars, networkVars>>

Resumes ==
    /\ phase = "backoff" /\ phase' = "off"
    /\ UNCHANGED <<source, demandedVars, rounds, fell, sampled, onDevice, lost, sampleVars, networkVars>>

\* A stop of pids or of the stream; its failure is ignored.
StopsSampling(pids) ==
    \E done \in {pids, {}} :
        onDevice' = onDevice \ done /\ lost' = (lost \ done) \cup (pids \ done)

MutantNotices ==
    /\ phase = "streaming" /\ ~Wanted
    /\ phase' = "off" /\ sampled' = {} /\ UNCHANGED <<onDevice, lost>>
    /\ IF source = "energy" THEN samples' = samples + 1 /\ captured' = samples' ELSE UNCHANGED <<captured, samples>>
    /\ UNCHANGED <<source, demandedVars, rounds, fell, top, viewer, networkVars>>

\* The demand ends; the energy source then publishes an empty sample.
Notices ==
    /\ phase = "streaming" /\ ~Wanted
    /\ phase' = "off" /\ sampled' = {} /\ StopsSampling(sampled)
    /\ IF source = "energy" THEN samples' = samples + 1 /\ captured' = samples' ELSE UNCHANGED <<captured, samples>>
    /\ UNCHANGED <<source, demandedVars, rounds, fell, top, viewer, networkVars>>

\* The session ends: the source stops, or is aborted after the grace.
EndsSource ==
    /\ phase # "gone" /\ phase' = "gone" /\ sampled' = {} /\ StopsSampling(sampled)
    /\ UNCHANGED <<source, demandedVars, rounds, fell, sampleVars, networkVars>>

----------------------------------------------------------------------------
(* Samples.                                                                *)

Observed == samples' = samples + 1 /\ captured' = samples'

\* observe: a System observation brings the processes; it may come from the
\* system sampler while another source is looked at.
ObserveSystem(processes) ==
    /\ source \in {"system", "energy"} /\ samples < MaxSamples
    /\ source = "system" => phase = "streaming"
    /\ Observed /\ top' = processes
    /\ UNCHANGED <<source, demandedVars, sourceVars, viewer, networkVars>>

ObserveGraphics ==
    /\ source = "graphics" /\ phase = "streaming" /\ samples < MaxSamples
    /\ Observed
    /\ UNCHANGED <<source, demandedVars, sourceVars, top, viewer, networkVars>>

\* An activity of an application or a line of the log is no sample.
NoSample ==
    /\ phase = "streaming" /\ samples < MaxSamples
    /\ samples' = samples + 1
    /\ UNCHANGED <<source, demandedVars, sourceVars, top, captured, viewer, networkVars>>

ObserveActivity == source = "activity" /\ NoSample
LogArrives == source = "logs" /\ NoSample

\* energy_targets: the first of the top processes.
EnergyTargets == {t \in SUBSET top : Cardinality(t) <= MaxTargets /\ (t = top \/ Cardinality(t) = MaxTargets)}

\* A tick of the energy source: what is no longer wanted is stopped, what is
\* new is stopped in case an earlier session left it, then started; a failed
\* start or sample ends the round.
EnergyTick ==
    /\ source = "energy" /\ phase = "streaming" /\ samples < MaxSamples
    /\ \E targets \in EnergyTargets :
          LET removed == sampled \ targets
              added == targets \ sampled
          IN \E kept \in {removed, {}}, outcome \in {"ok", "failed", "unanswered", "sampleFails"} :
                LET started == IF outcome = "failed" THEN {} ELSE added
                    fails == (outcome \in {"failed", "unanswered"} /\ added # {}) \/ (outcome = "sampleFails" /\ targets # {})
                IN /\ onDevice' = (onDevice \ (removed \ kept)) \cup started
                   /\ IF fails
                      THEN phase' = "backoff" /\ sampled' = {}
                           /\ lost' = (lost \ (removed \ kept)) \cup kept \cup (sampled \cap targets) \cup started
                      ELSE sampled' = targets /\ lost' = (lost \ (targets \cup (removed \ kept))) \cup kept
                           /\ UNCHANGED phase
                   /\ IF fails \/ (targets = {} /\ sampled = {}) THEN UNCHANGED <<captured, samples>> ELSE Observed
    /\ UNCHANGED <<source, demandedVars, rounds, fell, top, viewer, networkVars>>

----------------------------------------------------------------------------
(* NetworkAccumulator.                                                     *)

\* The device moves bytes; a connection's number may be used again.
Moves(c) ==
    /\ source = "network" /\ moved < MaxMoved
    /\ moved' = moved + 1
    /\ real' = [real EXCEPT ![c] = @ + 1]
    /\ UNCHANGED <<source, demandedVars, sourceVars, sampleVars, flows, window, counted>>

ReusesNumber(c) ==
    /\ source = "network" /\ real[c] > 0
    /\ real' = [real EXCEPT ![c] = 0]
    /\ UNCHANGED <<source, demandedVars, sourceVars, sampleVars, flows, window, counted, moved>>

Tracked == {c \in Flows : flows[c].seen}
HasRoomFor(c) == flows[c].seen \/ Cardinality(Tracked) < MaxFlows

DetectsFlow(c) ==
    /\ source = "network" /\ phase = "streaming" /\ HasRoomFor(c)
    /\ flows' = [flows EXCEPT ![c].seen = TRUE]
    /\ UNCHANGED <<source, demandedVars, sourceVars, sampleVars, window, counted, real, moved>>

\* An update counts what was added since the last one, and is only the
\* baseline when it is the first.
UpdatesFlow(c) ==
    /\ source = "network" /\ phase = "streaming" /\ HasRoomFor(c)
    /\ flows' = [flows EXCEPT ![c] = [seen |-> TRUE, sized |-> TRUE, bytes |-> real[c]]]
    /\ window' = window + IF flows[c].sized /\ real[c] > flows[c].bytes THEN real[c] - flows[c].bytes ELSE 0
    /\ UNCHANGED <<source, demandedVars, sourceVars, sampleVars, counted, real, moved>>

\* sample: connections not heard of for CONNECTION_TTL go, the window ends.
SamplesNetwork ==
    /\ source = "network" /\ phase = "streaming" /\ samples < MaxSamples
    /\ \E expired \in SUBSET Tracked :
          flows' = [c \in Flows |-> IF c \in expired THEN Unseen ELSE flows[c]]
    /\ counted' = counted + window /\ window' = 0 /\ Observed
    /\ UNCHANGED <<source, demandedVars, sourceVars, top, viewer, real, moved>>

PerformanceNext(viewers) ==
    \/ \E enabled \in BOOLEAN : SetDemand(enabled)
    \/ \E v \in viewers : AcquireSource(v) \/ SnapshotAnswered(v)
    \/ Connects \/ Opens \/ FallsBack \/ Breaks \/ Resumes \/ Notices \/ EndsSource
    \/ \E processes \in SUBSET Pids : ObserveSystem(processes)
    \/ ObserveGraphics \/ ObserveActivity \/ LogArrives \/ EnergyTick \/ SamplesNetwork
    \/ \E c \in Flows : Moves(c) \/ ReusesNumber(c) \/ DetectsFlow(c) \/ UpdatesFlow(c)

----------------------------------------------------------------------------
\* Whatever the device samples is known: it is what the streaming source asked
\* for, or it was lost to a failed call or a broken stream, never left behind
\* by an ordinary end of demand; what a source asks samples of is being
\* sampled; a snapshot is called fresh only if it was taken during the call;
\* and no byte is counted twice.
SamplingAccounted ==
    /\ onDevice \subseteq sampled \cup lost /\ sampled \subseteq onDevice
    /\ sampled # {} => phase = "streaming"
    /\ \A v \in Viewers : viewer[v].fresh => samples > viewer[v].since
    /\ counted + window <= moved
=============================================================================
