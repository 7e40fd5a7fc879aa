---------------------------- MODULE KeymapEngine ----------------------------
(***************************************************************************)
(* The key-mapping runtime (crates/devicehub-keymap) as operators on its   *)
(* state: compilation of a profile, pulses, contact leases, the FPS, cast  *)
(* and cancel controllers, script queues and hooks, and the composition of *)
(* a touch frame.  KeymapSession drives it.                                *)
(*                                                                         *)
(* Instants are integers relative to now; what passed more than Horizon    *)
(* ago is not told apart.  Coordinates and randomisation are left out;     *)
(* whether a pointer movement leaves the FPS area is an input.             *)
(***************************************************************************)
EXTENDS Integers, Sequences, FiniteSets, SequencesExt

CONSTANTS
    ContactLimit,    \* contacts of a report; identities are below it (5)
    Horizon          \* bound: how far instants are told apart

ASSUME KeymapBoundsAssumption == ContactLimit \in Nat \ {0} /\ Horizon \in Nat \ {0}

NoProfile == [maps |-> <<>>, scripts |-> <<>>, hardware |-> << >>, configured |-> FALSE]
NoPlan == [duration |-> 0, actions |-> <<>>, fails |-> FALSE, empty |-> TRUE]
Never == Horizon + 1
None == "none"

MapIds(p) == {p.maps[i].id : i \in DOMAIN p.maps}
Mapping(p, id) == p.maps[CHOOSE i \in DOMAIN p.maps : p.maps[i].id = id]

NoScope == [active |-> FALSE, busyUntil |-> -Horizon, nextHeldAt |-> Never]
NoFps == [id |-> None, identity |-> 0, touching |-> FALSE, pending |-> FALSE, readyAt |-> 0, old |-> -1]
NoCast == [id |-> None, autoReleaseAt |-> Never]
NoCancel == [id |-> None, identity |-> 0, endAt |-> 0]

\* KeymapRuntimeState::default
FreshRuntime ==
    [axes |-> {}, pulses |-> << >>, pointers |-> {}, leases |-> << >>,
     fps |-> NoFps, cast |-> NoCast, cancel |-> NoCancel,
     scopes |-> << >>, hookReadyAt |-> << >>, queued |-> <<>>,
     scriptContacts |-> << >>, output |-> <<>>]

Without(f, S) == [x \in DOMAIN f \ S |-> f[x]]
With(f, x, v) == [y \in DOMAIN f \cup {x} |-> IF y = x THEN v ELSE f[y]]
Later(s, t) == IF s > t THEN s ELSE t

----------------------------------------------------------------------------
(* Compilation                                                             *)

Advanced == {"PadCast", "MouseCast", "Observation", "Fps", "Fire", "CancelCast"}
CastKinds == {"PadCast", "MouseCast"}
PadKinds == {"Dpad", "DirectionPad"}
\* Kinds that cannot be compiled without a frame: DirectionPad and the
\* stateful ones, CancelCast excepted.
NeedsFrame == {"DirectionPad", "PadCast", "MouseCast", "Observation", "Fps", "Fire"}

PadKeys(m) == m.pad.up \cup m.pad.down \cup m.pad.left \cup m.pad.right

\* validate_key_mapping_profile: unique ids, hardware keys neither shared nor
\* used by a mapping (collect_mapping_keys).
ValidProfile(p) ==
    LET mapped == UNION {p.maps[i].bind \cup PadKeys(p.maps[i]) : i \in DOMAIN p.maps}
                  \cup UNION {p.scripts[i].bind : i \in DOMAIN p.scripts}
        all == p.maps \o p.scripts
    IN /\ \A i, j \in DOMAIN all : all[i].id = all[j].id => i = j
       /\ \A b \in DOMAIN p.hardware : p.hardware[b] \notin mapped
       /\ \A a, b \in DOMAIN p.hardware : p.hardware[a] = p.hardware[b] => a = b

\* The field readers of a profile, as far as the runtime depends on them.
ContactId(i) == i \in 0..(ContactLimit - 1)
CastReleaseModes(kind) == {"release", "secondPress"} \cup (IF kind = "MouseCast" THEN {"press"} ELSE {})
FpsTouchMode(m) == m.touch = "single" \/ (ContactId(m.another) /\ m.another # m.identity)

CompilesMapping(m, frame) ==
    /\ ContactId(m.identity)
    /\ m.kind \in NeedsFrame => frame
    /\ m.kind \in CastKinds => m.mode \in CastReleaseModes(m.kind)
    /\ m.kind = "Fps" => FpsTouchMode(m)

\* compile_scripts: non-empty programs and hooks need a frame.
CompilesScripts(p, frame) ==
    /\ \A i \in DOMAIN p.scripts :
          frame \/ (p.scripts[i].pressed.empty /\ p.scripts[i].held.empty /\ p.scripts[i].released.empty)
    /\ \A i \in DOMAIN p.maps : frame \/ (p.maps[i].before.empty /\ p.maps[i].after.empty)

\* A Script mapping of a profile compiled without scripts: Unsupported.
Inert(s) == [id |-> s.id, kind |-> "Unsupported", identity |-> 0, bind |-> s.bind]

\* CompiledKeymap::from_profile_with_options on a profile that compiles.
Compile(p, allowScripts) ==
    [maps |-> [i \in DOMAIN p.maps |->
                 IF allowScripts THEN p.maps[i]
                 ELSE [p.maps[i] EXCEPT !.before = NoPlan, !.after = NoPlan]]
              \o (IF allowScripts THEN <<>>
                  ELSE [i \in DOMAIN p.scripts |-> Inert(p.scripts[i])]),
     scripts |-> IF allowScripts THEN p.scripts ELSE <<>>,
     hardware |-> p.hardware, configured |-> TRUE]

----------------------------------------------------------------------------
(* Reading the input                                                       *)

Bound(keys, bind) == bind # {} /\ bind \subseteq keys
PressedKeys(m, keys) == PadKeys(m) \cap keys

\* Mapping::matches_input, which sees no gamepad axes.
MatchesInput(m, keys) ==
    IF m.kind \in PadKinds THEN PressedKeys(m, keys) # {} ELSE Bound(keys, m.bind)

\* CompiledKeymap::effective_held: a held CancelCast hides the cast keys.
EffectiveHeld(p, keys) ==
    IF \E i \in DOMAIN p.maps : p.maps[i].kind = "CancelCast" /\ Bound(keys, p.maps[i].bind)
    THEN keys \ UNION {p.maps[i].bind : i \in {j \in DOMAIN p.maps : p.maps[j].kind \in CastKinds}}
    ELSE keys

\* Mapping::pulse_duration.
PulseKinds == {"SingleTap", "MultipleTap", "Swipe"}
IsPulse(m) == m.kind \in PulseKinds /\ ~(m.kind = "SingleTap" /\ m.sync)

\* Start of a running pulse: a before script delays it.
PulseStart(rt, id) ==
    IF id \in DOMAIN rt.hookReadyAt THEN Later(rt.pulses[id], rt.hookReadyAt[id]) ELSE rt.pulses[id]
HookReady(rt, id) == id \in DOMAIN rt.hookReadyAt => rt.hookReadyAt[id] <= 0

\* Mapping::activation_elapsed with the default of frame_with_state.
HeldFor(m, keys, since) ==
    IF m.kind \in {"SingleTap", "RepeatTap", "MultipleTap", "Swipe"} /\ Bound(keys, m.bind)
    THEN CHOOSE t \in {-since[k] : k \in m.bind} : \A k \in m.bind : t <= -since[k]
    ELSE 0

----------------------------------------------------------------------------
(* FPS handoff                                                             *)

\* move_runtime_fps: inside the area the contact moves; at its edge it is
\* taken up and put down again at the anchor, on the other identity in the
\* dual modes.  A movement during a handoff is deferred.
MoveFps(p, rt, leaves) ==
    LET f == rt.fps
        m == Mapping(p, f.id)
        other == IF f.identity = m.identity THEN m.another ELSE m.identity
    IN IF f = NoFps \/ f.pending \/ ~leaves THEN rt
       ELSE [rt EXCEPT !.fps =
               [f EXCEPT !.identity = IF m.touch = "single" THEN m.identity ELSE other,
                         !.touching = (m.touch = "overlap"),
                         !.pending = TRUE, !.readyAt = m.handoff,
                         !.old = IF m.touch = "overlap" THEN f.identity ELSE -1]]

EnterFps(rt, m) ==
    [rt EXCEPT !.fps = [NoFps EXCEPT !.id = m.id, !.identity = m.identity, !.touching = TRUE]]

\* tick_runtime: pulses, one-shot casts and cancel strokes end, a handoff that
\* is due completes and applies the deferred movement.
TickRuntime(p, rt, leaves) ==
    LET over == {id \in DOMAIN rt.pulses :
                   id \in MapIds(p) /\ IsPulse(Mapping(p, id)) /\
                      -PulseStart(rt, id) >= Mapping(p, id).duration}
        timed == [rt EXCEPT !.pulses = Without(@, over),
                            !.cast = IF @.autoReleaseAt <= 0 THEN NoCast ELSE @,
                            !.cancel = IF @.endAt <= 0 THEN NoCancel ELSE @]
    IN IF rt.fps.pending /\ rt.fps.readyAt <= 0
       THEN MoveFps(p, [timed EXCEPT !.fps = [@ EXCEPT !.pending = FALSE, !.touching = TRUE,
                                                       !.readyAt = 0, !.old = -1]], leaves)
       ELSE timed

----------------------------------------------------------------------------
(* Scripts                                                                 *)

Failed(rt) == [rt |-> rt, err |-> TRUE]
Done(rt) == [rt |-> rt, err |-> FALSE]

ScopeOf(rt, id) == IF id \in DOMAIN rt.scopes THEN rt.scopes[id] ELSE NoScope

\* The program starts when the scope's earlier programs are over.
StartAt(scope) == Later(scope.busyUntil, 0)

\* The queue is ordered by due time: how many of its actions are due by t.
DueBy(q, t) == Cardinality({i \in DOMAIN q : q[i].at <= t})

\* A stable sort puts an action behind those that are due no later.
Enqueue(q, a) == InsertAt(q, DueBy(q, a.at) + 1, a)
EnqueueAll(q, fresh) == FoldLeft(Enqueue, q, fresh)

\* schedule_script_program: plan the program and merge its actions into the
\* queue.
Schedule(r, id, plan) ==
    IF r.err \/ plan.empty THEN r
    ELSE IF plan.fails THEN Failed(r.rt)
    ELSE LET scope == ScopeOf(r.rt, id)
             start == StartAt(scope)
             fresh == [i \in DOMAIN plan.actions |->
                         [scope |-> id, at |-> start + plan.actions[i].at, act |-> plan.actions[i].act]]
         IN Done([r.rt EXCEPT !.queued = EnqueueAll(@, fresh),
                              !.scopes = With(@, id, [scope EXCEPT !.busyUntil = start + plan.duration])])

\* update_script_lifecycles, Script mappings.
ScriptEdge(r, s, before, now) ==
    IF r.err \/ Bound(before, s.bind) = Bound(now, s.bind) THEN r
    ELSE IF Bound(now, s.bind)
    THEN LET on == Done([r.rt EXCEPT !.scopes = With(@, s.id, [ScopeOf(r.rt, s.id) EXCEPT !.active = TRUE])])
             run == Schedule(on, s.id, s.pressed)
             next == IF s.held.empty THEN Never ELSE StartAt(ScopeOf(run.rt, s.id))
         IN IF run.err THEN run
            ELSE Done([run.rt EXCEPT !.scopes[s.id] = [@ EXCEPT !.nextHeldAt = next]])
    ELSE Schedule(Done([r.rt EXCEPT !.scopes =
                          With(@, s.id, [ScopeOf(r.rt, s.id) EXCEPT !.active = FALSE, !.nextHeldAt = Never])]),
                  s.id, s.released)

Hooked(m) == m.kind # "Unsupported" /\ ~(m.before.empty /\ m.after.empty)

ScriptEdges(p, r0, before, now) ==
    LET edge(r, s) == ScriptEdge(r, s, before, now) IN FoldLeft(edge, r0, p.scripts)

\* update_script_lifecycles, hooks: a release before the mapping became active
\* takes its controllers back.
HookEdge(r, m, before, now) ==
    IF r.err \/ ~Hooked(m) \/ MatchesInput(m, before) = MatchesInput(m, now) THEN r
    ELSE IF MatchesInput(m, now)
    THEN LET run == Schedule(r, m.id, m.before)
             ready == IF m.before.empty THEN 0 ELSE StartAt(ScopeOf(run.rt, m.id))
         IN IF run.err THEN run ELSE Done([run.rt EXCEPT !.hookReadyAt = With(@, m.id, ready)])
    ELSE LET early == m.id \in DOMAIN r.rt.hookReadyAt /\ r.rt.hookReadyAt[m.id] > 0
             gone == [r.rt EXCEPT !.hookReadyAt = Without(@, {m.id})]
             back == [gone EXCEPT !.pointers = @ \ {m.id},
                                  !.fps = IF @.id = m.id THEN NoFps ELSE @,
                                  !.cast = IF @.id = m.id THEN NoCast ELSE @,
                                  !.cancel = IF @.id = m.id THEN NoCancel ELSE @]
         IN Schedule(Done(IF early THEN back ELSE gone), m.id, m.after)

HookEdges(p, r0, before, now) ==
    LET edge(r, m) == HookEdge(r, m, before, now) IN FoldLeft(edge, r0, p.maps)

\* schedule_held_scripts.
HeldScript(r, s) ==
    LET scope == ScopeOf(r.rt, s.id)
        run == Schedule(r, s.id, s.held)
        again == StartAt(ScopeOf(run.rt, s.id)) + s.interval
    IN IF r.err \/ s.held.empty \/ ~scope.active \/ scope.nextHeldAt > 0 THEN r
       ELSE IF run.err THEN run
       ELSE Done([run.rt EXCEPT !.scopes[s.id] = [@ EXCEPT !.nextHeldAt = again]])

HeldScripts(p, r) == FoldLeft(HeldScript, r, p.scripts)

\* Hands the contact of the current cast to a cancel stroke.
CancelCast(p, rt, id) ==
    IF rt.cast = NoCast THEN rt
    ELSE [rt EXCEPT !.cast = NoCast,
                    !.cancel = [id |-> id, identity |-> Mapping(p, rt.cast.id).identity,
                                endAt |-> Mapping(p, id).duration]]

\* apply_script_action.
ApplyScript(p, r, q) ==
    LET rt == r.rt  a == q.act
        owned == a.type \in {"touch", "lift"} /\ a.identity \in DOMAIN rt.scriptContacts
        targets(kind) == a.id \in MapIds(p) /\ Mapping(p, a.id).kind = kind
    IN IF r.err THEN r
       ELSE CASE a.type = "touch" ->
                   IF owned /\ rt.scriptContacts[a.identity] # q.scope THEN Failed(rt)
                   ELSE Done([rt EXCEPT !.scriptContacts = With(@, a.identity, q.scope)])
              [] a.type = "lift" ->
                   IF owned /\ rt.scriptContacts[a.identity] = q.scope
                   THEN Done([rt EXCEPT !.scriptContacts = Without(@, {a.identity})]) ELSE r
              [] a.type = "enterFps" ->
                   IF targets("Fps") THEN Done(EnterFps(rt, Mapping(p, a.id))) ELSE Failed(rt)
              [] a.type = "exitFps" -> Done([rt EXCEPT !.fps = NoFps])
              [] a.type = "cancelCast" ->
                   IF targets("CancelCast") THEN Done(CancelCast(p, rt, a.id)) ELSE Failed(rt)
              [] a.type = "releaseCast" -> Done([rt EXCEPT !.cast = NoCast, !.cancel = NoCancel])
              [] OTHER -> Done([rt EXCEPT !.output = Append(@, a)])

ApplyScripts(p, r, due) == LET apply(acc, q) == ApplyScript(p, acc, q) IN FoldLeft(apply, r, due)

\* tick_script_runtime: the due prefix of the queue.
TickScripts(p, r) ==
    LET q == r.rt.queued
        n == DueBy(q, 0)
    IN IF r.err THEN r
       ELSE ApplyScripts(p, Done([r.rt EXCEPT !.queued = SubSeq(q, n + 1, Len(q))]), SubSeq(q, 1, n))

----------------------------------------------------------------------------
(* Key edges (update_runtime_with_gamepad)                                 *)

\* The press edge of a binding.
Activate(rt, m, now, new) ==
    LET pressed == IF IsPulse(m) /\ m.id \notin DOMAIN rt.pulses
                   THEN [rt EXCEPT !.pulses = With(@, m.id, 0)] ELSE rt
    IN IF m.bind \cap new = {} \/ ~Bound(now, m.bind) THEN rt
       ELSE CASE m.kind \in {"Observation", "Fire"} -> [pressed EXCEPT !.pointers = @ \cup {m.id}]
              [] m.kind = "Fps" ->
                   IF rt.fps.id = m.id THEN [pressed EXCEPT !.fps = NoFps] ELSE EnterFps(pressed, m)
              [] m.kind \in CastKinds ->
                   IF m.mode = "secondPress" /\ rt.cast.id = m.id THEN [pressed EXCEPT !.cast = NoCast]
                   ELSE [pressed EXCEPT !.cast =
                           [id |-> m.id, autoReleaseAt |-> IF m.mode = "press" THEN m.duration ELSE Never]]
              [] OTHER -> pressed

\* The press edge of a CancelCast binding.
CancelEdge(p, rt, m, now, new) ==
    IF m.kind = "CancelCast" /\ m.bind \cap new # {} /\ Bound(now, m.bind)
    THEN CancelCast(p, rt, m.id) ELSE rt

\* The release edge: pointers are taken back, an interrupting Fire gives the
\* contact back to FPS, a cast in release mode ends.
Deactivate(p, rt, m, before, now) ==
    IF ~(Bound(before, m.bind) /\ ~Bound(now, m.bind)) THEN rt
    ELSE CASE m.kind = "Observation" \/ (m.kind = "Fire" /\ (m.preserve \/ rt.fps = NoFps)) ->
                [rt EXCEPT !.pointers = @ \ {m.id}]
           [] m.kind = "Fire" /\ ~m.preserve /\ rt.fps # NoFps ->
                [EnterFps(rt, Mapping(p, rt.fps.id)) EXCEPT !.pointers = @ \ {m.id}]
           [] m.kind \in CastKinds /\ m.mode = "release" /\ rt.cast.id = m.id ->
                [rt EXCEPT !.cast = NoCast]
           [] OTHER -> rt

\* apply_runtime_delta for a movement of mapping id.
ApplyDelta(p, rt, keys, id, leaves) ==
    LET m == Mapping(p, id)
    IN IF id \notin MapIds(p) THEN Failed(rt)
       ELSE CASE m.kind = "Observation" \/ (m.kind = "Fire" /\ ~m.preserve) ->
                   IF Bound(keys, m.bind) THEN Done([rt EXCEPT !.pointers = @ \cup {m.id}]) ELSE Failed(rt)
              [] m.kind = "Fps" /\ rt.fps.id = m.id -> Done(MoveFps(p, rt, leaves))
              [] m.kind = "MouseCast" /\ rt.cast.id = m.id /\ ~m.noDirection -> Done(rt)
              [] OTHER -> Failed(rt)

\* The edges of the mappings and the pointer movements, in this order.
Activations(p, rt, now, new) ==
    LET activate(r, m) == Activate(r, m, now, new) IN FoldLeft(activate, rt, p.maps)
CancelEdges(p, rt, now, new) ==
    LET cancel(r, m) == CancelEdge(p, r, m, now, new) IN FoldLeft(cancel, rt, p.maps)
Deactivations(p, rt, before, now) ==
    LET deactivate(r, m) == Deactivate(p, r, m, before, now) IN FoldLeft(deactivate, rt, p.maps)
Movements(p, r0, now, deltas, leaves) ==
    LET move(r, d) == IF r.err THEN r ELSE ApplyDelta(p, r.rt, now, d, leaves) IN FoldLeft(move, r0, deltas)

ApplyEdges(p, scripted, before, now, deltas, leaves) ==
    LET new == now \ before
        activated == Activations(p, scripted.rt, now, new)
        edged == Deactivations(p, CancelEdges(p, activated, now, new), before, now)
    IN IF scripted.err THEN scripted ELSE Movements(p, Done(edged), now, deltas, leaves)

UpdateRuntime(p, rt, before, now, axes, deltas, leaves) ==
    LET ticked == Done(TickRuntime(p, [rt EXCEPT !.axes = axes], leaves))
        scripted == TickScripts(p, HookEdges(p, ScriptEdges(p, ticked, before, now), before, now))
    IN ApplyEdges(p, scripted, before, now, deltas, leaves)

----------------------------------------------------------------------------
(* A touch frame                                                           *)

\* Mapping::evaluate for pads: opposite directions cancel out, an axis beyond
\* the dead zone moves the pad.
EvaluatePad(m, keys, axes) ==
    LET along(a, b) == Bound(keys, a) # Bound(keys, b)
        moved == m.axes \cap axes # {}
        touches == IF m.axes # {} THEN moved ELSE along(m.pad.up, m.pad.down) \/ along(m.pad.left, m.pad.right)
    IN [matched |-> IF m.axes # {} THEN moved ELSE PressedKeys(m, keys) # {},
        touching |-> touches, claims |-> IF touches THEN PressedKeys(m, keys) ELSE {}]

\* Is a MultipleTap down? Its items wait, then touch.
InTap(items, t) ==
    \E i \in DOMAIN items :
        LET begin == FoldLeft(LAMBDA s, it : s + it.wait + it.touch, 0, SubSeq(items, 1, i - 1)) + items[i].wait
        IN t >= begin /\ t < begin + items[i].touch

\* Mapping::evaluate for mappings with a binding.
EvaluateBound(m, keys, elapsed, forced) ==
    LET matched == (forced /\ m.kind \in PulseKinds) \/ Bound(keys, m.bind)
        touches == matched /\
            CASE m.kind = "SingleTap" -> m.sync \/ elapsed < m.duration
              [] m.kind = "RepeatTap" -> elapsed % (m.duration + m.interval) < m.duration
              [] m.kind = "MultipleTap" -> InTap(m.items, elapsed)
              [] OTHER -> m.kind # "CancelCast"
    IN [matched |-> matched, touching |-> touches, claims |-> IF touches THEN m.bind ELSE {}]

Evaluate(m, rt, keys, since) ==
    LET forced == m.id \in DOMAIN rt.pulses
        elapsed == IF forced THEN Later(-PulseStart(rt, m.id), 0) ELSE HeldFor(m, keys, since)
    IN IF m.kind \in PadKinds THEN EvaluatePad(m, keys, rt.axes) ELSE EvaluateBound(m, keys, elapsed, forced)

\* A mapping of a type the runtime does not play fails the frame when triggered.
Unplayable(p, keys) == \E i \in DOMAIN p.maps : p.maps[i].kind = "Unsupported" /\ Bound(keys, p.maps[i].bind)

\* lease_contact_id: the leased identity, else the preferred one, else the
\* lowest free one; {} when there is none.
Lease(leases, id, preferred, occupied) ==
    IF id \in DOMAIN leases THEN {leases[id]} \ occupied
    ELSE IF preferred \notin occupied THEN {preferred}
    ELSE LET free == 0..(ContactLimit - 1) \ occupied
         IN IF free = {} THEN {} ELSE {CHOOSE i \in free : \A j \in free : i <= j}

Ordinary(m) == m.kind \notin Advanced /\ m.kind # "Unsupported"

\* A mapping that touches claims its keys and takes an identity, if none of
\* the keys is claimed.
Place(acc, m, e, reserved) ==
    LET mine == IF m.id \in DOMAIN acc.leases THEN {acc.leases[m.id]} \ reserved ELSE {}
        got == Lease(acc.leases, m.id, m.identity, acc.used \ mine)
    IN IF ~Ordinary(m) \/ ~e.touching \/ e.claims \cap acc.claimed # {} THEN acc
       ELSE IF got = {}
       THEN [acc EXCEPT !.claimed = @ \cup e.claims, !.skipped = @ \cup {m.id}]
       ELSE LET i == CHOOSE x \in got : TRUE
            IN [acc EXCEPT !.claimed = @ \cup e.claims, !.leases = With(@, m.id, i),
                           !.used = @ \cup {i},
                           !.contacts = Append(@, [identity |-> i, id |-> m.id])]

PlaceAll(p, rt, eff, since, reserved, acc0) ==
    LET place(acc, m) == Place(acc, m, Evaluate(m, rt, eff, since), reserved)
    IN FoldLeft(place, acc0, p.maps)

\* frame_with_state with dynamic leases: ordinary mappings in profile order.
OrdinaryFrame(p, rt, keys, since, reserved) ==
    LET eff == EffectiveHeld(p, keys)
        matched == {id \in MapIds(p) : /\ Ordinary(Mapping(p, id))
                                       /\ Evaluate(Mapping(p, id), rt, eff, since).matched}
        kept == [id \in DOMAIN rt.leases \cap matched |-> rt.leases[id]]
    IN PlaceAll(p, rt, eff, since, reserved,
                [leases |-> kept, used |-> reserved \cup {kept[id] : id \in DOMAIN kept},
                 claimed |-> {}, contacts |-> <<>>, skipped |-> {}])

\* add_runtime_contact.
AddContact(cs, identity, id) ==
    IF Len(cs) >= ContactLimit \/ \E i \in DOMAIN cs : cs[i].identity = identity THEN cs
    ELSE Append(cs, [identity |-> identity, id |-> id])

\* A held Fire that does not preserve FPS control takes it over.
Interrupted(p, rt, keys) ==
    \E i \in DOMAIN p.maps :
        LET m == p.maps[i]
        IN m.kind = "Fire" /\ ~m.preserve /\ Bound(keys, m.bind) /\ m.id \in rt.pointers

MutantPointerShown(rt, m, keys) == m.kind \in {"Observation", "Fire"} /\ HookReady(rt, m.id)

PointerShown(rt, m, keys) ==
    m.kind \in {"Observation", "Fire"} /\ Bound(keys, m.bind) /\ HookReady(rt, m.id)

ScriptContacts(rt) ==
    LET add(cs, i) == IF i \in DOMAIN rt.scriptContacts THEN AddContact(cs, i, rt.scriptContacts[i]) ELSE cs
    IN FoldLeft(add, <<>>, [i \in 1..ContactLimit |-> i - 1])
PointerContacts(p, rt, keys, cs0) ==
    LET add(cs, m) == IF PointerShown(rt, m, keys) THEN AddContact(cs, m.identity, m.id) ELSE cs
    IN FoldLeft(add, cs0, p.maps)

\* The contacts of the stateful controllers, in the order they are added:
\* scripts, pointers, FPS, cast, cancel stroke.
ControllerContacts(p, rt, keys) ==
    LET pointers == PointerContacts(p, rt, keys, ScriptContacts(rt))
        fpsShown == rt.fps # NoFps /\ HookReady(rt, rt.fps.id) /\ ~Interrupted(p, rt, keys)
        fps1 == IF fpsShown /\ rt.fps.touching THEN AddContact(pointers, rt.fps.identity, rt.fps.id) ELSE pointers
        fps2 == IF fpsShown /\ rt.fps.old # -1 THEN AddContact(fps1, rt.fps.old, rt.fps.id) ELSE fps1
        cast == IF rt.cast # NoCast /\ HookReady(rt, rt.cast.id)
                THEN AddContact(fps2, Mapping(p, rt.cast.id).identity, rt.cast.id) ELSE fps2
    IN IF rt.cancel # NoCancel /\ HookReady(rt, rt.cancel.id)
       THEN AddContact(cast, rt.cancel.identity, rt.cancel.id) ELSE cast

\* reserve_runtime_contact_ids: FPS keeps its identity reserved while it is up.
Reserved(p, rt, keys) ==
    LET shown(id) == HookReady(rt, id)
    IN DOMAIN rt.scriptContacts
       \cup {p.maps[i].identity : i \in {j \in DOMAIN p.maps : PointerShown(rt, p.maps[j], keys)}}
       \cup (IF rt.fps # NoFps /\ shown(rt.fps.id) /\ ~Interrupted(p, rt, keys)
             THEN {rt.fps.identity, rt.fps.old} \ {-1} ELSE {})
       \cup (IF rt.cast # NoCast /\ shown(rt.cast.id) THEN {Mapping(p, rt.cast.id).identity} ELSE {})
       \cup (IF rt.cancel # NoCancel /\ shown(rt.cancel.id) THEN {rt.cancel.identity} ELSE {})

\* An ordinary contact that fits is added, another one is unavailable.
Merge(acc, c, hidden) ==
    IF hidden THEN acc
    ELSE IF AddContact(acc.contacts, c.identity, c.id) = acc.contacts
    THEN [acc EXCEPT !.skipped = @ \cup {c.id}]
    ELSE [acc EXCEPT !.contacts = AddContact(@, c.identity, c.id)]

\* A contact of a mapping whose hook is not over, or of a pad that a cast blocks.
Hidden(p, rt, c) ==
    \/ ~HookReady(rt, c.id)
    \/ /\ rt.cast # NoCast /\ HookReady(rt, rt.cast.id) /\ Mapping(p, c.id).kind = "DirectionPad"
       /\ Mapping(p, rt.cast.id).kind = "PadCast" /\ Mapping(p, rt.cast.id).blocks

\* The contacts of the controllers, then the ordinary ones that still fit.
Compose(p, rt, controllers, base) ==
    LET merge(acc, c) == Merge(acc, c, Hidden(p, rt, c))
    IN FoldLeft(merge, [contacts |-> controllers, skipped |-> base.skipped, leases |-> base.leases], base.contacts)

\* The frame of a runtime whose scripts were run.
FrameOf(p, rt, err, keys, since, external) ==
    LET framed(all) ==
            [err |-> err \/ Unplayable(p, EffectiveHeld(p, keys)),
             rt |-> [rt EXCEPT !.leases = all.leases, !.output = <<>>],
             contacts |-> all.contacts, skipped |-> all.skipped, output |-> rt.output]
    IN framed(Compose(p, rt, ControllerContacts(p, rt, keys),
                      OrdinaryFrame(p, rt, keys, since, external \cup Reserved(p, rt, keys))))

\* frame_with_runtime_and_reserved_contacts.
Frame(p, rt0, keys, since, external, leaves) ==
    LET run == TickScripts(p, HeldScripts(p, Done(TickRuntime(p, rt0, leaves))))
    IN FrameOf(p, run.rt, run.err, keys, since, external)
=============================================================================
