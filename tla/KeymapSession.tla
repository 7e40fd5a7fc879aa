---------------------------- MODULE KeymapSession ---------------------------
(***************************************************************************)
(* A browser's keymap session (websocket/keymap.rs): it feeds the page's   *)
(* input to the key-mapping runtime, renders a frame on every message and  *)
(* on every tick of the socket, and sends the device what changed.         *)
(***************************************************************************)
EXTENDS KeymapEngine

CONSTANTS
    KeymapProfiles,  \* profiles a page may configure
    KeyCodes,        \* keyboard codes
    GamepadAxes,     \* axis names
    MaxQueued        \* bound: queued script actions when input is accepted

\* A parsed profile: sequences of records, whose plans are sequences of actions.
IsSequence(s) == s \in Seq({s[i] : i \in DOMAIN s})
HasFields(r, F) == r = [f \in DOMAIN r |-> r[f]] /\ F \subseteq DOMAIN r
ASSUME KeymapProfilesAssumption ==
    \A p \in KeymapProfiles :
        /\ IsSequence(p.maps) /\ IsSequence(p.scripts)
        /\ \A i \in DOMAIN p.maps :
              /\ HasFields(p.maps[i], {"id", "before", "after"})
              /\ IsSequence(p.maps[i].before.actions) /\ IsSequence(p.maps[i].after.actions)
        /\ \A i \in DOMAIN p.scripts :
              /\ IsSequence(p.scripts[i].pressed.actions) /\ IsSequence(p.scripts[i].held.actions)
              /\ IsSequence(p.scripts[i].released.actions)

VARIABLES
    compiled,     \* the compiled profile, NoProfile when not configured
    runtime,      \* KeymapRuntimeState
    held,         \* held keys
    heldSince,    \* instant of each held key
    direct,       \* direct_contacts, in order
    contacts,     \* active_contacts
    unavailable,  \* unavailable_mapping_ids
    buttons,      \* active_buttons
    scriptKeys,   \* script_device.keyboard
    scriptButtons,\* script_device.buttons
    device        \* what is down on the device

keymapVars == <<compiled, runtime, held, heldSince, direct, contacts, unavailable,
                buttons, scriptKeys, scriptButtons, device>>

NothingDown == [touches |-> {}, keys |-> {}, buttons |-> {}]

KeymapInit ==
    /\ compiled = NoProfile /\ runtime = FreshRuntime
    /\ held = {} /\ heldSince = << >> /\ direct = <<>> /\ contacts = <<>> /\ unavailable = {}
    /\ buttons = {} /\ scriptKeys = {} /\ scriptButtons = {} /\ device = NothingDown

\* A contact of a report: direct contacts belong to no mapping.
Contact(identity, touching, id) == [identity |-> identity, touching |-> touching, id |-> id]
Touching(cs) == {cs[i].identity : i \in {j \in DOMAIN cs : cs[j].touching}}
Reported(cs) == {cs[i].identity : i \in DOMAIN cs}

----------------------------------------------------------------------------
\* What release sends: every contact up, then bound buttons, script keys and
\* script buttons.
Released(d) ==
    [touches |-> d.touches \ Reported(contacts), keys |-> d.keys \ scriptKeys,
     buttons |-> d.buttons \ (buttons \cup scriptButtons)]

\* BrowserKeymapSession::release.
Release ==
    /\ device' = Released(device)
    /\ runtime' = FreshRuntime
    /\ held' = {} /\ heldSince' = << >> /\ direct' = <<>> /\ contacts' = <<>> /\ unavailable' = {}
    /\ buttons' = {} /\ scriptKeys' = {} /\ scriptButtons' = {}

\* The script actions of a frame, one by one: <<keys, buttons, device>>.
Emit(s, a) ==
    CASE a.type = "keyDown" -> <<s[1] \cup {a.key}, s[2], [s[3] EXCEPT !.keys = @ \cup {a.key}]>>
      [] a.type = "keyUp" -> <<s[1] \ {a.key}, s[2], [s[3] EXCEPT !.keys = @ \ ({a.key} \cap s[1])]>>
      [] a.type = "buttonDown" -> <<s[1], s[2] \cup {a.key}, [s[3] EXCEPT !.buttons = @ \cup ({a.key} \ s[2])]>>
      [] a.type = "buttonUp" -> <<s[1], s[2] \ {a.key}, [s[3] EXCEPT !.buttons = @ \ ({a.key} \cap s[2])]>>
      [] OTHER -> s

EmitAll(s, actions) == FoldLeft(Emit, s, actions)

MutantReport(old, new, d) == [d EXCEPT !.touches = (@ \ Reported(new)) \cup Touching(new)]

\* contacts_with_releases, sent: an identity that is not in the new report
\* goes up.
Report(old, new, d) == [d EXCEPT !.touches = (@ \ (Reported(old) \cup Reported(new))) \cup Touching(new)]

\* The report of a frame: direct contacts first, at most one per identity.
AddReported(acc, c) ==
    IF Len(acc) >= ContactLimit \/ \E i \in DOMAIN acc : acc[i].identity = c.identity
    THEN acc ELSE Append(acc, Contact(c.identity, TRUE, c.id))
Merged(cs) == FoldLeft(AddReported, direct', cs)

\* render with frame f, after the input was stored: a failed frame releases
\* everything.
Render(f) ==
    LET emitted == EmitAll(<<scriptKeys, scriptButtons, device>>, f.output)
        wanted == {b \in DOMAIN compiled.hardware : compiled.hardware[b] \in held'}
        pressed == [emitted[3] EXCEPT !.buttons = (@ \ (buttons \ wanted)) \cup (wanted \ buttons)]
    IN /\ runtime' = f.rt
       /\ scriptKeys' = emitted[1] /\ scriptButtons' = emitted[2] /\ buttons' = wanted
       /\ contacts' = Merged(f.contacts)
       /\ device' = Report(contacts, contacts', pressed)
       /\ unavailable' = f.skipped
       /\ UNCHANGED compiled

Fail == compiled' = NoProfile /\ Release

----------------------------------------------------------------------------
(* Messages of the page and ticks of the socket                            *)

\* configure: release, validate, compile.
Configure(p, allowScripts) ==
    /\ Release
    /\ compiled' = IF /\ ValidProfile(p)
                      /\ \A i \in DOMAIN p.maps : CompilesMapping(p.maps[i], TRUE)
                      /\ allowScripts => CompilesScripts(p, TRUE)
                   THEN Compile(p, allowScripts) ELSE NoProfile

\* The end of every message: the frame is shown, or fails.
Show(f, keys, since, cs) ==
    IF f.err THEN Fail
    ELSE held' = keys /\ heldSince' = since /\ direct' = cs /\ Render(f)

\* set_input with a well-formed key state.
SetInput(keys, axes, deltas, leaves) ==
    LET since == [k \in keys |-> IF k \in held THEN heldSince[k] ELSE 0]
        updated(r) == IF r.err THEN Fail
                      ELSE Show(Frame(compiled, r.rt, keys, since, Reported(direct), leaves), keys, since, direct)
    IN /\ compiled.configured
       /\ Len(runtime.queued) <= MaxQueued
       /\ updated(UpdateRuntime(compiled, runtime, held, keys, axes, deltas, leaves))

\* set_input with malformed keys or axes.
BadInput == compiled.configured /\ Fail

\* set_direct_contacts with valid contacts (unique identities).
SetDirect(cs) ==
    /\ compiled.configured
    /\ Show(Frame(compiled, runtime, held, heldSince, Reported(cs), FALSE), held, heldSince, cs)

\* tick, 60 times a second.
KeymapTick(leaves) ==
    /\ compiled.configured
    /\ Show(Frame(compiled, runtime, held, heldSince, Reported(direct), leaves), held, heldSince, direct)

\* stop, and the end of the control connection.
Stop == compiled.configured /\ Fail

Sooner(t) == IF t = Never \/ t = -Horizon THEN t ELSE t - 1
SoonerAll(f) == [x \in DOMAIN f |-> Sooner(f[x])]
Nearer(r, instant) == [r EXCEPT ![instant] = Sooner(@)]
DueSooner(a) == [a EXCEPT !.at = @ - 1]

\* Time passes.
Elapse ==
    /\ compiled.configured
    /\ runtime.queued # <<>> => runtime.queued[1].at >= 0
    /\ heldSince' = SoonerAll(heldSince)
    /\ runtime' = [runtime EXCEPT
          !.pulses = SoonerAll(@), !.hookReadyAt = SoonerAll(@),
          !.fps = IF @.pending THEN Nearer(@, "readyAt") ELSE @,
          !.cast = Nearer(@, "autoReleaseAt"),
          !.cancel = IF @.id = None THEN @ ELSE Nearer(@, "endAt"),
          !.scopes = [x \in DOMAIN @ |-> Nearer(Nearer(@[x], "busyUntil"), "nextHeldAt")],
          !.queued = [i \in DOMAIN @ |-> DueSooner(@[i])]]
    /\ UNCHANGED <<compiled, held, direct, contacts, unavailable, buttons, scriptKeys, scriptButtons, device>>

DirectChoices == {<<>>} \cup {<<Contact(i, t, None)>> : i \in 0..(ContactLimit - 1), t \in BOOLEAN}
Movable == {"Observation", "Fire", "Fps", "MouseCast"}
Deltas == {<<>>} \cup {<<id>> : id \in {x \in MapIds(compiled) : Mapping(compiled, x).kind \in Movable}}
\* Keys and axes the profile does not name are stored and never read.
UsedKeys == KeyCodes \cap
    (UNION {compiled.maps[i].bind : i \in DOMAIN compiled.maps}
     \cup UNION {PadKeys(compiled.maps[i]) : i \in {j \in DOMAIN compiled.maps : compiled.maps[j].kind \in PadKinds}}
     \cup UNION {compiled.scripts[i].bind : i \in DOMAIN compiled.scripts}
     \cup {compiled.hardware[b] : b \in DOMAIN compiled.hardware})
UsedAxes == GamepadAxes \cap
    UNION {compiled.maps[i].axes : i \in {j \in DOMAIN compiled.maps : compiled.maps[j].kind \in PadKinds}}
Leaves == IF runtime.fps = NoFps THEN {FALSE} ELSE BOOLEAN

KeymapNext ==
    \/ \E p \in KeymapProfiles, s \in BOOLEAN : Configure(p, s)
    \/ \E keys \in SUBSET UsedKeys, axes \in SUBSET UsedAxes, d \in Deltas, l \in Leaves :
          SetInput(keys, axes, d, l)
    \/ BadInput \/ Stop \/ Elapse
    \/ \E cs \in DirectChoices : SetDirect(cs)
    \/ \E l \in Leaves : KeymapTick(l)

KeymapSpec == KeymapInit /\ [][KeymapNext]_keymapVars
----------------------------------------------------------------------------
(* Properties                                                              *)

\* Nothing stays down that the session does not know of: touches are the ones
\* of the last report, keys the script's, buttons bound or pressed by a script.
\* After a release, an error or a stop nothing is down at all.
NothingStuck ==
    /\ device.touches = Touching(contacts)
    /\ device.keys = scriptKeys
    /\ device.buttons \subseteq buttons \cup scriptButtons

\* A cast that ends on release and a pointer exist only while their binding is
\* held, however casts replace each other, are cancelled or are scripted.
ControllersHeld ==
    /\ runtime.cast.id # None /\ Mapping(compiled, runtime.cast.id).mode = "release"
          => Bound(held, Mapping(compiled, runtime.cast.id).bind)
    /\ \A id \in runtime.pointers : Bound(held, Mapping(compiled, id).bind)

\* Contacts that may stay without a held key: FPS, a second-press cast, a
\* script's contact and direct ones.
Lasting(c) ==
    \/ c.id = None \/ c.id = runtime.fps.id \/ c.id = runtime.cast.id
    \/ \E i \in DOMAIN runtime.scriptContacts : runtime.scriptContacts[i] = c.id

\* Every other contact on the device has a cause that ends by itself or with
\* the keys: the held binding of a pointer, another binding that is held and
\* not hidden by a cancelled cast (effective_held), a running pulse or a
\* cancel stroke.
ContactsCaused ==
    /\ ControllersHeld
    /\ \A i \in DOMAIN contacts :
        LET c == contacts[i]
            m == Mapping(compiled, c.id)
        IN \/ Lasting(c)
           \/ m.kind \in {"Observation", "Fire"} /\ Bound(held, m.bind)
           \/ MatchesInput(m, EffectiveHeld(compiled, held)) \/ m.axes \cap runtime.axes # {}
           \/ c.id \in DOMAIN runtime.pulses \/ c.id = runtime.cancel.id
=============================================================================
