------------------------------ MODULE McpInput ------------------------------
(***************************************************************************)
(* The input tools of the MCP server: gestures and bounded key map runs,   *)
(* which send to the device that is selected at the moment of each send,   *)
(* and the one game control session, a task of its own that keeps its      *)
(* device, holds the gesture lock and lives on a lease.                    *)
(***************************************************************************)
EXTENDS Naturals, Sequences, FiniteSets, Functions

CONSTANTS
    Tools,          \* tool calls of one MCP connection, which run concurrently
    InputDevices,   \* devices that can be selected
    MaxGames,       \* bound: game sessions started
    MaxSwitches,    \* bound: times the selection changes
    GameQueue,      \* commands a game session queues (8)
    NoTool          \* not a tool call

ASSUME McpAssumption ==
    /\ NoTool \notin Tools \cup {"game"} /\ "game" \notin Tools
    /\ MaxGames \in Nat /\ MaxSwitches \in Nat /\ GameQueue \in Nat \ {0}

Gestures == {"tap", "swipe", "multi"}
Controls == {"touch", "button", "key"}
NoGame == [id |-> 0]

VARIABLES
    selected,   \* DeviceHub.session and selection_id
    switches,   \* selections so far
    ready,      \* ready[d]: does the command slot of d have a session?
    down,       \* down[d]: <<control, who pressed it>>, as the device sees it
    gesture,    \* who holds gesture_lock: a tool, "game" or NoTool
    tool,       \* tool[t]: what a call does and where it is
    active,     \* GameControlManager.active: id and selection, or NoGame
    started,    \* GameControlManager.next_session_id
    game        \* the task of the game session

mcpVars == <<selected, switches, ready, down, gesture, tool, active, started, game>>

IdleTool == [kind |-> "none", at |-> "idle", did |-> {}, script |-> NoTool, game |-> 0, strayed |-> FALSE]
IdleGame == [at |-> "none", id |-> 0, on |-> NoTool, due |-> FALSE, button |-> FALSE, pressed |-> {},
             queue |-> <<>>, stopper |-> NoTool]

McpInit ==
    /\ selected \in InputDevices /\ switches = 0
    /\ ready = [d \in InputDevices |-> TRUE] /\ down = [d \in InputDevices |-> {}]
    /\ gesture = NoTool /\ tool = [t \in Tools |-> IdleTool]
    /\ active = NoGame /\ started = 0 /\ game = IdleGame

----------------------------------------------------------------------------
(* What a send does to a device; a send fails when no session takes it.    *)

Up(d, cs) == {x \in down[d] : x[1] \notin cs}
Down(d, cs, who) == Up(d, cs) \cup (cs \X {who})

SendDown(d, cs, who) == down' = [down EXCEPT ![d] = IF ready[d] THEN Down(d, cs, who) ELSE @]
SendUp(d, cs) == down' = [down EXCEPT ![d] = IF ready[d] THEN Up(d, cs) ELSE @]

At(t, kinds, at) == tool[t].kind \in kinds /\ tool[t].at = at
Goes(t, at) == tool' = [tool EXCEPT ![t].at = at]
Returns(t, at) == Goes(t, at) /\ gesture' = NoTool

Begin(t, kind) ==
    /\ tool[t].at = "idle"
    /\ tool' = [tool EXCEPT ![t].kind = kind, ![t].at = "locking", ![t].game = started]
    /\ UNCHANGED <<selected, switches, ready, down, gesture, active, started, game>>

Locks(t) ==
    /\ At(t, Gestures \cup {"keymap"}, "locking")
    /\ gesture = NoTool /\ gesture' = t
    /\ tool' = [tool EXCEPT ![t].at = "pressing", ![t].strayed = FALSE]
    /\ UNCHANGED <<selected, switches, ready, down, active, started, game>>

\* Touch down, samples while it is held or moves, touch up: each goes to the
\* device selected by then, and the first that fails ends the call.
Gesture(t, kind) ==
    /\ \/ /\ At(t, {kind}, "pressing") /\ ready[selected]
          /\ SendDown(selected, {"touch"}, t) /\ Goes(t, "moving") /\ UNCHANGED gesture
       \/ /\ At(t, {kind}, "moving") /\ ready[selected]
          /\ SendDown(selected, {"touch"}, t)
          /\ \E at \in {"moving", "lifting"} : Goes(t, at)
          /\ UNCHANGED gesture
       \/ /\ At(t, {kind}, "lifting") /\ ready[selected]
          /\ SendUp(selected, {"touch"}) /\ Returns(t, "done")
       \/ /\ tool[t].kind = kind /\ tool[t].at \in {"pressing", "moving", "lifting"}
          /\ ~ready[selected]
          /\ Returns(t, "failed") /\ UNCHANGED down
    /\ UNCHANGED <<selected, switches, ready, active, started, game>>

Tap(t) == Gesture(t, "tap")
Swipe(t) == Gesture(t, "swipe")
MultiTouch(t) == Gesture(t, "multi")

\* run_keymap: bound buttons down, frames while the keys are held and while
\* scripts still run, then everything up; a failure goes on with the releases.
\* Scripts keep the session that was current when the frames began.
KeymapButtons(t) ==
    /\ At(t, {"keymap"}, "pressing")
    /\ \E cs \in SUBSET {"button"} :
          /\ SendDown(selected, cs, t)
          /\ tool' = [tool EXCEPT
                ![t].did = IF ready[selected] THEN cs ELSE {},
                ![t].script = selected,
                ![t].at = IF ready[selected] \/ cs = {} THEN "moving" ELSE "releasing"]
    /\ UNCHANGED <<selected, switches, ready, gesture, active, started, game>>

ScriptSent(t, frame) ==
    [d \in InputDevices |->
        IF d # tool[t].script \/ ~ready[d] THEN down[d]
        ELSE IF "key" \in frame \ tool[t].did THEN Down(d, {"key"}, t)
        ELSE IF "key" \in tool[t].did \ frame THEN Up(d, {"key"}) ELSE down[d]]

TouchSent(t, frame, devs) ==
    [d \in InputDevices |->
        IF d # selected \/ ~ready[d] THEN devs[d]
        ELSE IF "touch" \in frame THEN {x \in devs[d] : x[1] # "touch"} \cup {<<"touch", t>>}
        ELSE IF "touch" \in tool[t].did THEN {x \in devs[d] : x[1] # "touch"} ELSE devs[d]]

KeymapFrame(t) ==
    /\ At(t, {"keymap"}, "moving")
    /\ \/ \E touchKey \in SUBSET {"touch", "key"}, ends \in BOOLEAN :
             LET frame == touchKey \cup (tool[t].did \cap {"button"})
                 scriptFails == ~ready[tool[t].script] /\ ("key" \in frame) # ("key" \in tool[t].did)
                 touchFails == ~ready[selected] /\ "touch" \in frame \cup tool[t].did
             IN /\ down' = IF scriptFails THEN down ELSE TouchSent(t, frame, ScriptSent(t, frame))
                /\ tool' = [tool EXCEPT
                      ![t].did = IF scriptFails \/ touchFails
                                 THEN (@ \ {"key"}) \cup (frame \cap {"key"}) ELSE frame,
                      ![t].at = IF scriptFails \/ touchFails \/ ends THEN "releasing" ELSE "moving"]
       \/ Goes(t, "releasing") /\ UNCHANGED down    \* the key map fails
    /\ UNCHANGED <<selected, switches, ready, gesture, active, started, game>>

KeymapReleases(t) ==
    /\ At(t, {"keymap"}, "releasing")
    /\ down' = [d \in InputDevices |->
          IF ~ready[d] THEN down[d]
          ELSE {x \in down[d] : ~ \/ d = selected /\ x[1] \in tool[t].did \ {"key"}
                                  \/ d = tool[t].script /\ x[1] \in tool[t].did \cap {"key"}}]
    /\ \E at \in {"done", "failed"} : Returns(t, at)
    /\ UNCHANGED <<selected, switches, ready, active, started, game>>

RunKeymap(t) == KeymapButtons(t) \/ KeymapFrame(t) \/ KeymapReleases(t)

----------------------------------------------------------------------------
(* The game session.                                                       *)

StartGame(t) ==
    /\ At(t, {"start"}, "locking")
    /\ \/ /\ active = NoGame /\ started < MaxGames
          /\ started' = started + 1
          /\ active' = [id |-> started', selection |-> selected]
          /\ Goes(t, "spawning")
       \/ active # NoGame /\ Goes(t, "failed") /\ UNCHANGED <<active, started>>
    /\ UNCHANGED <<selected, switches, ready, down, gesture, game>>

\* The task gets the session that is current now.
SpawnGame(t) ==
    /\ At(t, {"start"}, "spawning")
    /\ game' = [IdleGame EXCEPT !.at = "locking", !.id = active.id, !.on = selected]
    /\ Goes(t, "done")
    /\ UNCHANGED <<selected, switches, ready, down, gesture, active, started>>

\* game_control_handle: the call is for the active session, and the session's
\* device is the selected one.
GameHandle(t) == active # NoGame /\ active.id = tool[t].game /\ active.selection = selected

GameAsks(t) ==
    /\ At(t, {"set", "stop"}, "locking")
    /\ \/ /\ GameHandle(t) /\ game.at # "none" /\ Len(game.queue) < GameQueue
          /\ game' = [game EXCEPT !.queue = Append(@, t)]
          /\ Goes(t, "asked")
       \/ ~GameHandle(t) /\ Goes(t, "failed") /\ UNCHANGED game
    /\ UNCHANGED <<selected, switches, ready, down, gesture, active, started>>

\* GAME_COMMAND_WAIT: the command stays queued.
AskTimesOut(t) ==
    /\ At(t, {"set", "stop"}, "asked")
    /\ Goes(t, "failed")
    /\ UNCHANGED <<selected, switches, ready, down, gesture, active, started, game>>

AnswerAsks(ts, at) == tool' = [t \in Tools |-> IF t \in ts /\ tool[t].at = "asked"
                                           THEN [tool[t] EXCEPT !.at = at] ELSE tool[t]]

GameLocks ==
    /\ game.at = "locking" /\ gesture = NoTool
    /\ gesture' = "game" /\ game' = [game EXCEPT !.at = "top"]
    /\ UNCHANGED <<selected, switches, ready, down, tool, active, started>>

LeasePasses ==
    /\ game.at = "select" /\ ~game.due
    /\ game' = [game EXCEPT !.due = TRUE]
    /\ UNCHANGED <<selected, switches, ready, down, gesture, tool, active, started>>

MutantReleaseGame(g) ==
    /\ SendUp(g.on, g.pressed \ {"key"})
    /\ game' = [g EXCEPT !.at = "ending", !.pressed = {}]

\* release_game_control: everything that the session counts as pressed, sent
\* to its device, and forgotten even when the sends fail.
ReleaseGame(g) ==
    /\ SendUp(g.on, g.pressed)
    /\ game' = [g EXCEPT !.at = "ending", !.pressed = {}]

\* The head of the loop: an expired lease ends the session.
GameTurn ==
    /\ game.at = "top"
    /\ \/ game.due /\ ReleaseGame(game)
       \/ ~game.due /\ game' = [game EXCEPT !.at = "select"] /\ UNCHANGED down
    /\ UNCHANGED <<selected, switches, ready, gesture, tool, active, started>>

\* render_game_control: the frame that mappings, hooks and scripts make of
\* the held keys; only differences are sent.
Frames(g) ==
    {(f \cup IF g.button THEN {"button"} ELSE {}) : f \in SUBSET {"touch", "key"}}

RenderGame(g, frame) ==
    /\ down' = [down EXCEPT ![g.on] =
          Up(g.on, g.pressed \ frame) \cup ((frame \ g.pressed) \X {"game"})]
    /\ game' = [g EXCEPT !.at = "top", !.pressed = frame]

Renders(g, frame) == ready[g.on] \/ frame = g.pressed

GameTicks ==
    /\ game.at = "select"
    /\ \/ \E f \in Frames(game) : Renders(game, f) /\ RenderGame(game, f)
       \/ \E f \in Frames(game) : ~Renders(game, f) /\ ReleaseGame(game)
       \/ ReleaseGame(game)                        \* the key map fails
    /\ UNCHANGED <<selected, switches, ready, gesture, tool, active, started>>

Taken == [game EXCEPT !.queue = Tail(@)]

\* update_game_control: an input that the key map rejects changes nothing; an
\* accepted one is kept, and extends the lease, even when its frame fails.
GameInput ==
    /\ game.at = "select" /\ game.queue # <<>> /\ tool[Head(game.queue)].kind = "set"
    /\ LET t == Head(game.queue)
       IN \/ AnswerAsks({t}, "failed") /\ game' = [Taken EXCEPT !.at = "top"] /\ UNCHANGED down
          \/ \E button \in BOOLEAN :
                LET g == [Taken EXCEPT !.button = button, !.due = FALSE]
                IN \/ \E f \in Frames(g) : Renders(g, f) /\ RenderGame(g, f) /\ AnswerAsks({t}, "done")
                   \/ \E f \in Frames(g) : ~Renders(g, f) /\ ReleaseGame(g) /\ AnswerAsks({t}, "failed")
                   \/ game' = [g EXCEPT !.at = "top"] /\ UNCHANGED down /\ AnswerAsks({t}, "failed")
    /\ UNCHANGED <<selected, switches, ready, gesture, active, started>>

GameStops ==
    /\ game.at = "select" /\ game.queue # <<>> /\ tool[Head(game.queue)].kind = "stop"
    /\ ReleaseGame([Taken EXCEPT !.stopper = Head(game.queue)])
    /\ UNCHANGED <<selected, switches, ready, gesture, tool, active, started>>

\* clear_game_control_session, the answer to a Stop, and the end of the task:
\* its lock is free, and whoever is still queued gets a closed channel.
GameEnds ==
    /\ game.at = "ending"
    /\ active' = IF active.id = game.id THEN NoGame ELSE active
    /\ gesture' = NoTool /\ game' = IdleGame
    /\ tool' = [t \in Tools |->
          IF tool[t].at # "asked" THEN tool[t]
          ELSE IF t = game.stopper THEN [tool[t] EXCEPT !.at = "done"]
          ELSE IF t \in Range(game.queue) THEN [tool[t] EXCEPT !.at = "failed"] ELSE tool[t]]
    /\ UNCHANGED <<selected, switches, ready, down, started>>

GameTask == GameLocks \/ LeasePasses \/ GameTurn \/ GameTicks \/ GameInput \/ GameStops \/ GameEnds

----------------------------------------------------------------------------
\* connect_device, reconnect_device: the connection's session is replaced
\* while its other calls go on.
SwitchDevice(d) ==
    /\ d # selected /\ switches < MaxSwitches
    /\ selected' = d /\ switches' = switches + 1
    /\ tool' = [t \in Tools |-> [tool[t] EXCEPT !.strayed = TRUE]]
    /\ UNCHANGED <<ready, down, gesture, active, started, game>>

\* The session of a device ends, which closes its HID services, or is back.
DeviceChanges(d) ==
    /\ ready' = [ready EXCEPT ![d] = ~@]
    /\ down' = [down EXCEPT ![d] = {}]
    /\ UNCHANGED <<selected, switches, gesture, tool, active, started, game>>

McpNext ==
    \/ \E t \in Tools :
          \/ \E k \in Gestures \cup {"keymap", "start", "set", "stop"} : Begin(t, k)
          \/ Locks(t) \/ Tap(t) \/ Swipe(t) \/ MultiTouch(t) \/ RunKeymap(t)
          \/ StartGame(t) \/ SpawnGame(t) \/ GameAsks(t) \/ AskTimesOut(t)
    \/ GameTask
    \/ \E d \in InputDevices : SwitchDevice(d) \/ DeviceChanges(d)

McpSpec == McpInit /\ [][McpNext]_mcpVars

----------------------------------------------------------------------------
PressedBy(who) == {d \in InputDevices : \E x \in down[d] : x[2] = who}

\* What a tool pressed is down only while the tool runs, unless the selection
\* changed under it; what a game session pressed is down only on its device
\* and only while its loop runs: expiry, a stop, a key map error and a failed
\* send all release it ("Expiry, `stop_game_session`, a device-input failure,
\* or session shutdown releases every active touch and hardware button").
InputReleased ==
    /\ \A t \in Tools : PressedBy(t) # {} => gesture = t \/ tool[t].strayed
    /\ PressedBy("game") \subseteq {game.on} /\ (PressedBy("game") # {} => game.at \in {"top", "select"})

\* run_keymap "always sends touch and hardware-button releases before
\* returning" to "this MCP connection's explicitly selected device".
ReleasedBeforeReturning ==
    \A t \in Tools : tool[t].kind = "keymap" /\ tool[t].at \in {"done", "failed"} => PressedBy(t) = {}
=============================================================================
