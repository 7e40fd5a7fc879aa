------------------------------ MODULE MCKeymap ------------------------------
(* Profiles for model checking the keymap session.                         *)
EXTENDS KeymapSession

CONSTANTS k1, k2, k3

Blank == [id |-> None, kind |-> "Press", identity |-> 0, bind |-> {},
          pad |-> [up |-> {}, down |-> {}, left |-> {}, right |-> {}], axes |-> {},
          duration |-> 1, interval |-> 1, items |-> <<>>, sync |-> FALSE, preserve |-> FALSE,
          mode |-> "release", touch |-> "single", another |-> 0, handoff |-> 1,
          blocks |-> FALSE, noDirection |-> FALSE, before |-> NoPlan, after |-> NoPlan]
Map(id, kind, bind) == [Blank EXCEPT !.id = id, !.kind = kind, !.bind = bind]
Plan(d, as) == [duration |-> d, actions |-> as, fails |-> FALSE, empty |-> FALSE]
Act(t, ty, i) == [at |-> t, act |-> [type |-> ty, identity |-> i, id |-> None, key |-> "home"]]
Profile(maps, scripts, hardware) ==
    [maps |-> maps, scripts |-> scripts, hardware |-> hardware, configured |-> FALSE]

\* Taps that share an identity, and a pointer that takes it.
Leased == Profile(<<Map("press", "Press", {k1}),
                    [Map("repeat", "RepeatTap", {k2}) EXCEPT !.identity = 1],
                    Map("tap", "SingleTap", {k1, k2}),
                    [Map("look", "Observation", {k3}) EXCEPT !.identity = 1]>>, <<>>, << >>)
\* Pulses and pads.
Pulses == Profile(<<[Map("swipe", "Swipe", {k1}) EXCEPT !.duration = 2],
                    [Map("multi", "MultipleTap", {k2}) EXCEPT !.duration = 2,
                         !.items = <<[wait |-> 1, touch |-> 1]>>],
                    [Map("stick", "DirectionPad", {}) EXCEPT !.axes = {"LeftStickX"}]>>,
                  <<>>, << >>)
\* FPS with either handoff, interrupted by Fire.
Fps(touch) == Profile(<<[Map("fps", "Fps", {k1}) EXCEPT !.touch = touch, !.another = 1],
                        [Map("fire", "Fire", {k2}) EXCEPT !.identity = 1],
                        Map("press", "Press", {k3})>>, <<>>, << >>)
\* Casts of every release mode and their cancellation.
Casts == Profile(<<[Map("pad", "PadCast", {k1}) EXCEPT !.blocks = TRUE, !.pad.up = {k3}],
                   [Map("mouse", "MouseCast", {k2}) EXCEPT !.mode = "press", !.identity = 1],
                   [Map("dir", "DirectionPad", {}) EXCEPT !.pad.left = {k1}, !.pad.right = {k2}],
                   Map("cancel", "CancelCast", {k3})>>, <<>>, << >>)
Toggled == Profile(<<[Map("mouse", "MouseCast", {k1}) EXCEPT !.mode = "secondPress"],
                     [Map("sync", "SingleTap", {k2}) EXCEPT !.sync = TRUE]>>, <<>>, [home |-> k3])
\* Mappings with hooks, and the home button, which a hook presses too.
Hooks == <<[Map("hooked", "SingleTap", {k2}) EXCEPT !.before = Plan(1, <<>>), !.duration = 2,
                !.after = Plan(1, <<Act(0, "buttonDown", 0), Act(1, "buttonUp", 0)>>)],
           [Map("cast", "MouseCast", {k2}) EXCEPT !.before = Plan(1, <<>>)]>>
HookedTaps == Profile(Hooks, <<>>, [home |-> k3])
\* The hooks and a script.
Scripted ==
    Profile(Hooks,
            <<[id |-> "script", bind |-> {k1}, interval |-> 1,
               pressed |-> Plan(1, <<Act(0, "touch", 0), Act(0, "keyDown", 0), Act(1, "lift", 0), Act(1, "keyUp", 0)>>),
               held |-> Plan(0, <<Act(0, "touch", 0), Act(0, "lift", 0)>>),
               released |-> NoPlan]>>, << >>)
\* A pointer on the key of a cast that can be cancelled.
Shared == Profile(<<Map("pad", "PadCast", {k1}), [Map("look", "Observation", {k1}) EXCEPT !.identity = 1],
                    Map("cancel", "CancelCast", {k3})>>, <<>>, << >>)
\* A hardware key that a mapping uses: rejected.
Clashing == Profile(<<Map("press", "Press", {k1})>>, <<>>, [home |-> k1])

AllProfiles == {Leased, Pulses, Fps("single"), Fps("overlap"), Casts, Shared, Toggled, HookedTaps, Scripted, Clashing}
=============================================================================
