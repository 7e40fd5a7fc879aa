----------------------------- MODULE SessionLife -----------------------------
(***************************************************************************)
(* What the session manager promises about the sessions of the selections, *)
(* without its queues, slots, channels and tasks: at any time a selection  *)
(* is used by one session or by the manager itself, never by both; a       *)
(* management action that met a session is carried out in the step that    *)
(* accounts for the session's end; and the published phase goes from       *)
(* connecting over connected and disconnecting to disconnected.            *)
(***************************************************************************)
CONSTANTS
    Ids,         \* identifiers of selections
    DeviceOf,    \* the physical device of each
    Actions,     \* management actions, "pair" and "forget" among them
    MayOverlap   \* may a scan hide a device in use, and a second transport start?

VARIABLES
    manager,     \* "running", "quitting" or "stopped"
    use,         \* use[i]: "free", "session", or "over": ended, not yet accounted
    told,        \* told[i]: was the session told to stop?
    waiting,     \* waiting[i]: the action that waits for the end of the session
    registered,  \* the selections in the registry
    shown        \* shown[i]: the published phase

lifeVars == <<manager, use, told, waiting, registered, shown>>

LifeInit ==
    /\ manager = "running"
    /\ use = [i \in Ids |-> "free"]
    /\ told = [i \in Ids |-> FALSE]
    /\ waiting = [i \in Ids |-> "none"]
    /\ registered = {}
    /\ shown = [i \in Ids |-> "disconnected"]

Tell(S) == told' = [i \in Ids |-> told[i] \/ (i \in S /\ use[i] = "session")]

-----------------------------------------------------------------------------
(* Clients                                                                 *)

\* A connection is asked for; nothing happens to a session that is there.
Wish(i) ==
    /\ registered' = registered \cup {i}
    /\ shown' = IF use[i] = "free" THEN [shown EXCEPT ![i] = "discovered"] ELSE shown
    /\ UNCHANGED <<use, told, waiting>>

Drop(i) ==
    /\ Tell({i})
    /\ shown' = IF use[i] = "free" /\ i \in registered
                THEN [shown EXCEPT ![i] = "disconnected"] ELSE shown
    /\ UNCHANGED <<use, waiting, registered>>

Renew(i) ==
    /\ registered' = registered \cup {i}
    /\ Tell({i})
    /\ UNCHANGED <<use, waiting, shown>>

\* What a management action does to the registry and to the phase.
Effect(i, action) ==
    /\ registered' = IF action = "forget" THEN registered \ {i} ELSE registered \cup {i}
    /\ shown' \in CASE action = "forget" -> {[shown EXCEPT ![i] = "disconnected"]}
                    [] action = "pair" -> {shown, [shown EXCEPT ![i] = "connecting"]}
                    [] OTHER -> {shown}

ActNow(i, action) ==
    /\ use[i] = "free"
    /\ Effect(i, action)
    /\ UNCHANGED <<use, told, waiting>>

ActLater(i, action) ==
    /\ use[i] # "free"
    /\ registered' = registered \cup {i}
    /\ waiting' = [waiting EXCEPT ![i] = action]
    /\ Tell({i})
    /\ UNCHANGED <<use, shown>>

Asks(i) ==
    /\ manager = "running" /\ UNCHANGED manager
    /\ \/ Wish(i) \/ Drop(i) \/ Renew(i)
       \/ \E action \in Actions : ActNow(i, action) \/ ActLater(i, action)

-----------------------------------------------------------------------------
(* The manager                                                             *)

\* Sessions start on selections that nobody uses, one for each device.
Start(won, refused) ==
    /\ manager = "running"
    /\ \A i \in won : use[i] = "free"
    /\ \A i, j \in won : DeviceOf[i] = DeviceOf[j] => i = j
    /\ \/ MayOverlap
       \/ /\ \A i \in won, j \in Ids : DeviceOf[i] = DeviceOf[j] => use[j] = "free"
          /\ \A i \in refused : use[i] = "free"
    /\ use' = [i \in Ids |-> IF i \in won THEN "session" ELSE use[i]]
    /\ registered' = registered \cup won \cup refused
    /\ shown' = [i \in Ids |-> IF i \in refused THEN "disconnected" ELSE shown[i]]
    /\ UNCHANGED <<manager, told, waiting>>

\* The end of a session is accounted for, and with it the action that waits.
Account(i) ==
    /\ manager = "running" /\ UNCHANGED manager
    /\ use[i] = "over"
    /\ use' = [use EXCEPT ![i] = "free"]
    /\ waiting' = [waiting EXCEPT ![i] = "none"]
    /\ IF waiting[i] = "none" THEN UNCHANGED <<registered, shown>> ELSE Effect(i, waiting[i])
    /\ UNCHANGED told

\* Every session is told to stop, however it was started.
TellAll ==
    /\ manager = "running" /\ manager' = "quitting"
    /\ Tell(Ids)
    /\ UNCHANGED <<use, waiting, registered, shown>>

CountDown(i) ==
    /\ manager = "quitting" /\ UNCHANGED manager
    /\ use[i] = "over"
    /\ use' = [use EXCEPT ![i] = "free"]
    /\ UNCHANGED <<told, waiting, registered, shown>>

\* The sessions that are left are dropped; nothing happens any more.
Close ==
    /\ manager = "quitting" /\ manager' = "stopped"
    /\ use' = [i \in Ids |-> IF use[i] = "session" THEN "over" ELSE use[i]]
    /\ told' = [i \in Ids |-> FALSE]
    /\ UNCHANGED <<waiting, registered, shown>>

-----------------------------------------------------------------------------
(* The sessions                                                            *)

\* A session publishes phase next after one of the phases before it.
Publishes(i, before, next) ==
    /\ use[i] = "session"
    /\ shown[i] \in before \/ MayOverlap
    /\ shown' = [shown EXCEPT ![i] = next]

Proceeds(i) ==
    /\ \/ Publishes(i, {"discovered", "disconnected", "connecting", "recovering"}, "connecting")
       \/ Publishes(i, {"connecting"}, "connected")
       \/ Publishes(i, {"connecting"}, "recovering")
       \/ Publishes(i, {"connected"}, "disconnecting")
    /\ UNCHANGED <<manager, use, told, waiting, registered>>

Ends(i) ==
    /\ Publishes(i, {"connecting", "recovering", "disconnecting"}, "disconnected")
    /\ use' = [use EXCEPT ![i] = "over"]
    /\ told' = [told EXCEPT ![i] = FALSE]
    /\ UNCHANGED <<manager, waiting, registered>>

LifeNext ==
    \/ \E i \in Ids : Asks(i) \/ Account(i) \/ CountDown(i) \/ Proceeds(i) \/ Ends(i)
    \/ \E won, refused \in SUBSET Ids : Start(won, refused)
    \/ TellAll \/ Close

LifeSpec == LifeInit /\ [][LifeNext]_lifeVars
=============================================================================
