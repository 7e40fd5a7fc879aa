---------------------------- MODULE ControlLease ----------------------------
(***************************************************************************)
(* The control WebSocket of the private server: one browser connection at  *)
(* a time controls a device (websocket/control_lease.rs), the others watch *)
(* and take over when the controller leaves (websocket/transport.rs).      *)
(*                                                                         *)
(* The connections are tasks of a multi-threaded executor.  An action is   *)
(* what one of them does up to its next await or to its next access to the *)
(* shared lease table or to its broadcast channel.                         *)
(***************************************************************************)
EXTENDS Naturals, Sequences

CONSTANTS
    Clients,    \* control connections
    Devices,    \* selection ids
    Target,     \* the device each connection was opened for
    Keys,       \* keyboard usages
    Contacts,   \* touch contacts and hardware buttons
    Capacity,   \* of the broadcast channel of release notices
    NoClient    \* "nobody"

ASSUME TargetAssumption == Target \in [Clients -> Devices]
ASSUME CapacityAssumption == Capacity \in Nat \ {0}
ASSUME NoClientAssumption == NoClient \notin Clients
ASSUME InputsAssumption == Keys \cap Contacts = {}

VARIABLES
    conn,       \* where a connection is
    owners,     \* BrowserControlLeases.owners
    lease,      \* does the connection hold a BrowserControlLease guard?
    granted,    \* ClientConnectionState.control_granted
    inbox,      \* release notices the connection has not received yet
    lagged,     \* were notices overwritten before it received them?
    pressed,    \* pressed_keyboard
    mapped,     \* what its BrowserKeymapSession holds down
    keymap,     \* is a key map configured?
    up,         \* does the device have a session that takes commands?
    held        \* what is down on the device once its queue is worked off

leaseVars == <<conn, owners, lease, granted, inbox, lagged>>
inputVars == <<pressed, mapped, keymap, up, held>>
vars == <<conn, owners, lease, granted, inbox, lagged,
          pressed, mapped, keymap, up, held>>

TypeOK ==
    /\ conn \in [Clients -> {"closed", "shaking", "subscribed", "greeting",
                             "open", "leaving"}]
    /\ owners \in [Devices -> Clients \cup {NoClient}]
    /\ lease \in [Clients -> BOOLEAN]
    /\ granted \in [Clients -> BOOLEAN]
    /\ inbox \in [Clients -> Seq(Devices)]
    /\ \A c \in Clients : Len(inbox[c]) <= Capacity
    /\ lagged \in [Clients -> BOOLEAN]
    /\ pressed \in [Clients -> SUBSET Keys]
    /\ mapped \in [Clients -> SUBSET (Keys \cup Contacts)]
    /\ keymap \in [Clients -> BOOLEAN]
    /\ up \in [Devices -> BOOLEAN]
    /\ held \in [Devices -> SUBSET (Keys \cup Contacts)]

Init ==
    /\ conn = [c \in Clients |-> "closed"]
    /\ owners = [d \in Devices |-> NoClient]
    /\ lease = [c \in Clients |-> FALSE]
    /\ granted = [c \in Clients |-> FALSE]
    /\ inbox = [c \in Clients |-> <<>>]
    /\ lagged = [c \in Clients |-> FALSE]
    /\ pressed = [c \in Clients |-> {}]
    /\ mapped = [c \in Clients |-> {}]
    /\ keymap = [c \in Clients |-> FALSE]
    /\ up = [d \in Devices |-> FALSE]
    /\ held = [d \in Devices |-> {}]

-----------------------------------------------------------------------------
(***************************************************************************)
(* Connecting and the lease.                                               *)
(***************************************************************************)

Connect(c) ==
    /\ conn[c] = "closed"
    /\ conn' = [conn EXCEPT ![c] = "shaking"]
    /\ UNCHANGED <<owners, lease, granted, inbox, lagged>>
    /\ UNCHANGED inputVars

\* No valid client_hello within CLIENT_HELLO_TIMEOUT.
HelloRejected(c) ==
    /\ conn[c] = "shaking"
    /\ conn' = [conn EXCEPT ![c] = "closed"]
    /\ UNCHANGED <<owners, lease, granted, inbox, lagged>>
    /\ UNCHANGED inputVars

\* The release notices from here on are received.
Subscribe(c) ==
    /\ conn[c] = "shaking"
    /\ conn' = [conn EXCEPT ![c] = "subscribed"]
    /\ inbox' = [inbox EXCEPT ![c] = <<>>]
    /\ lagged' = [lagged EXCEPT ![c] = FALSE]
    /\ UNCHANGED <<owners, lease, granted>>
    /\ UNCHANGED inputVars

MutantTryAcquire(c) ==
    LET free == TRUE IN
    /\ owners' = IF free THEN [owners EXCEPT ![Target[c]] = c] ELSE owners
    /\ lease' = [lease EXCEPT ![c] = free]
    /\ granted' = [granted EXCEPT ![c] = free]

\* try_acquire: under the lock, for a device nobody owns.
TryAcquire(c) ==
    LET free == owners[Target[c]] = NoClient IN
    /\ owners' = IF free THEN [owners EXCEPT ![Target[c]] = c] ELSE owners
    /\ lease' = [lease EXCEPT ![c] = free]
    /\ granted' = [granted EXCEPT ![c] = free]

FirstAcquire(c) ==
    /\ conn[c] = "subscribed"
    /\ TryAcquire(c)
    /\ conn' = [conn EXCEPT ![c] = "greeting"]
    /\ UNCHANGED <<inbox, lagged>>
    /\ UNCHANGED inputVars

MutantGreeted(c) ==
    /\ conn[c] = "greeting"
    /\ \E next \in {"open", "leaving"} : conn' = [conn EXCEPT ![c] = next]
    /\ inbox' = [inbox EXCEPT ![c] = <<>>]
    /\ UNCHANGED <<owners, lease, granted, lagged>>
    /\ UNCHANGED inputVars

\* server_hello was sent, or could not be: then nothing was pressed yet and
\* the guard is dropped.
Greeted(c) ==
    /\ conn[c] = "greeting"
    /\ \E next \in {"open", "leaving"} : conn' = [conn EXCEPT ![c] = next]
    /\ UNCHANGED <<owners, lease, granted, inbox, lagged>>
    /\ UNCHANGED inputVars

MutantNotified(c) ==
    /\ conn[c] = "open" /\ ~lease[c]
    /\ lagged[c] \/ inbox[c] # <<>>
    /\ lagged' = [lagged EXCEPT ![c] = FALSE]
    /\ inbox' = IF lagged[c] THEN inbox ELSE [inbox EXCEPT ![c] = Tail(@)]
    /\ IF ~lagged[c] /\ Head(inbox[c]) = Target[c]
       THEN TryAcquire(c)
       ELSE UNCHANGED <<owners, lease, granted>>
    /\ UNCHANGED conn
    /\ UNCHANGED inputVars

\* A waiting connection receives a notice, or the report that it lagged
\* behind: for its own device, or not knowing which, it tries again.
Notified(c) ==
    /\ conn[c] = "open" /\ ~lease[c]
    /\ lagged[c] \/ inbox[c] # <<>>
    /\ lagged' = [lagged EXCEPT ![c] = FALSE]
    /\ inbox' = IF lagged[c] THEN inbox ELSE [inbox EXCEPT ![c] = Tail(@)]
    /\ IF lagged[c] \/ Head(inbox[c]) = Target[c]
       THEN TryAcquire(c)
       ELSE UNCHANGED <<owners, lease, granted>>
    /\ UNCHANGED conn
    /\ UNCHANGED inputVars

Subscribed(c) == conn[c] \in {"subscribed", "greeting", "open", "leaving"}

\* The broadcast of a notice for d: a receiver that is Capacity notices
\* behind loses its oldest one.
Deliver(q, d) == Append(IF Len(q) >= Capacity THEN Tail(q) ELSE q, d)

\* The end of run: the guard is dropped, which removes the owner and sends
\* the notice under one lock, and then the receiver.
Release(c) ==
    /\ conn[c] = "leaving"
    /\ conn' = [conn EXCEPT ![c] = "closed"]
    /\ IF lease[c]
       THEN /\ owners' = [owners EXCEPT ![Target[c]] = NoClient]
            /\ inbox' = [o \in Clients |-> IF Subscribed(o)
                           THEN Deliver(inbox[o], Target[c]) ELSE inbox[o]]
            /\ lagged' = [o \in Clients |->
                           lagged[o] \/ (Subscribed(o) /\ Len(inbox[o]) >= Capacity)]
       ELSE UNCHANGED <<owners, inbox, lagged>>
    /\ lease' = [lease EXCEPT ![c] = FALSE]
    /\ granted' = [granted EXCEPT ![c] = FALSE]
    /\ pressed' = [pressed EXCEPT ![c] = {}]
    /\ mapped' = [mapped EXCEPT ![c] = {}]
    /\ keymap' = [keymap EXCEPT ![c] = FALSE]
    /\ UNCHANGED <<up, held>>

-----------------------------------------------------------------------------
(***************************************************************************)
(* Input of a controlling connection.  Commands go through the session's   *)
(* command slot, which drops them while the device has no session.         *)
(***************************************************************************)
Controls(c) == conn[c] = "open" /\ granted[c]

\* The commands put downs down and then ups up on the device of c.
Send(c, downs, ups) ==
    held' = IF up[Target[c]]
            THEN [held EXCEPT ![Target[c]] = (@ \cup downs) \ ups] ELSE held

KeyboardDown(c, k) ==
    /\ Controls(c) /\ k \notin pressed[c]
    /\ pressed' = [pressed EXCEPT ![c] = @ \cup {k}]
    /\ Send(c, {k}, {})
    /\ UNCHANGED <<mapped, keymap, up>>
    /\ UNCHANGED leaseVars

KeyboardUp(c, k) ==
    /\ Controls(c) /\ k \in pressed[c]
    /\ pressed' = [pressed EXCEPT ![c] = @ \ {k}]
    /\ Send(c, {}, {k})
    /\ UNCHANGED <<mapped, keymap, up>>
    /\ UNCHANGED leaseVars

\* MultiTouch, ButtonDown and ButtonUp are forwarded as they come.
Touch(c) ==
    /\ Controls(c)
    /\ \E downs \in SUBSET Contacts : \E ups \in SUBSET (Contacts \ downs) :
          Send(c, downs, ups)
    /\ UNCHANGED <<pressed, mapped, keymap, up>>
    /\ UNCHANGED leaseVars

MutantKeymapUps(c) == mapped[c] \cap Contacts

\* What BrowserKeymapSession::release puts up: the contacts and buttons of
\* its mappings and the keys and buttons of its scripts.
KeymapUps(c) == mapped[c]

\* KeymapConfigure replaces the key map; KeymapStop, an invalid profile and
\* an error of the key map's runtime leave none.
KeymapReset(c, configured) ==
    /\ Controls(c)
    /\ keymap[c] \/ configured
    /\ Send(c, {}, KeymapUps(c))
    /\ mapped' = [mapped EXCEPT ![c] = {}]
    /\ keymap' = [keymap EXCEPT ![c] = configured]
    /\ UNCHANGED <<pressed, up>>
    /\ UNCHANGED leaseVars

\* KeymapInput, KeymapDirectTouches or the 16 ms tick: the key map renders a
\* frame, whose scripts may hold any keys and whose mappings any contacts;
\* only the difference to the last frame is sent.
KeymapRender(c) ==
    /\ Controls(c) /\ keymap[c]
    /\ \E frame \in SUBSET (Keys \cup Contacts) :
          /\ mapped' = [mapped EXCEPT ![c] = frame]
          /\ Send(c, frame \ mapped[c], mapped[c] \ frame)
    /\ UNCHANGED <<pressed, keymap, up>>
    /\ UNCHANGED leaseVars

\* The connection ends (closed, lost, or a protocol error): a controller
\* first releases its key map, every contact and button and its own keys.
Leave(c) ==
    /\ conn[c] = "open"
    /\ conn' = [conn EXCEPT ![c] = "leaving"]
    /\ IF granted[c] THEN Send(c, {}, KeymapUps(c) \cup Contacts \cup pressed[c])
                     ELSE UNCHANGED held
    /\ UNCHANGED <<owners, lease, granted, inbox, lagged, pressed, mapped, keymap, up>>

\* The session task ends: its command slot is emptied and its HID services
\* are closed, which puts everything up.
SessionEnds(d) ==
    /\ up[d]
    /\ up' = [up EXCEPT ![d] = FALSE]
    /\ held' = [held EXCEPT ![d] = {}]
    /\ UNCHANGED <<pressed, mapped, keymap>>
    /\ UNCHANGED leaseVars

\* An attempt of the task ends and another will follow: the HID services are
\* closed, but commands the session did not take yet wait for the next one.
HidCloses(d) ==
    /\ up[d]
    /\ \E queued \in SUBSET held[d] : held' = [held EXCEPT ![d] = queued]
    /\ UNCHANGED <<pressed, mapped, keymap, up>>
    /\ UNCHANGED leaseVars

SessionStarts(d) ==
    /\ ~up[d]
    /\ up' = [up EXCEPT ![d] = TRUE]
    /\ UNCHANGED <<pressed, mapped, keymap, held>>
    /\ UNCHANGED leaseVars

Connection(c) ==
    \/ Connect(c) \/ HelloRejected(c) \/ Subscribe(c) \/ FirstAcquire(c)
    \/ Greeted(c) \/ Notified(c) \/ Leave(c) \/ Release(c)

Input(c) ==
    \/ \E k \in Keys : KeyboardDown(c, k) \/ KeyboardUp(c, k)
    \/ Touch(c)
    \/ \E configured \in BOOLEAN : KeymapReset(c, configured)
    \/ KeymapRender(c)

Next ==
    \/ \E c \in Clients : Connection(c) \/ Input(c)
    \/ \E d \in Devices : SessionEnds(d) \/ HidCloses(d) \/ SessionStarts(d)

Spec == Init /\ [][Next]_vars

\* The executor polls a connection that has something to do; clients and
\* devices do what they like.
FairSpec ==
    Spec /\ \A c \in Clients : /\ WF_vars(FirstAcquire(c)) /\ WF_vars(Greeted(c))
                               /\ WF_vars(Notified(c)) /\ WF_vars(Release(c))

-----------------------------------------------------------------------------
(***************************************************************************)
(* Correctness.                                                            *)
(***************************************************************************)

\* Whoever is allowed to send input owns the lease of its device, so no
\* device ever has two controllers, whatever order connections acquire, wait
\* and leave in.
SingleController ==
    \A c \in Clients : granted[c] \/ lease[c] =>
        owners[Target[c]] = c /\ granted[c] /\ lease[c]

\* Whatever is down on a device was pressed by its present controller; a
\* device that nobody controls has nothing down.  ("A control disconnect
\* releases its lease and all active controls.")
HeldByController ==
    \A d \in Devices : \A x \in held[d] :
        \E c \in Clients : /\ owners[d] = c /\ conn[c] = "open"
                           /\ x \in pressed[c] \cup mapped[c] \cup Contacts

Received(q) == {q[k] : k \in 1..Len(q)}

Waiting(c) == conn[c] \in {"greeting", "open"} /\ ~lease[c]

\* No lost wake-up: when a device has no controller, everyone who waits for
\* it has a notice of that device to come, or knows that it missed some.
WaiterNotified ==
    \A c \in Clients :
        Waiting(c) /\ owners[Target[c]] = NoClient
            => lagged[c] \/ Target[c] \in Received(inbox[c])

\* "When the controlling tab closes, one waiting observer acquires the lease
\* automatically without reconnecting": a free device somebody waits for gets
\* a controller, unless everyone who waits leaves.
FreeDeviceTaken ==
    \A d \in Devices :
        (owners[d] = NoClient /\ \E c \in Clients : Target[c] = d /\ Waiting(c))
            ~> (owners[d] # NoClient \/ ~\E c \in Clients : Target[c] = d /\ Waiting(c))
=============================================================================
