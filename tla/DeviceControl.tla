---------------------------- MODULE DeviceControl ----------------------------
(***************************************************************************)
(* What the control lease promises about a device, without connections and *)
(* notices: one controller at a time, input only from it, and a controller *)
(* gives the device up only when nothing that was pressed is still down.   *)
(***************************************************************************)
CONSTANTS
    Clients,
    Devices,
    Inputs,      \* keys, contacts and buttons
    Nobody

VARIABLES
    controller,  \* controller[d]: who controls d, or Nobody
    down         \* down[d]: what is down on d

controlVars == <<controller, down>>

ControlInit ==
    /\ controller = [d \in Devices |-> Nobody]
    /\ down = [d \in Devices |-> {}]

Take(d, c) ==
    /\ controller[d] = Nobody
    /\ controller' = [controller EXCEPT ![d] = c]
    /\ UNCHANGED down

\* The controller changes what is down, on its device only.
Operate(d, c) ==
    /\ controller[d] = c
    /\ \E now \in SUBSET Inputs : down' = [down EXCEPT ![d] = now]
    /\ UNCHANGED controller

\* The device's own services go down; nothing is pressed by that.
Reset(d) ==
    /\ \E rest \in SUBSET down[d] : down' = [down EXCEPT ![d] = rest]
    /\ UNCHANGED controller

GiveUp(d, c) ==
    /\ controller[d] = c
    /\ down[d] = {}
    /\ controller' = [controller EXCEPT ![d] = Nobody]
    /\ UNCHANGED down

ControlNext ==
    \E d \in Devices :
        \/ Reset(d)
        \/ \E c \in Clients : Take(d, c) \/ Operate(d, c) \/ GiveUp(d, c)

ControlSpec == ControlInit /\ [][ControlNext]_controlVars
=============================================================================
