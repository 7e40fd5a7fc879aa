------------------------- MODULE ControlLeaseProofs -------------------------
(***************************************************************************)
(* Proofs about ControlLease for every set of connections, devices, keys   *)
(* and contacts and every capacity of the notice channel.                  *)
(***************************************************************************)
EXTENDS ControlLease, TLAPS

\* A delivered notice is in the channel, and only a full channel loses one.
LEMMA DeliverFacts ==
    ASSUME NEW q \in Seq(Devices), NEW d \in Devices, Len(q) <= Capacity
    PROVE  /\ Deliver(q, d) \in Seq(Devices)
           /\ Len(Deliver(q, d)) <= Capacity
           /\ d \in Received(Deliver(q, d))
           /\ Len(q) < Capacity => Received(q) \subseteq Received(Deliver(q, d))
<1> DEFINE p == IF Len(q) >= Capacity THEN Tail(q) ELSE q
<1>1. Len(q) \in Nat /\ Capacity \in Nat /\ Capacity >= 1
  BY CapacityAssumption
<1>2. p \in Seq(Devices) /\ Len(p) \in Nat /\ Len(p) + 1 <= Capacity
  <2>1. CASE Len(q) >= Capacity
    <3>1. q # <<>>
      BY <2>1, <1>1
    <3>2. Tail(q) \in Seq(Devices) /\ Len(Tail(q)) = Len(q) - 1
      BY <3>1
    <3> QED BY <2>1, <3>2, <1>1
  <2>2. CASE ~(Len(q) >= Capacity)
    BY <2>2, <1>1
  <2> QED BY <2>1, <2>2
<1>3. Deliver(q, d) = Append(p, d)
  BY DEF Deliver
<1> HIDE DEF p
<1>4. /\ Append(p, d) \in Seq(Devices)
      /\ Len(Append(p, d)) = Len(p) + 1
      /\ Append(p, d)[Len(p) + 1] = d
      /\ \A k \in 1..Len(p) : Append(p, d)[k] = p[k]
  BY <1>2
<1>5. Deliver(q, d) \in Seq(Devices) /\ Len(Deliver(q, d)) <= Capacity
  BY <1>2, <1>3, <1>4
<1>6. Len(p) + 1 \in 1..Len(Append(p, d))
  BY <1>2, <1>4
<1>7. d \in Received(Deliver(q, d))
  BY <1>3, <1>4, <1>6 DEF Received
<1>8. ASSUME Len(q) < Capacity PROVE Received(q) \subseteq Received(Deliver(q, d))
  <2>1. p = q
    BY <1>8, <1>1 DEF p
  <2>2. \A k \in 1..Len(q) : k \in 1..Len(Append(p, d))
    BY <2>1, <1>1, <1>4
  <2> QED BY <2>1, <2>2, <1>3, <1>4 DEF Received
<1> QED BY <1>5, <1>7, <1>8

\* Receiving a notice leaves all the others.
LEMMA TailFacts ==
    ASSUME NEW q \in Seq(Devices), q # <<>>, Len(q) <= Capacity
    PROVE  /\ Tail(q) \in Seq(Devices)
           /\ Len(Tail(q)) <= Capacity
           /\ Head(q) \in Devices
           /\ Received(q) \ {Head(q)} \subseteq Received(Tail(q))
<1>1. Len(q) \in Nat /\ Len(q) >= 1 /\ Head(q) = q[1] /\ Capacity \in Nat
  BY CapacityAssumption
<1>2. /\ Tail(q) \in Seq(Devices) /\ Len(Tail(q)) = Len(q) - 1
      /\ \A k \in 1..Len(Tail(q)) : Tail(q)[k] = q[k + 1]
  OBVIOUS
<1>3. ASSUME NEW e \in Received(q) \ {Head(q)} PROVE e \in Received(Tail(q))
  <2>1. PICK k \in 1..Len(q) : e = q[k]
    BY DEF Received
  <2>2. k # 1
    BY <2>1, <1>1, <1>3
  <2>3. k - 1 \in 1..Len(Tail(q)) /\ Tail(q)[k - 1] = q[k]
    BY <2>2, <1>1, <1>2
  <2> QED BY <2>1, <2>3 DEF Received
<1>4. Head(q) \in Devices /\ Len(Tail(q)) <= Capacity
  BY <1>1, <1>2
<1> QED BY <1>2, <1>3, <1>4

-----------------------------------------------------------------------------
(***************************************************************************)
(* Type correctness.                                                       *)
(***************************************************************************)

\* Acquiring keeps the types of what it writes.
LEMMA AcquireType ==
    ASSUME TypeOK, NEW c \in Clients, TryAcquire(c)
    PROVE  /\ owners' \in [Devices -> Clients \cup {NoClient}]
           /\ lease' \in [Clients -> BOOLEAN]
           /\ granted' \in [Clients -> BOOLEAN]
<1>1. owners' \in [Devices -> Clients \cup {NoClient}]
  BY TargetAssumption DEF TryAcquire, TypeOK
<1>2. lease' \in [Clients -> BOOLEAN] /\ granted' \in [Clients -> BOOLEAN]
  BY DEF TryAcquire, TypeOK
<1> QED BY <1>1, <1>2

\* Sending commands of a connection keeps the type of what is held.
LEMMA SendType ==
    ASSUME TypeOK, NEW c \in Clients, NEW downs \in SUBSET (Keys \cup Contacts),
           NEW ups, Send(c, downs, ups)
    PROVE  held' \in [Devices -> SUBSET (Keys \cup Contacts)]
BY TargetAssumption DEF Send, TypeOK

\* Releasing delivers a notice to every subscribed connection.
LEMMA ReleaseType ==
    ASSUME TypeOK, NEW c \in Clients, Release(c)
    PROVE  /\ owners' \in [Devices -> Clients \cup {NoClient}]
           /\ inbox' \in [Clients -> Seq(Devices)]
           /\ \A o \in Clients : Len(inbox'[o]) <= Capacity
           /\ lagged' \in [Clients -> BOOLEAN]
<1>1. Target[c] \in Devices
  BY TargetAssumption
<1>2. \A o \in Clients : inbox[o] \in Seq(Devices) /\ Len(inbox[o]) <= Capacity
  BY DEF TypeOK
<1>3. \A o \in Clients : /\ Deliver(inbox[o], Target[c]) \in Seq(Devices)
                         /\ Len(Deliver(inbox[o], Target[c])) <= Capacity
  BY <1>1, <1>2, DeliverFacts
<1>4. CASE lease[c]
  <2>1. inbox' = [o \in Clients |-> IF Subscribed(o)
                    THEN Deliver(inbox[o], Target[c]) ELSE inbox[o]]
    BY <1>4 DEF Release
  <2>2. /\ inbox' \in [Clients -> Seq(Devices)]
        /\ \A o \in Clients : Len(inbox'[o]) <= Capacity
    BY <2>1, <1>2, <1>3
  <2>3. owners' \in [Devices -> Clients \cup {NoClient}]
    BY <1>4 DEF Release, TypeOK
  <2>4. lagged' \in [Clients -> BOOLEAN]
    BY <1>4 DEF Release, TypeOK
  <2> QED BY <2>2, <2>3, <2>4
<1>5. CASE ~lease[c]
  BY <1>5 DEF Release, TypeOK
<1> QED BY <1>4, <1>5

LEMMA TypeStep ==
    ASSUME TypeOK, [Next]_vars
    PROVE  TypeOK'
<1>1. ASSUME NEW c \in Clients, Connect(c) PROVE TypeOK'
  BY <1>1 DEF Connect, TypeOK, inputVars
<1>2. ASSUME NEW c \in Clients, HelloRejected(c) PROVE TypeOK'
  BY <1>2 DEF HelloRejected, TypeOK, inputVars
<1>3. ASSUME NEW c \in Clients, Subscribe(c) PROVE TypeOK'
  <2>1. <<>> \in Seq(Devices) /\ Len(<<>>) <= Capacity
    BY CapacityAssumption
  <2>2. inbox' \in [Clients -> Seq(Devices)] /\ \A o \in Clients : Len(inbox'[o]) <= Capacity
    BY <1>3, <2>1 DEF Subscribe, TypeOK
  <2>3. lagged' \in [Clients -> BOOLEAN]
    BY <1>3 DEF Subscribe, TypeOK
  <2> QED BY <1>3, <2>2, <2>3 DEF Subscribe, TypeOK, inputVars
<1>4. ASSUME NEW c \in Clients, FirstAcquire(c) PROVE TypeOK'
  BY <1>4, AcquireType DEF FirstAcquire, TypeOK, inputVars
<1>5. ASSUME NEW c \in Clients, Greeted(c) PROVE TypeOK'
  BY <1>5 DEF Greeted, TypeOK, inputVars
<1>6. ASSUME NEW c \in Clients, Notified(c) PROVE TypeOK'
  <2>1. /\ owners' \in [Devices -> Clients \cup {NoClient}]
        /\ lease' \in [Clients -> BOOLEAN] /\ granted' \in [Clients -> BOOLEAN]
    BY <1>6, AcquireType DEF Notified, TypeOK
  <2>2. lagged' \in [Clients -> BOOLEAN]
    BY <1>6 DEF Notified, TypeOK
  <2>3. inbox' \in [Clients -> Seq(Devices)] /\ \A o \in Clients : Len(inbox'[o]) <= Capacity
    <3>1. CASE lagged[c]
      BY <1>6, <3>1 DEF Notified, TypeOK
    <3>2. CASE ~lagged[c]
      <4>1. /\ inbox[c] \in Seq(Devices) /\ inbox[c] # <<>> /\ Len(inbox[c]) <= Capacity
            /\ inbox' = [inbox EXCEPT ![c] = Tail(@)]
        BY <1>6, <3>2 DEF Notified, TypeOK
      <4>2. Tail(inbox[c]) \in Seq(Devices) /\ Len(Tail(inbox[c])) <= Capacity
        BY <4>1, TailFacts
      <4> QED BY <4>1, <4>2 DEF TypeOK
    <3> QED BY <3>1, <3>2
  <2> QED BY <1>6, <2>1, <2>2, <2>3 DEF Notified, TypeOK, inputVars
<1>7. ASSUME NEW c \in Clients, Leave(c) PROVE TypeOK'
  <2>1. held' \in [Devices -> SUBSET (Keys \cup Contacts)]
    BY <1>7, SendType DEF Leave, TypeOK
  <2> QED BY <1>7, <2>1 DEF Leave, TypeOK
<1>8. ASSUME NEW c \in Clients, Release(c) PROVE TypeOK'
  <2>1. /\ pressed' \in [Clients -> SUBSET Keys]
        /\ mapped' \in [Clients -> SUBSET (Keys \cup Contacts)]
        /\ conn' \in [Clients -> {"closed", "shaking", "subscribed", "greeting",
                                  "open", "leaving"}]
    BY <1>8 DEF Release, TypeOK
  <2>2. /\ keymap' \in [Clients -> BOOLEAN] /\ lease' \in [Clients -> BOOLEAN]
        /\ granted' \in [Clients -> BOOLEAN]
    BY <1>8 DEF Release, TypeOK
  <2> QED BY <1>8, <2>1, <2>2, ReleaseType DEF Release, TypeOK
<1>9. ASSUME NEW c \in Clients, NEW k \in Keys, KeyboardDown(c, k) \/ KeyboardUp(c, k)
      PROVE TypeOK'
  <2>1. held' \in [Devices -> SUBSET (Keys \cup Contacts)]
    <3>1. CASE KeyboardDown(c, k)
      BY <3>1, SendType DEF KeyboardDown
    <3>2. CASE KeyboardUp(c, k)
      BY <3>2, SendType DEF KeyboardUp
    <3> QED BY <1>9, <3>1, <3>2
  <2>2. pressed' \in [Clients -> SUBSET Keys]
    <3>1. CASE KeyboardDown(c, k)
      BY <3>1 DEF KeyboardDown, TypeOK
    <3>2. CASE KeyboardUp(c, k)
      BY <3>2 DEF KeyboardUp, TypeOK
    <3> QED BY <1>9, <3>1, <3>2
  <2>3. UNCHANGED <<mapped, keymap, up>> /\ UNCHANGED leaseVars
    BY <1>9 DEF KeyboardDown, KeyboardUp
  <2> QED BY <2>1, <2>2, <2>3 DEF TypeOK, leaseVars
<1>10. ASSUME NEW c \in Clients, Touch(c) PROVE TypeOK'
  <2>1. held' \in [Devices -> SUBSET (Keys \cup Contacts)]
    BY <1>10, SendType DEF Touch
  <2> QED BY <1>10, <2>1 DEF Touch, TypeOK, leaseVars
<1>11. ASSUME NEW c \in Clients, NEW b \in BOOLEAN, KeymapReset(c, b) PROVE TypeOK'
  <2>1. held' \in [Devices -> SUBSET (Keys \cup Contacts)]
    BY <1>11, SendType DEF KeymapReset
  <2>2. keymap' \in [Clients -> BOOLEAN]
    BY <1>11 DEF KeymapReset, TypeOK
  <2> QED BY <1>11, <2>1, <2>2 DEF KeymapReset, TypeOK, leaseVars
<1>12. ASSUME NEW c \in Clients, KeymapRender(c) PROVE TypeOK'
  <2>1. PICK frame \in SUBSET (Keys \cup Contacts) :
           /\ mapped' = [mapped EXCEPT ![c] = frame]
           /\ Send(c, frame \ mapped[c], mapped[c] \ frame)
    BY <1>12 DEF KeymapRender
  <2>2. held' \in [Devices -> SUBSET (Keys \cup Contacts)]
    BY <2>1, SendType
  <2> QED BY <1>12, <2>1, <2>2 DEF KeymapRender, TypeOK, leaseVars
<1>13. ASSUME NEW d \in Devices, SessionEnds(d) \/ HidCloses(d) \/ SessionStarts(d)
       PROVE TypeOK'
  BY <1>13 DEF SessionEnds, HidCloses, SessionStarts, TypeOK, leaseVars
<1>14. CASE UNCHANGED vars
  BY <1>14 DEF vars, TypeOK
<1> QED BY <1>1, <1>2, <1>3, <1>4, <1>5, <1>6, <1>7, <1>8, <1>9, <1>10, <1>11,
           <1>12, <1>13, <1>14 DEF Next, Connection, Input

\* Every variable keeps its type, and no connection ever has more notices to
\* come than the broadcast channel holds.
THEOREM TypeCorrect == Spec => []TypeOK
<1>1. Init => TypeOK
  <2>1. <<>> \in Seq(Devices) /\ Len(<<>>) <= Capacity
    BY CapacityAssumption
  <2> QED BY <2>1 DEF Init, TypeOK
<1> QED BY <1>1, TypeStep, PTL DEF Spec

-----------------------------------------------------------------------------
(***************************************************************************)
(* The lease.  SingleController is not inductive: a connection that lost   *)
(* the race must not leave an owner without a guard behind, and only a     *)
(* connection past its first attempt can hold one.                         *)
(***************************************************************************)
OwnerHolds ==
    \A d \in Devices : owners[d] # NoClient =>
        lease[owners[d]] /\ Target[owners[d]] = d

HolderAttempted ==
    \A c \in Clients : lease[c] => conn[c] \in {"greeting", "open", "leaving"}

Exclusive == SingleController /\ OwnerHolds /\ HolderAttempted

\* An attempt by a connection without a lease, past its subscription.
LEMMA AcquireExclusive ==
    ASSUME TypeOK, Exclusive, NEW c \in Clients, TryAcquire(c), ~lease[c],
           conn'[c] \in {"greeting", "open"},
           \A o \in Clients \ {c} : conn'[o] = conn[o]
    PROVE  Exclusive'
<1> USE TargetAssumption, NoClientAssumption DEF Exclusive
<1>1. CASE owners[Target[c]] = NoClient
  <2>1. /\ owners' = [owners EXCEPT ![Target[c]] = c]
        /\ lease' = [lease EXCEPT ![c] = TRUE]
        /\ granted' = [granted EXCEPT ![c] = TRUE]
    BY <1>1 DEF TryAcquire
  <2>2. \A o \in Clients \ {c} : lease'[o] = lease[o] /\ granted'[o] = granted[o]
    BY <2>1 DEF TypeOK
  <2>3. lease'[c] /\ granted'[c] /\ owners'[Target[c]] = c
    BY <2>1 DEF TypeOK
  <2>4. \A d \in Devices \ {Target[c]} : owners'[d] = owners[d]
    BY <2>1 DEF TypeOK
  <2>5. SingleController'
    BY <1>1, <2>2, <2>3, <2>4 DEF SingleController
  <2>6. ASSUME NEW d \in Devices, owners'[d] # NoClient
        PROVE  lease'[owners'[d]] /\ Target[owners'[d]] = d
    <3>1. CASE d = Target[c]
      BY <3>1, <2>3
    <3>2. CASE d # Target[c]
      <4>1. owners'[d] = owners[d] /\ owners[d] \in Clients
        BY <3>2, <2>4, <2>6 DEF TypeOK
      <4>2. lease[owners[d]] /\ Target[owners[d]] = d
        BY <4>1, <2>6 DEF OwnerHolds
      <4>3. owners[d] \in Clients \ {c}
        BY <4>1, <4>2, <3>2
      <4> QED BY <2>2, <4>1, <4>2, <4>3
    <3> QED BY <3>1, <3>2
  <2>7. HolderAttempted'
    BY <2>2 DEF HolderAttempted
  <2> QED BY <2>5, <2>6, <2>7 DEF OwnerHolds
<1>2. CASE owners[Target[c]] # NoClient
  <2>1. /\ owners' = owners
        /\ lease' = [lease EXCEPT ![c] = FALSE]
        /\ granted' = [granted EXCEPT ![c] = FALSE]
    BY <1>2 DEF TryAcquire
  <2>2. \A o \in Clients \ {c} : lease'[o] = lease[o] /\ granted'[o] = granted[o]
    BY <2>1 DEF TypeOK
  <2>3. ~lease'[c] /\ ~granted'[c]
    BY <2>1 DEF TypeOK
  <2>4. SingleController'
    BY <2>1, <2>2, <2>3 DEF SingleController
  <2>5. ASSUME NEW d \in Devices, owners'[d] # NoClient
        PROVE  lease'[owners'[d]] /\ Target[owners'[d]] = d
    <3>1. owners'[d] = owners[d] /\ owners[d] \in Clients
      BY <2>1, <2>5 DEF TypeOK
    <3>2. lease[owners[d]] /\ Target[owners[d]] = d
      BY <3>1, <2>5 DEF OwnerHolds
    <3>3. owners[d] \in Clients \ {c}
      BY <3>1, <3>2
    <3> QED BY <2>2, <3>1, <3>2, <3>3
  <2>6. HolderAttempted'
    BY <2>2, <2>3 DEF HolderAttempted
  <2> QED BY <2>4, <2>5, <2>6 DEF OwnerHolds
<1> QED BY <1>1, <1>2

\* Dropping the guard frees exactly the device of the connection.
LEMMA ReleaseExclusive ==
    ASSUME TypeOK, Exclusive, NEW c \in Clients, Release(c)
    PROVE  Exclusive'
<1> USE TargetAssumption, NoClientAssumption DEF Exclusive
<1>1. /\ \A o \in Clients \ {c} : /\ lease'[o] = lease[o] /\ granted'[o] = granted[o]
                                  /\ conn'[o] = conn[o]
      /\ ~lease'[c] /\ ~granted'[c]
  BY DEF Release, TypeOK
<1>2. HolderAttempted'
  BY <1>1 DEF HolderAttempted
<1>3. CASE lease[c]
  <2>1. owners[Target[c]] = c /\ owners' = [owners EXCEPT ![Target[c]] = NoClient]
    BY <1>3 DEF Release, SingleController
  <2>2. /\ \A d \in Devices \ {Target[c]} : owners'[d] = owners[d]
        /\ owners'[Target[c]] = NoClient
    BY <2>1 DEF TypeOK
  <2>3. SingleController'
    BY <1>1, <2>1, <2>2 DEF SingleController
  <2>4. ASSUME NEW d \in Devices, owners'[d] # NoClient
        PROVE  lease'[owners'[d]] /\ Target[owners'[d]] = d
    <3>1. d # Target[c] /\ owners'[d] = owners[d] /\ owners[d] \in Clients
      BY <2>2, <2>4 DEF TypeOK
    <3>2. lease[owners[d]] /\ Target[owners[d]] = d
      BY <3>1, <2>4 DEF OwnerHolds
    <3>3. owners[d] \in Clients \ {c}
      BY <3>1, <3>2
    <3> QED BY <1>1, <3>1, <3>2, <3>3
  <2> QED BY <1>2, <2>3, <2>4 DEF OwnerHolds
<1>4. CASE ~lease[c]
  <2>1. owners' = owners
    BY <1>4 DEF Release
  <2>2. SingleController'
    BY <1>1, <2>1 DEF SingleController
  <2>3. ASSUME NEW d \in Devices, owners'[d] # NoClient
        PROVE  lease'[owners'[d]] /\ Target[owners'[d]] = d
    <3>1. owners'[d] = owners[d] /\ owners[d] \in Clients
      BY <2>1, <2>3 DEF TypeOK
    <3>2. lease[owners[d]] /\ Target[owners[d]] = d
      BY <3>1, <2>3 DEF OwnerHolds
    <3>3. owners[d] \in Clients \ {c}
      BY <3>1, <3>2, <1>4
    <3> QED BY <1>1, <3>1, <3>2, <3>3
  <2> QED BY <1>2, <2>2, <2>3 DEF OwnerHolds
<1> QED BY <1>3, <1>4

LEMMA ExclusiveStep ==
    ASSUME TypeOK, Exclusive, [Next]_vars
    PROVE  Exclusive'
<1> USE DEF Exclusive, SingleController, OwnerHolds, HolderAttempted
<1>1. ASSUME NEW c \in Clients,
             Connect(c) \/ HelloRejected(c) \/ Subscribe(c) \/ Greeted(c) \/ Leave(c)
      PROVE  Exclusive'
  <2>1. UNCHANGED <<owners, lease, granted>>
    BY <1>1 DEF Connect, HelloRejected, Subscribe, Greeted, Leave
  <2>2. \A o \in Clients : conn'[o] \in {"greeting", "open", "leaving"}
                              \/ (conn'[o] = conn[o] \/ ~lease[o])
    BY <1>1 DEF Connect, HelloRejected, Subscribe, Greeted, Leave, TypeOK
  <2> QED BY <2>1, <2>2
<1>2. ASSUME NEW c \in Clients, FirstAcquire(c) PROVE Exclusive'
  <2>1. conn[c] = "subscribed" /\ TryAcquire(c) /\ conn' = [conn EXCEPT ![c] = "greeting"]
    BY <1>2 DEF FirstAcquire
  <2>2. conn'[c] = "greeting" /\ \A o \in Clients \ {c} : conn'[o] = conn[o]
    BY <2>1 DEF TypeOK
  <2>3. ~lease[c]
    BY <2>1
  <2> QED BY <2>1, <2>2, <2>3, AcquireExclusive
<1>3. ASSUME NEW c \in Clients, Notified(c) PROVE Exclusive'
  <2>1. conn' = conn /\ conn[c] = "open" /\ ~lease[c]
    BY <1>3 DEF Notified
  <2>2. CASE TryAcquire(c)
    BY <2>1, <2>2, AcquireExclusive
  <2>3. CASE UNCHANGED <<owners, lease, granted>>
    BY <2>1, <2>3
  <2> QED BY <1>3, <2>2, <2>3 DEF Notified
<1>4. ASSUME NEW c \in Clients, Release(c) PROVE Exclusive'
  BY <1>4, ReleaseExclusive
<1>5. CASE UNCHANGED leaseVars
  BY <1>5 DEF leaseVars
<1>6. ASSUME NEW c \in Clients, Input(c) PROVE Exclusive'
  <2>1. UNCHANGED leaseVars
    BY <1>6 DEF Input, KeyboardDown, KeyboardUp, Touch, KeymapReset, KeymapRender
  <2> QED BY <2>1, <1>5
<1>7. ASSUME NEW d \in Devices, SessionEnds(d) \/ HidCloses(d) \/ SessionStarts(d)
      PROVE Exclusive'
  <2>1. UNCHANGED leaseVars
    BY <1>7 DEF SessionEnds, HidCloses, SessionStarts
  <2> QED BY <2>1, <1>5
<1>8. CASE UNCHANGED vars
  BY <1>8, <1>5 DEF vars, leaseVars
<1> QED BY <1>1, <1>2, <1>3, <1>4, <1>6, <1>7, <1>8 DEF Next, Connection

\* A connection that may send input owns the lease of its device: no device
\* has two controllers.
THEOREM ExclusiveControl == Spec => []SingleController
<1>1. Init => Exclusive
  BY NoClientAssumption, TargetAssumption
     DEF Init, Exclusive, SingleController, OwnerHolds, HolderAttempted
<1> QED BY <1>1, TypeCorrect, ExclusiveStep, PTL DEF Spec, Exclusive

-----------------------------------------------------------------------------
(***************************************************************************)
(* What is down.  Commands of a device without a session are dropped, so   *)
(* the release of a leaving controller only works because such a device    *)
(* has nothing down.                                                       *)
(***************************************************************************)
NothingWithoutSession == \A d \in Devices : ~up[d] => held[d] = {}

Clean == HeldByController /\ NothingWithoutSession

\* What a connection's commands change on the devices.
LEMMA SendFacts ==
    ASSUME TypeOK, NEW c \in Clients, NEW downs, NEW ups, Send(c, downs, ups)
    PROVE  /\ ~up[Target[c]] => held' = held
           /\ \A d \in Devices \ {Target[c]} : held'[d] = held[d]
           /\ up[Target[c]] => held'[Target[c]] = (held[Target[c]] \cup downs) \ ups
BY TargetAssumption DEF Send, TypeOK

\* Input of the controller is clean when it keeps track of what it leaves down.
LEMMA InputClean ==
    ASSUME TypeOK, Exclusive, Clean, NEW c \in Clients, Controls(c),
           NEW downs, NEW ups, Send(c, downs, ups), UNCHANGED <<owners, conn, up>>,
           \A o \in Clients \ {c} : pressed'[o] = pressed[o] /\ mapped'[o] = mapped[o],
           (downs \cup pressed[c] \cup mapped[c]) \ ups
              \subseteq pressed'[c] \cup mapped'[c] \cup Contacts
    PROVE  Clean'
<1>1. owners[Target[c]] = c /\ conn[c] = "open" /\ Target[c] \in Devices
  BY TargetAssumption DEF Controls, Exclusive, SingleController
<1>2. ASSUME NEW d \in Devices, NEW x \in held'[d]
      PROVE  \E o \in Clients : /\ owners'[d] = o /\ conn'[o] = "open"
                                /\ x \in pressed'[o] \cup mapped'[o] \cup Contacts
  <2>1. CASE d = Target[c]
    <3>1. up[d]
      BY <2>1, <1>2, SendFacts DEF Clean, NothingWithoutSession
    <3>2. x \in (held[d] \cup downs) \ ups
      BY <2>1, <1>2, <3>1, SendFacts
    <3>3. x \in held[d] => x \in pressed[c] \cup mapped[c] \cup Contacts
      BY <2>1, <1>1 DEF Clean, HeldByController
    <3>4. x \in pressed'[c] \cup mapped'[c] \cup Contacts
      BY <3>2, <3>3
    <3> QED BY <2>1, <1>1, <3>4
  <2>2. CASE d # Target[c]
    <3>1. x \in held[d]
      BY <2>2, <1>2, SendFacts
    <3>2. PICK o \in Clients : /\ owners[d] = o /\ conn[o] = "open"
                               /\ x \in pressed[o] \cup mapped[o] \cup Contacts
      BY <3>1 DEF Clean, HeldByController
    <3>3. Target[o] = d
      BY <3>2, NoClientAssumption DEF Exclusive, OwnerHolds
    <3>4. o \in Clients \ {c}
      BY <2>2, <3>3
    <3> QED BY <3>2, <3>4
  <2> QED BY <2>1, <2>2
<1>3. ASSUME NEW d \in Devices, ~up'[d] PROVE held'[d] = {}
  <2>1. ~up[d] /\ held[d] = {}
    BY <1>3 DEF Clean, NothingWithoutSession
  <2>2. CASE d = Target[c]
    BY <2>1, <2>2, SendFacts
  <2>3. CASE d # Target[c]
    BY <2>1, <2>3, SendFacts
  <2> QED BY <2>2, <2>3
<1> QED BY <1>2, <1>3 DEF Clean, HeldByController, NothingWithoutSession

\* Steps that put nothing down are clean when the controllers of what is down
\* stay connected and keep track.
LEMMA QuietClean ==
    ASSUME Clean,
           \A d \in Devices : held'[d] \subseteq held[d],
           \A d \in Devices : ~up'[d] => ~up[d] \/ held'[d] = {},
           \A d \in Devices, o \in Clients : owners[d] = o /\ conn[o] = "open" =>
              \/ held'[d] = {}
              \/ /\ owners'[d] = o /\ conn'[o] = "open"
                 /\ pressed'[o] = pressed[o] /\ mapped'[o] = mapped[o]
    PROVE  Clean'
<1>1. ASSUME NEW d \in Devices, NEW x \in held'[d]
      PROVE  \E o \in Clients : /\ owners'[d] = o /\ conn'[o] = "open"
                                /\ x \in pressed'[o] \cup mapped'[o] \cup Contacts
  <2>1. x \in held[d] /\ held'[d] # {}
    BY <1>1
  <2>2. PICK o \in Clients : /\ owners[d] = o /\ conn[o] = "open"
                             /\ x \in pressed[o] \cup mapped[o] \cup Contacts
    BY <2>1 DEF Clean, HeldByController
  <2> QED BY <2>1, <2>2
<1>2. ASSUME NEW d \in Devices, ~up'[d] PROVE held'[d] = {}
  BY <1>2 DEF Clean, NothingWithoutSession
<1> QED BY <1>1, <1>2 DEF Clean, HeldByController, NothingWithoutSession

\* A controller that leaves puts up whatever is down on its device.
LEMMA LeaveClean ==
    ASSUME TypeOK, Exclusive, Clean, NEW c \in Clients, Leave(c)
    PROVE  Clean'
<1>1. /\ UNCHANGED <<owners, pressed, mapped, up>> /\ conn[c] = "open"
      /\ \A o \in Clients \ {c} : conn'[o] = conn[o]
  BY DEF Leave, TypeOK
<1>2. CASE granted[c]
  <2>1. owners[Target[c]] = c /\ Target[c] \in Devices
    BY <1>2, TargetAssumption DEF Exclusive, SingleController
  <2>2. Send(c, {}, KeymapUps(c) \cup Contacts \cup pressed[c])
    BY <1>2 DEF Leave
  <2>3. held'[Target[c]] = {}
    <3>1. CASE up[Target[c]]
      <4>1. held'[Target[c]] = held[Target[c]] \ (mapped[c] \cup Contacts \cup pressed[c])
        BY <3>1, <2>2, SendFacts DEF KeymapUps
      <4>2. held[Target[c]] \subseteq pressed[c] \cup mapped[c] \cup Contacts
        BY <2>1 DEF Clean, HeldByController
      <4> QED BY <4>1, <4>2
    <3>2. CASE ~up[Target[c]]
      <4>1. held'[Target[c]] = held[Target[c]]
        BY <3>2, <2>2, SendFacts
      <4> QED BY <4>1, <3>2, <2>1 DEF Clean, NothingWithoutSession
    <3> QED BY <3>1, <3>2
  <2>4. \A d \in Devices : held'[d] \subseteq held[d]
    BY <2>2, <2>3, SendFacts
  <2>5. \A d \in Devices : owners[d] = c => d = Target[c]
    BY NoClientAssumption DEF Exclusive, OwnerHolds
  <2>6. \A d \in Devices, o \in Clients : owners[d] = o /\ conn[o] = "open" =>
           \/ held'[d] = {}
           \/ /\ owners'[d] = o /\ conn'[o] = "open"
              /\ pressed'[o] = pressed[o] /\ mapped'[o] = mapped[o]
    BY <1>1, <2>3, <2>5
  <2> QED BY <1>1, <2>4, <2>6, QuietClean
<1>3. CASE ~granted[c]
  <2>1. held' = held
    BY <1>3 DEF Leave
  <2>2. \A d \in Devices : owners[d] # c
    BY <1>3, NoClientAssumption DEF Exclusive, OwnerHolds, SingleController
  <2> QED BY <1>1, <2>1, <2>2, QuietClean
<1> QED BY <1>2, <1>3

\* Acquiring only changes the owner of a free device.
LEMMA AcquireOwner ==
    ASSUME TypeOK, NEW c \in Clients, TryAcquire(c)
    PROVE  \A d \in Devices : owners[d] # NoClient => owners'[d] = owners[d]
BY TargetAssumption DEF TryAcquire, TypeOK

LEMMA CleanStep ==
    ASSUME TypeOK, Exclusive, Clean, [Next]_vars
    PROVE  Clean'
<1>1. ASSUME NEW c \in Clients, Connect(c) \/ HelloRejected(c) \/ Subscribe(c) \/ Greeted(c)
      PROVE  Clean'
  <2>1. UNCHANGED <<owners, pressed, mapped, up, held>> /\ conn[c] # "open"
    BY <1>1 DEF Connect, HelloRejected, Subscribe, Greeted, inputVars
  <2>2. \A o \in Clients \ {c} : conn'[o] = conn[o]
    BY <1>1 DEF Connect, HelloRejected, Subscribe, Greeted, TypeOK
  <2> QED BY <2>1, <2>2, QuietClean
<1>2. ASSUME NEW c \in Clients, FirstAcquire(c) PROVE Clean'
  <2>1. UNCHANGED <<pressed, mapped, up, held>> /\ conn[c] = "subscribed" /\ TryAcquire(c)
    BY <1>2 DEF FirstAcquire, inputVars
  <2>2. \A o \in Clients \ {c} : conn'[o] = conn[o]
    BY <1>2 DEF FirstAcquire, TypeOK
  <2> QED BY <2>1, <2>2, AcquireOwner, QuietClean, NoClientAssumption
<1>3. ASSUME NEW c \in Clients, Notified(c) PROVE Clean'
  <2>1. UNCHANGED <<conn, pressed, mapped, up, held>>
    BY <1>3 DEF Notified, inputVars
  <2>2. \A d \in Devices : owners[d] # NoClient => owners'[d] = owners[d]
    BY <1>3, AcquireOwner DEF Notified
  <2> QED BY <2>1, <2>2, QuietClean, NoClientAssumption
<1>4. ASSUME NEW c \in Clients, Leave(c) PROVE Clean'
  BY <1>4, LeaveClean
<1>5. ASSUME NEW c \in Clients, Release(c) PROVE Clean'
  <2>1. UNCHANGED <<up, held>> /\ conn[c] = "leaving"
    BY <1>5 DEF Release
  <2>2. \A o \in Clients \ {c} : /\ conn'[o] = conn[o] /\ pressed'[o] = pressed[o]
                                 /\ mapped'[o] = mapped[o]
    BY <1>5 DEF Release, TypeOK
  <2>3. \A d \in Devices : owners[d] # c => owners'[d] = owners[d]
    BY <1>5, TargetAssumption DEF Release, TypeOK, Exclusive, SingleController
  <2> QED BY <2>1, <2>2, <2>3, QuietClean
<1>6. ASSUME NEW c \in Clients, NEW k \in Keys, KeyboardDown(c, k) PROVE Clean'
  <2>1. /\ Controls(c) /\ Send(c, {k}, {}) /\ UNCHANGED <<owners, conn, up, mapped>>
        /\ pressed'[c] = pressed[c] \cup {k}
        /\ \A o \in Clients \ {c} : pressed'[o] = pressed[o]
    BY <1>6 DEF KeyboardDown, TypeOK, leaseVars
  <2> QED BY <2>1, InputClean
<1>7. ASSUME NEW c \in Clients, NEW k \in Keys, KeyboardUp(c, k) PROVE Clean'
  <2>1. /\ Controls(c) /\ Send(c, {}, {k}) /\ UNCHANGED <<owners, conn, up, mapped>>
        /\ pressed'[c] = pressed[c] \ {k}
        /\ \A o \in Clients \ {c} : pressed'[o] = pressed[o]
    BY <1>7 DEF KeyboardUp, TypeOK, leaseVars
  <2> QED BY <2>1, InputClean
<1>8. ASSUME NEW c \in Clients, Touch(c) PROVE Clean'
  <2>1. PICK downs \in SUBSET Contacts : \E ups \in SUBSET (Contacts \ downs) :
           Send(c, downs, ups)
    BY <1>8 DEF Touch
  <2>2. PICK ups \in SUBSET (Contacts \ downs) : Send(c, downs, ups)
    BY <2>1
  <2>3. Controls(c) /\ UNCHANGED <<owners, conn, up, mapped, pressed>>
    BY <1>8 DEF Touch, leaseVars
  <2> QED BY <2>2, <2>3, InputClean
<1>9. ASSUME NEW c \in Clients, NEW b \in BOOLEAN, KeymapReset(c, b) PROVE Clean'
  <2>1. /\ Controls(c) /\ Send(c, {}, mapped[c]) /\ UNCHANGED <<owners, conn, up, pressed>>
        /\ \A o \in Clients \ {c} : mapped'[o] = mapped[o]
    BY <1>9 DEF KeymapReset, KeymapUps, TypeOK, leaseVars
  <2> QED BY <2>1, InputClean
<1>10. ASSUME NEW c \in Clients, KeymapRender(c) PROVE Clean'
  <2>1. PICK frame \in SUBSET (Keys \cup Contacts) :
           /\ mapped' = [mapped EXCEPT ![c] = frame]
           /\ Send(c, frame \ mapped[c], mapped[c] \ frame)
    BY <1>10 DEF KeymapRender
  <2>2. /\ Controls(c) /\ UNCHANGED <<owners, conn, up, pressed>>
        /\ mapped'[c] = frame /\ \A o \in Clients \ {c} : mapped'[o] = mapped[o]
    BY <1>10, <2>1 DEF KeymapRender, TypeOK, leaseVars
  <2> QED BY <2>1, <2>2, InputClean
<1>11. ASSUME NEW d \in Devices, SessionEnds(d) \/ HidCloses(d) \/ SessionStarts(d)
       PROVE Clean'
  <2>1. UNCHANGED <<owners, conn, pressed, mapped>>
    BY <1>11 DEF SessionEnds, HidCloses, SessionStarts, leaseVars
  <2>2. \A e \in Devices : held'[e] \subseteq held[e]
    BY <1>11 DEF SessionEnds, HidCloses, SessionStarts, TypeOK
  <2>3. \A e \in Devices : ~up'[e] => ~up[e] \/ held'[e] = {}
    BY <1>11 DEF SessionEnds, HidCloses, SessionStarts, TypeOK
  <2> QED BY <2>1, <2>2, <2>3, QuietClean
<1>12. CASE UNCHANGED vars
  BY <1>12, QuietClean DEF vars
<1> QED BY <1>1, <1>2, <1>3, <1>4, <1>5, <1>6, <1>7, <1>8, <1>9, <1>10, <1>11,
           <1>12 DEF Next, Connection, Input

\* Nothing stays down on a device after its controller has left.
THEOREM ReleasedOnLeave == Spec => []HeldByController
<1>1. Init => Exclusive /\ Clean
  BY NoClientAssumption, TargetAssumption
     DEF Init, Exclusive, SingleController, OwnerHolds, HolderAttempted,
         Clean, HeldByController, NothingWithoutSession
<1> QED BY <1>1, TypeCorrect, ExclusiveStep, CleanStep, PTL DEF Spec, Clean

-----------------------------------------------------------------------------
(***************************************************************************)
(* No lost wake-up.                                                        *)
(***************************************************************************)

\* A connection that waits after an attempt does not wait for a free device.
LEMMA AcquireWaits ==
    ASSUME TypeOK, NEW c \in Clients, TryAcquire(c)
    PROVE  /\ lease'[c] \/ owners'[Target[c]] # NoClient
           /\ \A o \in Clients \ {c} : lease'[o] = lease[o]
           /\ \A d \in Devices : owners'[d] = NoClient => owners[d] = NoClient
<1>1. \A o \in Clients \ {c} : lease'[o] = lease[o]
  BY DEF TryAcquire, TypeOK
<1>2. \A d \in Devices : owners'[d] = NoClient => owners[d] = NoClient
  BY TargetAssumption, NoClientAssumption DEF TryAcquire, TypeOK
<1>3. lease'[c] \/ owners'[Target[c]] # NoClient
  <2>1. CASE owners[Target[c]] = NoClient
    BY <2>1 DEF TryAcquire, TypeOK
  <2>2. CASE owners[Target[c]] # NoClient
    BY <2>2 DEF TryAcquire
  <2> QED BY <2>1, <2>2
<1> QED BY <1>1, <1>2, <1>3

\* A release reaches everyone who waits, or tells them that they lagged.
LEMMA ReleaseWakes ==
    ASSUME TypeOK, Exclusive, WaiterNotified, NEW c \in Clients, Release(c)
    PROVE  WaiterNotified'
<1>1. ASSUME NEW w \in Clients, Waiting(w)', owners'[Target[w]] = NoClient
      PROVE  lagged'[w] \/ Target[w] \in Received(inbox'[w])
  <2>1. w # c /\ conn'[w] = conn[w] /\ lease'[w] = lease[w] /\ Waiting(w)
    BY <1>1 DEF Release, Waiting, TypeOK
  <2>2. Target[w] \in Devices /\ Target[c] \in Devices
    BY TargetAssumption
  <2>3. inbox[w] \in Seq(Devices) /\ Len(inbox[w]) <= Capacity /\ Len(inbox[w]) \in Nat
        /\ Capacity \in Nat
    BY CapacityAssumption DEF TypeOK
  <2>4. CASE lease[c]
    <3>1. /\ inbox'[w] = Deliver(inbox[w], Target[c])
          /\ Len(inbox[w]) >= Capacity => lagged'[w]
          /\ lagged[w] => lagged'[w]
      BY <2>1, <2>4 DEF Release, Waiting, Subscribed
    <3>2. CASE Target[w] = Target[c]
      BY <3>1, <3>2, <2>2, <2>3, DeliverFacts
    <3>3. CASE Target[w] # Target[c]
      <4>1. owners[Target[w]] = NoClient
        BY <1>1, <3>3, <2>2, <2>4 DEF Release, TypeOK
      <4>2. lagged[w] \/ Target[w] \in Received(inbox[w])
        BY <4>1, <2>1 DEF WaiterNotified
      <4>3. CASE Len(inbox[w]) >= Capacity
        BY <3>1, <4>3
      <4>4. CASE Len(inbox[w]) < Capacity
        BY <3>1, <4>2, <4>4, <2>2, <2>3, DeliverFacts
      <4> QED BY <4>3, <4>4, <2>3
    <3> QED BY <3>2, <3>3
  <2>5. CASE ~lease[c]
    BY <1>1, <2>1, <2>5 DEF Release, WaiterNotified
  <2> QED BY <2>4, <2>5
<1> QED BY <1>1 DEF WaiterNotified

\* A notice for another device leaves the others; one for its own device, and
\* a report of lag, make the connection try again.
LEMMA NotifiedWakes ==
    ASSUME TypeOK, WaiterNotified, NEW c \in Clients, Notified(c)
    PROVE  WaiterNotified'
<1>1. ASSUME NEW w \in Clients \ {c}, Waiting(w)', owners'[Target[w]] = NoClient
      PROVE  lagged'[w] \/ Target[w] \in Received(inbox'[w])
  <2>1. /\ conn' = conn /\ lagged'[w] = lagged[w] /\ inbox'[w] = inbox[w]
        /\ Target[w] \in Devices
    BY TargetAssumption DEF Notified, TypeOK
  <2>2. lease'[w] = lease[w] /\ owners[Target[w]] = NoClient
    BY <1>1, <2>1, AcquireWaits DEF Notified
  <2> QED BY <1>1, <2>1, <2>2 DEF WaiterNotified, Waiting
<1>2. ASSUME Waiting(c)', owners'[Target[c]] = NoClient
      PROVE  lagged'[c] \/ Target[c] \in Received(inbox'[c])
  <2>1. ~TryAcquire(c)
    BY <1>2, AcquireWaits DEF Waiting
  <2>2. /\ ~lagged[c] /\ inbox[c] # <<>> /\ Head(inbox[c]) # Target[c]
        /\ UNCHANGED <<conn, owners, lease>>
        /\ inbox' = [inbox EXCEPT ![c] = Tail(@)]
    BY <2>1 DEF Notified
  <2>3. Target[c] \in Received(inbox[c])
    BY <1>2, <2>2 DEF WaiterNotified, Waiting
  <2>4. inbox[c] \in Seq(Devices) /\ Len(inbox[c]) <= Capacity /\ inbox'[c] = Tail(inbox[c])
    BY <2>2 DEF TypeOK
  <2> QED BY <2>2, <2>3, <2>4, TailFacts
<1> QED BY <1>1, <1>2 DEF WaiterNotified

LEMMA WakesStep ==
    ASSUME TypeOK, Exclusive, WaiterNotified, [Next]_vars
    PROVE  WaiterNotified'
<1>1. ASSUME NEW c \in Clients, Connect(c) \/ HelloRejected(c) \/ Greeted(c) \/ Leave(c)
      PROVE  WaiterNotified'
  <2>1. UNCHANGED <<owners, lease, inbox, lagged>>
    BY <1>1 DEF Connect, HelloRejected, Greeted, Leave
  <2>2. \A w \in Clients : Waiting(w)' => Waiting(w)
    BY <1>1, <2>1 DEF Connect, HelloRejected, Greeted, Leave, Waiting, TypeOK
  <2> QED BY <2>1, <2>2 DEF WaiterNotified
<1>2. ASSUME NEW c \in Clients, Subscribe(c) PROVE WaiterNotified'
  <2>1. UNCHANGED <<owners, lease>> /\ ~Waiting(c)'
    BY <1>2 DEF Subscribe, Waiting, TypeOK
  <2>2. \A w \in Clients \ {c} : /\ conn'[w] = conn[w] /\ inbox'[w] = inbox[w]
                                 /\ lagged'[w] = lagged[w]
    BY <1>2 DEF Subscribe, TypeOK
  <2> QED BY <2>1, <2>2 DEF WaiterNotified, Waiting
<1>3. ASSUME NEW c \in Clients, FirstAcquire(c) PROVE WaiterNotified'
  <2>1. UNCHANGED <<inbox, lagged>> /\ TryAcquire(c)
        /\ \A w \in Clients \ {c} : conn'[w] = conn[w]
    BY <1>3 DEF FirstAcquire, TypeOK
  <2>2. \A w \in Clients \ {c} : Waiting(w)' => Waiting(w)
    BY <2>1, AcquireWaits DEF Waiting
  <2>3. \A w \in Clients : owners'[Target[w]] = NoClient => owners[Target[w]] = NoClient
    BY <2>1, AcquireWaits, TargetAssumption
  <2>4. ~(Waiting(c)' /\ owners'[Target[c]] = NoClient)
    BY <2>1, AcquireWaits DEF Waiting
  <2> QED BY <2>1, <2>2, <2>3, <2>4 DEF WaiterNotified
<1>4. ASSUME NEW c \in Clients, Notified(c) PROVE WaiterNotified'
  BY <1>4, NotifiedWakes
<1>5. ASSUME NEW c \in Clients, Release(c) PROVE WaiterNotified'
  BY <1>5, ReleaseWakes
<1>6. CASE UNCHANGED leaseVars
  BY <1>6 DEF leaseVars, WaiterNotified, Waiting
<1>7. ASSUME NEW c \in Clients, Input(c) PROVE WaiterNotified'
  <2>1. UNCHANGED leaseVars
    BY <1>7 DEF Input, KeyboardDown, KeyboardUp, Touch, KeymapReset, KeymapRender
  <2> QED BY <2>1, <1>6
<1>8. ASSUME NEW d \in Devices, SessionEnds(d) \/ HidCloses(d) \/ SessionStarts(d)
      PROVE WaiterNotified'
  <2>1. UNCHANGED leaseVars
    BY <1>8 DEF SessionEnds, HidCloses, SessionStarts
  <2> QED BY <2>1, <1>6
<1>9. CASE UNCHANGED vars
  BY <1>9, <1>6 DEF vars, leaseVars
<1> QED BY <1>1, <1>2, <1>3, <1>4, <1>5, <1>7, <1>8, <1>9 DEF Next, Connection

\* Whoever waits for a device without a controller will hear of it, whatever
\* the capacity of the notice channel.
THEOREM NoLostWakeup == Spec => []WaiterNotified
<1>1. Init => Exclusive /\ WaiterNotified
  BY NoClientAssumption, TargetAssumption
     DEF Init, Exclusive, SingleController, OwnerHolds, HolderAttempted,
         WaiterNotified, Waiting
<1> QED BY <1>1, TypeCorrect, ExclusiveStep, WakesStep, PTL DEF Spec
-----------------------------------------------------------------------------
(***************************************************************************)
(* Refinement: the connections and their lease implement DeviceControl.    *)
(***************************************************************************)
Control == INSTANCE DeviceControl WITH
    Inputs <- Keys \cup Contacts,
    Nobody <- NoClient,
    controller <- owners,
    down <- held

\* An attempt takes a free device or changes nothing.
LEMMA AcquireTakes ==
    ASSUME TypeOK, NEW c \in Clients, TryAcquire(c), held' = held
    PROVE  Control!Take(Target[c], c) \/ UNCHANGED Control!controlVars
BY DEF TryAcquire, Control!Take, Control!controlVars

\* Input is the controller's, on its own device.
LEMMA SendOperates ==
    ASSUME TypeOK, Exclusive, NEW c \in Clients, granted[c], UNCHANGED owners,
           NEW downs \in SUBSET (Keys \cup Contacts), NEW ups, Send(c, downs, ups)
    PROVE  Control!Operate(Target[c], c) \/ UNCHANGED Control!controlVars
<1>1. owners[Target[c]] = c /\ Target[c] \in Devices
  BY TargetAssumption DEF Exclusive, SingleController
<1>2. CASE up[Target[c]]
  <2> DEFINE now == (held[Target[c]] \cup downs) \ ups
  <2>1. held' = [held EXCEPT ![Target[c]] = now]
    BY <1>2 DEF Send
  <2>2. now \in SUBSET (Keys \cup Contacts)
    BY <1>1 DEF TypeOK
  <2> HIDE DEF now
  <2> QED BY <1>1, <2>1, <2>2 DEF Control!Operate
<1>3. CASE ~up[Target[c]]
  BY <1>3 DEF Send, Control!controlVars
<1> QED BY <1>2, <1>3

\* A controller that leaves gives up a device on which nothing is down.
LEMMA ReleaseGivesUp ==
    ASSUME TypeOK, Exclusive, Clean, NEW c \in Clients, Release(c)
    PROVE  Control!GiveUp(Target[c], c) \/ UNCHANGED Control!controlVars
<1>1. conn[c] = "leaving" /\ held' = held
  BY DEF Release
<1>2. CASE lease[c]
  <2>1. owners[Target[c]] = c /\ Target[c] \in Devices
    BY <1>2, TargetAssumption DEF Exclusive, SingleController
  <2>2. held[Target[c]] = {}
    BY <1>1, <2>1 DEF Clean, HeldByController
  <2>3. owners' = [owners EXCEPT ![Target[c]] = NoClient]
    BY <1>2 DEF Release
  <2> QED BY <1>1, <2>1, <2>2, <2>3 DEF Control!GiveUp
<1>3. CASE ~lease[c]
  BY <1>1, <1>3 DEF Release, Control!controlVars
<1> QED BY <1>2, <1>3

\* Every step of a connection and of a device is a step of DeviceControl, or
\* invisible to it.
LEMMA ControlStep ==
    ASSUME TypeOK, Exclusive, Clean, [Next]_vars
    PROVE  Control!ControlNext \/ UNCHANGED Control!controlVars
<1>0. ASSUME NEW c \in Clients,
             \/ Control!Take(Target[c], c) \/ Control!Operate(Target[c], c)
             \/ Control!GiveUp(Target[c], c) \/ UNCHANGED Control!controlVars
      PROVE  Control!ControlNext \/ UNCHANGED Control!controlVars
  <2>1. Target[c] \in Devices
    BY TargetAssumption
  <2> QED BY <1>0, <2>1 DEF Control!ControlNext
<1>1. ASSUME NEW c \in Clients,
             Connect(c) \/ HelloRejected(c) \/ Subscribe(c) \/ Greeted(c)
      PROVE  Control!ControlNext \/ UNCHANGED Control!controlVars
  <2>1. UNCHANGED <<owners, held>>
    BY <1>1 DEF Connect, HelloRejected, Subscribe, Greeted, inputVars
  <2> QED BY <2>1, <1>0 DEF Control!controlVars
<1>2. ASSUME NEW c \in Clients, FirstAcquire(c) PROVE  Control!ControlNext \/ UNCHANGED Control!controlVars
  <2>1. TryAcquire(c) /\ held' = held
    BY <1>2 DEF FirstAcquire, inputVars
  <2> QED BY <2>1, <1>0, AcquireTakes
<1>3. ASSUME NEW c \in Clients, Notified(c) PROVE  Control!ControlNext \/ UNCHANGED Control!controlVars
  <2>1. held' = held /\ (TryAcquire(c) \/ UNCHANGED owners)
    BY <1>3 DEF Notified, inputVars
  <2> QED BY <2>1, <1>0, AcquireTakes DEF Control!controlVars
<1>4. ASSUME NEW c \in Clients, Leave(c) PROVE  Control!ControlNext \/ UNCHANGED Control!controlVars
  <2>1. owners' = owners
    BY <1>4 DEF Leave
  <2>2. CASE granted[c]
    <3>1. Send(c, {}, KeymapUps(c) \cup Contacts \cup pressed[c])
      BY <1>4, <2>2 DEF Leave
    <3>2. {} \in SUBSET (Keys \cup Contacts)
      OBVIOUS
    <3> QED BY <2>1, <2>2, <3>1, <3>2, <1>0, SendOperates
  <2>3. CASE ~granted[c]
    <3>1. held' = held
      BY <1>4, <2>3 DEF Leave
    <3> QED BY <2>1, <3>1, <1>0 DEF Control!controlVars
  <2> QED BY <2>2, <2>3
<1>5. ASSUME NEW c \in Clients, Release(c) PROVE  Control!ControlNext \/ UNCHANGED Control!controlVars
  BY <1>5, <1>0, ReleaseGivesUp
<1>6. ASSUME NEW c \in Clients, Input(c) PROVE  Control!ControlNext \/ UNCHANGED Control!controlVars
  <2>1. PICK downs \in SUBSET (Keys \cup Contacts) : \E ups : Send(c, downs, ups)
    <3>1. ASSUME NEW k \in Keys, KeyboardDown(c, k) PROVE Send(c, {k}, {})
      BY <3>1 DEF KeyboardDown
    <3>2. ASSUME NEW k \in Keys, KeyboardUp(c, k) PROVE Send(c, {}, {k})
      BY <3>2 DEF KeyboardUp
    <3>3. CASE Touch(c)
      BY <3>3 DEF Touch
    <3>4. ASSUME NEW b \in BOOLEAN, KeymapReset(c, b) PROVE Send(c, {}, KeymapUps(c))
      BY <3>4 DEF KeymapReset
    <3>5. CASE KeymapRender(c)
      <4>1. PICK frame \in SUBSET (Keys \cup Contacts) :
               Send(c, frame \ mapped[c], mapped[c] \ frame)
        BY <3>5 DEF KeymapRender
      <4>2. frame \ mapped[c] \in SUBSET (Keys \cup Contacts)
        OBVIOUS
      <4> QED BY <4>1, <4>2
    <3>6. ASSUME NEW k \in Keys PROVE {k} \in SUBSET (Keys \cup Contacts)
      OBVIOUS
    <3>7. {} \in SUBSET (Keys \cup Contacts)
      OBVIOUS
    <3> QED BY <1>6, <3>1, <3>2, <3>3, <3>4, <3>5, <3>6, <3>7 DEF Input
  <2>2. PICK ups : Send(c, downs, ups)
    BY <2>1
  <2>3. granted[c] /\ owners' = owners
    BY <1>6 DEF Input, KeyboardDown, KeyboardUp, Touch, KeymapReset, KeymapRender,
                Controls, leaseVars
  <2> QED BY <2>2, <2>3, <1>0, SendOperates
<1>7. ASSUME NEW d \in Devices, SessionEnds(d) \/ HidCloses(d) \/ SessionStarts(d)
      PROVE  Control!ControlNext \/ UNCHANGED Control!controlVars
  <2>1. owners' = owners
    BY <1>7 DEF SessionEnds, HidCloses, SessionStarts, leaseVars
  <2>2. held' = held \/ \E rest \in SUBSET held[d] : held' = [held EXCEPT ![d] = rest]
    <3>1. {} \in SUBSET held[d]
      OBVIOUS
    <3> QED BY <3>1, <1>7 DEF SessionEnds, HidCloses, SessionStarts
  <2>3. CASE held' = held
    BY <2>1, <2>3 DEF Control!controlVars
  <2>4. CASE \E rest \in SUBSET held[d] : held' = [held EXCEPT ![d] = rest]
    <3>1. Control!Reset(d)
      BY <2>1, <2>4 DEF Control!Reset
    <3> QED BY <3>1 DEF Control!ControlNext
  <2> QED BY <2>2, <2>3, <2>4
<1>8. CASE UNCHANGED vars
  BY <1>8 DEF vars, Control!controlVars
<1>9. ASSUME NEW c \in Clients, Connection(c)
      PROVE  Control!ControlNext \/ UNCHANGED Control!controlVars
  <2>1. CASE Connect(c) \/ HelloRejected(c) \/ Subscribe(c) \/ Greeted(c)
    BY <2>1, <1>1
  <2>2. CASE FirstAcquire(c)
    BY <2>2, <1>2
  <2>3. CASE Notified(c)
    BY <2>3, <1>3
  <2>4. CASE Leave(c)
    BY <2>4, <1>4
  <2>5. CASE Release(c)
    BY <2>5, <1>5
  <2> QED BY <1>9, <2>1, <2>2, <2>3, <2>4, <2>5 DEF Connection
<1>10. CASE Next
  <2>1. ASSUME NEW c \in Clients, Connection(c) \/ Input(c)
        PROVE  Control!ControlNext \/ UNCHANGED Control!controlVars
    <3>1. CASE Connection(c)
      BY <3>1, <1>9
    <3>2. CASE Input(c)
      BY <3>2, <1>6
    <3> QED BY <2>1, <3>1, <3>2
  <2> QED BY <1>10, <2>1, <1>7 DEF Next
<1> QED BY <1>8, <1>10

\* Whatever order connections come, wait, take over and leave in, a device has
\* one controller at a time, takes input from it alone, and is handed on only
\* with nothing down: the control lease implements DeviceControl.
THEOREM ControlRefined == Spec => Control!ControlSpec
<1>1. Init => Exclusive /\ Clean
  BY NoClientAssumption, TargetAssumption
     DEF Init, Exclusive, SingleController, OwnerHolds, HolderAttempted,
         Clean, HeldByController, NothingWithoutSession
<1>2. Init => Control!ControlInit
  BY DEF Init, Control!ControlInit
<1>3. TypeOK /\ Exclusive /\ Clean /\ [Next]_vars
         => [Control!ControlNext]_(Control!controlVars)
  BY ControlStep
<1> QED BY <1>1, <1>2, <1>3, TypeCorrect, ExclusiveStep, CleanStep,
           PTL DEF Spec, Control!ControlSpec
=============================================================================
