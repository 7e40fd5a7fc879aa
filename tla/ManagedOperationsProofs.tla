---------------------- MODULE ManagedOperationsProofs ----------------------
(***************************************************************************)
(* Proofs about ManagedOperations for every set of kinds and calls and all *)
(* capacities and bounds.                                                  *)
(***************************************************************************)
EXTENDS ManagedOperations, FiniteSetTheorems, WellFoundedInduction, TLAPS

\* Ids are given in order, and every record has a kind.
Known ==
    \A i \in Ids : /\ i > nextId => phase[i] = "none"
                   /\ phase[i] # "none" => kindOf[i] \in Kinds

\* A call that is about to send its Stop has a target that was begun.
Requested ==
    \A c \in Calls : pc[c] = "requested" =>
        target[c] \in Ids /\ target[c] <= nextId /\ kindOf[target[c]] \in Kinds

Typed == TypeOK /\ Known /\ Requested

-----------------------------------------------------------------------------
(***************************************************************************)
(* The operators the actions are built from.                               *)
(***************************************************************************)

\* What begin does to the registry: one more record, the others keep their
\* phase or were evicted after they had ended.
LEMMA BeginFacts ==
    ASSUME TypeOK, Known, NEW k \in Kinds, Begin(k)
    PROVE  /\ nextId \in Nat /\ nextId + 1 \in Ids /\ nextId' = nextId + 1
           /\ kindOf' \in [Ids -> Kinds \cup {"none"}]
           /\ phase' \in [Ids -> Active \cup Ended \cup {"none"}]
           /\ phase[nextId + 1] = "none"
           /\ phase'[nextId + 1] = "running" /\ kindOf'[nextId + 1] = k
           /\ \A i \in Ids \ {nextId + 1} :
                 /\ kindOf'[i] = kindOf[i]
                 /\ phase'[i] = phase[i] \/ (phase[i] \in Ended /\ phase'[i] = "none")
<1>1. nextId \in Nat /\ nextId + 1 \in Ids /\ nextId' = nextId + 1
  BY BoundsAssumption DEF TypeOK, Begin, Ids
<1>2. phase[nextId + 1] = "none"
  BY <1>1 DEF Known
<1>3. kindOf' \in [Ids -> Kinds \cup {"none"}]
  BY <1>1 DEF TypeOK, Begin
<1>4. phase' \in [Ids -> Active \cup Ended \cup {"none"}]
  BY <1>1 DEF TypeOK, Begin, Active
<1>5. phase'[nextId + 1] = "running" /\ kindOf'[nextId + 1] = k
  BY <1>1 DEF TypeOK, Begin
<1>6. ASSUME NEW i \in Ids \ {nextId + 1}
      PROVE  /\ kindOf'[i] = kindOf[i]
             /\ phase'[i] = phase[i] \/ (phase[i] \in Ended /\ phase'[i] = "none")
  <2>1. i \in Evicted => phase[i] \in Ended
    BY DEF Evicted, Evictable
  <2>2. phase'[i] = IF i \in Evicted THEN "none" ELSE phase[i]
    BY <1>6 DEF Begin
  <2>3. kindOf'[i] = kindOf[i]
    BY <1>6 DEF TypeOK, Begin
  <2> QED BY <2>1, <2>2, <2>3
<1> QED BY <1>1, <1>2, <1>3, <1>4, <1>5, <1>6

\* Every answer is an answer.
LEMMA ReplyType ==
    ASSUME TypeOK, NEW S, NEW r \in {"ok", "err"}, Reply(S, r)
    PROVE  reply' \in [Calls -> {"none", "ok", "err"}]
BY DEF TypeOK, Reply

\* Neither a finished record nor a failed request creates or drops a record.
LEMMA FinishFacts ==
    ASSUME TypeOK, NEW i, NEW end \in Ended, FinishRecord(i, end)
    PROVE  /\ phase' \in [Ids -> Active \cup Ended \cup {"none"}]
           /\ \A j \in Ids : phase'[j] = IF j = i /\ phase[j] \in Active THEN end ELSE phase[j]
BY DEF TypeOK, FinishRecord

LEMMA FailedFacts ==
    ASSUME TypeOK, NEW i, CancelRequestFailed(i)
    PROVE  /\ phase' \in [Ids -> Active \cup Ended \cup {"none"}]
           /\ \A j \in Ids : phase'[j] = IF j = i /\ phase[j] = "cancelling"
                                         THEN "running" ELSE phase[j]
BY DEF TypeOK, CancelRequestFailed, Active

\* What a step does to the records when it begins none: an active record
\* stays active or ends, an ended one keeps its phase.
Moves ==
    /\ UNCHANGED <<nextId, kindOf>>
    /\ phase' \in [Ids -> Active \cup Ended \cup {"none"}]
    /\ \A i \in Ids : \/ phase'[i] = phase[i]
                      \/ phase[i] \in Active /\ phase'[i] \in Active \cup Ended

LEMMA MovesKnown ==
    ASSUME Known, Moves
    PROVE  Known'
<1>1. \A i \in Ids : phase'[i] # "none" <=> phase[i] # "none"
  BY DEF Moves, Active, Ended
<1> QED BY <1>1 DEF Moves, Known, Ids, Kinds, Services

-----------------------------------------------------------------------------
(***************************************************************************)
(* The registry, step by step.                                             *)
(***************************************************************************)

\* A command that waits is a command, and taking it leaves commands.
LEMMA QueueFacts ==
    ASSUME NEW q \in Seq(Commands), q # <<>>
    PROVE  /\ Head(q) \in Commands /\ Head(q).kind \in Kinds
           /\ Tail(q) \in Seq(Commands) /\ Len(Tail(q)) = Len(q) - 1 /\ Len(q) \in Nat
<1>1. Head(q) \in Commands /\ Tail(q) \in Seq(Commands)
      /\ Len(Tail(q)) = Len(q) - 1 /\ Len(q) \in Nat
  OBVIOUS
<1> QED BY <1>1 DEF Commands

\* A step either admits one new operation or moves records on.
LEMMA RegistryStep ==
    ASSUME TypeOK, Known, Next
    PROVE  Moves \/ \E k \in Kinds : Admits(k) /\ Begin(k)
<1>0. ASSUME UNCHANGED registryVars PROVE Moves
  BY <1>0 DEF registryVars, Moves, TypeOK
<1>1. CASE \E op \in {"start", "stop"}, k \in Kinds : Request(op, k)
  BY <1>1, <1>0 DEF Request
<1>2. ASSUME NEW c \in Calls, Caller(c) PROVE Moves
  <2>1. ASSUME NEW i \in Ids, CancelRequest(c, i) PROVE Moves
    BY <2>1 DEF CancelRequest, Moves, IsActive, TypeOK, Active
  <2>2. CASE CancelSend(c)
    <3>1. CASE UNCHANGED phase
      BY <2>2, <3>1 DEF CancelSend, Moves, TypeOK
    <3>2. CASE CancelRequestFailed(target[c])
      BY <2>2, <3>2, FailedFacts DEF CancelSend, Moves, Active
    <3> QED BY <2>2, <3>1, <3>2 DEF CancelSend
  <2>3. CASE CancelAnswered(c)
    <3>1. CASE UNCHANGED phase
      BY <2>3, <3>1 DEF CancelAnswered, Moves, TypeOK
    <3>2. CASE CancelRequestFailed(target[c])
      BY <2>3, <3>2, FailedFacts DEF CancelAnswered, Moves, Active
    <3> QED BY <2>3, <3>1, <3>2 DEF CancelAnswered
  <2>4. CASE CancelTimesOut(c)
    BY <2>4, FailedFacts DEF CancelTimesOut, Moves, Active
  <2>5. CASE CancelDropped(c)
    BY <2>5, <1>0 DEF CancelDropped
  <2> QED BY <1>2, <2>1, <2>2, <2>3, <2>4, <2>5 DEF Caller
<1>3. CASE Session
  <2>1. CASE Route
    BY <2>1, <1>0 DEF Route
  <2>2. CASE Uninstall
    <3>1. Head(queue).kind \in Kinds
      BY <2>2, QueueFacts DEF Uninstall, TypeOK
    <3>2. CASE Admits(Head(queue).kind)
      BY <2>2, <3>1, <3>2 DEF Uninstall
    <3>3. CASE ~Admits(Head(queue).kind)
      BY <2>2, <3>3, <1>0 DEF Uninstall, registryVars
    <3> QED BY <3>2, <3>3
  <2>3. CASE SessionStarts
    BY <2>3, <1>0 DEF SessionStarts
  <2>4. CASE SessionConnects
    BY <2>4, <1>0 DEF SessionConnects
  <2>5. CASE SessionCloses
    BY <2>5 DEF SessionCloses, Moves, TypeOK, IsActive, Ended
  <2>6. CASE SessionEnds
    BY <2>6 DEF SessionEnds, CancelAll, Moves, TypeOK, IsActive, Ended
  <2> QED BY <1>3, <2>1, <2>2, <2>3, <2>4, <2>5, <2>6 DEF Session
<1>4. ASSUME NEW k \in Kinds, Service(k)
      PROVE  Moves \/ (Admits(k) /\ Begin(k))
  <2>0. ASSUME NEW i, NEW end \in Ended, FinishRecord(i, end), UNCHANGED <<nextId, kindOf>>
        PROVE  Moves
    BY <2>0, FinishFacts DEF Moves
  <2>1. CASE TakeIdle(k)
    BY <2>1, <1>0 DEF TakeIdle, registryVars
  <2>2. CASE TakeWorking(k) \/ WorkStarts(k) \/ WorkEnds(k) \/ Aborted(k)
    BY <2>2, <1>0 DEF TakeWorking, WorkStarts, WorkEnds, Aborted, Gone, registryVars
  <2>3. CASE StartFails(k)
    BY <2>3, <2>0 DEF StartFails, Ended
  <2>4. CASE WorkFinished(k)
    <3>1. PICK end \in {outcome[k]} \cup (IF k \in Captures THEN {"failed"} ELSE {}) :
             FinishRecord(workId[k], end)
      BY <2>4 DEF WorkFinished
    <3>2. end \in Ended
      BY <3>1 DEF TypeOK, Ended
    <3> QED BY <2>4, <3>1, <3>2, <2>0 DEF WorkFinished
  <2>5. CASE SeesShutdown(k)
    BY <2>5, <1>0 DEF SeesShutdown, Gone, registryVars
  <2>6. CASE Leaves(k)
    <3>1. PICK end \in {"cancelled"} \cup (IF k \in Captures THEN {"failed"} ELSE {}) :
             FinishRecord(workId[k], end)
      BY <2>6 DEF Leaves
    <3>2. end \in Ended
      BY <3>1 DEF Ended
    <3> QED BY <2>6, <3>1, <3>2, <2>0 DEF Leaves, Gone
  <2> QED BY <1>4, <2>1, <2>2, <2>3, <2>4, <2>5, <2>6 DEF Service
<1> QED BY <1>1, <1>2, <1>3, <1>4 DEF Next

\* Known survives every step.
LEMMA KnownStep ==
    ASSUME TypeOK, Known, Next
    PROVE  Known' /\ nextId' \in 0..MaxId /\ nextId <= nextId'
           /\ kindOf' \in [Ids -> Kinds \cup {"none"}]
           /\ phase' \in [Ids -> Active \cup Ended \cup {"none"}]
           /\ \A i \in Ids : i <= nextId => kindOf'[i] = kindOf[i]
<1>0. nextId \in Nat
  BY DEF TypeOK
<1>1. CASE Moves
  BY <1>0, <1>1, MovesKnown DEF Moves, TypeOK
<1>2. ASSUME NEW k \in Kinds, Begin(k)
      PROVE  Known' /\ nextId' \in 0..MaxId /\ nextId <= nextId'
             /\ kindOf' \in [Ids -> Kinds \cup {"none"}]
             /\ phase' \in [Ids -> Active \cup Ended \cup {"none"}]
             /\ \A i \in Ids : i <= nextId => kindOf'[i] = kindOf[i]
  <2>1. nextId' \in 0..MaxId /\ nextId <= nextId'
    BY <1>0, <1>2, BeginFacts DEF Ids
  <2>2. ASSUME NEW i \in Ids
        PROVE  /\ i > nextId' => phase'[i] = "none"
               /\ phase'[i] # "none" => kindOf'[i] \in Kinds
    <3>1. CASE i = nextId + 1
      BY <3>1, <1>2, BeginFacts DEF Ids
    <3>2. CASE i # nextId + 1
      <4>1. phase'[i] # "none" => phase[i] = phase'[i] /\ kindOf'[i] = kindOf[i]
        BY <3>2, <1>2, BeginFacts
      <4>2. i > nextId' => i > nextId
        BY <1>0, <1>2, BeginFacts DEF Ids
      <4> QED BY <4>1, <4>2 DEF Known
    <3> QED BY <3>1, <3>2
  <2>3. Known'
    BY <2>2 DEF Known, Ids, Kinds, Services
  <2>4. \A i \in Ids : i <= nextId => i \in Ids \ {nextId + 1}
    BY <1>0 DEF Ids
  <2> QED BY <2>1, <2>3, <2>4, <1>2, BeginFacts
<1> QED BY <1>1, <1>2, RegistryStep

-----------------------------------------------------------------------------
(***************************************************************************)
(* Type correctness.                                                       *)
(***************************************************************************)

\* The sessions' and the channels' part.
TypeChannels ==
    /\ session \in {"down", "starting", "up", "closing"}
    /\ queue \in Seq(Commands)
    /\ inbox \in [Services -> Seq(Commands)]
    /\ \A k \in Services : Len(inbox[k]) <= InboxCapacity

\* The services' part.
TypeServices ==
    /\ stage \in [Kinds -> {"idle", "starting", "working", "finishing", "leaving", "gone"}]
    /\ workId \in [Kinds -> Ids \cup {0}]
    /\ outcome \in [Kinds -> Ended]
    /\ stopper \in [Kinds -> Calls \cup {NoCall}]

\* The calls' part.
TypeCalls ==
    /\ pc \in [Calls -> {"idle", "requested", "waiting", "ok", "error", "dropped"}]
    /\ target \in [Calls -> Ids \cup {0}]
    /\ reply \in [Calls -> {"none", "ok", "err"}]

LEMMA ChannelsStep ==
    ASSUME Typed, Next
    PROVE  TypeChannels'
<1>0. TypeOK /\ InboxCapacity \in Nat
  BY BoundsAssumption DEF Typed
<1>1. ASSUME UNCHANGED sessionVars PROVE TypeChannels'
  BY <1>0, <1>1 DEF sessionVars, TypeChannels, TypeOK
<1>2. ASSUME NEW op \in {"start", "stop"}, NEW k \in Kinds, Request(op, k)
      PROVE  TypeChannels'
  <2>1. [op |-> op, kind |-> k, call |-> NoCall] \in Commands
    BY DEF Commands
  <2>2. queue' \in Seq(Commands)
    BY <1>0, <1>2, <2>1 DEF Request, TypeOK
  <2> QED BY <1>0, <1>2, <2>2 DEF Request, TypeChannels, TypeOK
<1>3. ASSUME NEW c \in Calls, Caller(c) PROVE TypeChannels'
  <2>1. CASE CancelSend(c)
    <3>1. [op |-> "stop", kind |-> kindOf[target[c]], call |-> c] \in Commands
      BY <2>1 DEF CancelSend, Commands, Typed, Requested
    <3>2. queue \in Seq(Commands) /\ \A m \in Commands : Append(queue, m) \in Seq(Commands)
      BY <1>0 DEF TypeOK
    <3>3. queue' \in Seq(Commands)
      BY <2>1, <3>1, <3>2 DEF CancelSend
    <3> QED BY <1>0, <2>1, <3>3 DEF CancelSend, TypeChannels, TypeOK
  <2>2. CASE ~CancelSend(c)
    BY <1>1, <1>3, <2>2 DEF Caller, CancelRequest, CancelAnswered, CancelTimesOut, CancelDropped
  <2> QED BY <2>1, <2>2
<1>4. ASSUME NEW k \in Services, inbox[k] # <<>>, inbox' = [inbox EXCEPT ![k] = Tail(@)],
             UNCHANGED <<session, queue>>
      PROVE  TypeChannels'
  <2>1. inbox[k] \in Seq(Commands) /\ Len(inbox[k]) <= InboxCapacity
    BY <1>0 DEF TypeOK
  <2>2. Tail(inbox[k]) \in Seq(Commands) /\ Len(Tail(inbox[k])) <= InboxCapacity
    BY <2>1, <1>0, <1>4, QueueFacts
  <2> QED BY <1>0, <1>4, <2>2 DEF TypeChannels, TypeOK
<1>5. CASE Session
  <2>1. CASE Route
    <3> DEFINE cmd == Head(queue)
               k == cmd.kind
    <3>1. cmd \in Commands /\ Tail(queue) \in Seq(Commands) /\ k \in Services
      BY <1>0, <2>1, QueueFacts DEF Route, TypeOK
    <3>2. inbox[k] \in Seq(Commands) /\ Len(inbox[k]) \in Nat
      BY <1>0, <3>1 DEF TypeOK
    <3>3. CASE UNCHANGED inbox
      BY <1>0, <2>1, <3>1, <3>3 DEF Route, TypeChannels, TypeOK
    <3>4. CASE HasRoom(k) /\ inbox' = [inbox EXCEPT ![k] = Append(@, cmd)]
      <4>1. /\ Append(inbox[k], cmd) \in Seq(Commands)
            /\ Len(Append(inbox[k], cmd)) <= InboxCapacity
        BY <1>0, <3>1, <3>2, <3>4 DEF HasRoom
      <4> QED BY <1>0, <2>1, <3>1, <3>4, <4>1 DEF Route, TypeChannels, TypeOK
    <3> QED BY <2>1, <3>3, <3>4 DEF Route
  <2>2. CASE Uninstall
    <3>1. Tail(queue) \in Seq(Commands)
      BY <1>0, <2>2, QueueFacts DEF Uninstall, TypeOK
    <3> QED BY <1>0, <2>2, <3>1 DEF Uninstall, TypeChannels, TypeOK
  <2>3. CASE SessionStarts \/ SessionConnects \/ SessionCloses \/ SessionEnds
    <3>1. <<>> \in Seq(Commands)
      OBVIOUS
    <3> QED BY <1>0, <2>3, <3>1
        DEF SessionStarts, SessionConnects, SessionCloses, SessionEnds, TypeChannels, TypeOK
  <2> QED BY <1>5, <2>1, <2>2, <2>3 DEF Session
<1>6. ASSUME NEW k \in Kinds, Service(k) PROVE TypeChannels'
  <2>1. CASE k \in Services /\ TakeIdle(k)
    BY <1>4, <2>1 DEF TakeIdle
  <2>2. CASE TakeWorking(k)
    BY <1>4, <2>2 DEF TakeWorking
  <2>3. CASE WorkStarts(k) \/ StartFails(k) \/ WorkEnds(k) \/ WorkFinished(k)
    BY <1>1, <2>3 DEF WorkStarts, StartFails, WorkEnds, WorkFinished
  <2>4. ASSUME Gone(k) PROVE TypeChannels'
    <3>1. <<>> \in Seq(Commands) /\ Len(<<>>) = 0
      OBVIOUS
    <3>2. inbox' \in [Services -> Seq(Commands)]
      BY <1>0, <2>4, <3>1 DEF Gone, TypeOK
    <3>3. \A s \in Services : inbox'[s] = IF s = k THEN <<>> ELSE inbox[s]
      BY <1>0, <2>4 DEF Gone, TypeOK
    <3>4. \A s \in Services : Len(inbox'[s]) <= InboxCapacity
      BY <1>0, <3>1, <3>3 DEF TypeOK
    <3> QED BY <1>0, <2>4, <3>2, <3>4 DEF Gone, TypeChannels, TypeOK
  <2>5. CASE SeesShutdown(k) \/ Leaves(k) \/ Aborted(k)
    BY <1>1, <2>4, <2>5 DEF SeesShutdown, Leaves, Aborted
  <2> QED BY <1>6, <2>1, <2>2, <2>3, <2>5 DEF Service
<1> QED BY <1>2, <1>3, <1>5, <1>6 DEF Next

LEMMA ServicesStep ==
    ASSUME Typed, Next
    PROVE  TypeServices'
<1>0. TypeOK /\ Known
  BY DEF Typed
<1>1. ASSUME UNCHANGED serviceVars PROVE TypeServices'
  BY <1>0, <1>1 DEF serviceVars, TypeServices, TypeOK
<1>2. ASSUME NEW c \in Calls, Caller(c) PROVE TypeServices'
  BY <1>1, <1>2
  DEF Caller, CancelRequest, CancelSend, CancelAnswered, CancelTimesOut, CancelDropped
<1>3. CASE Session
  <2>1. CASE Route \/ SessionConnects \/ SessionEnds
    BY <1>1, <2>1 DEF Route, SessionConnects, SessionEnds
  <2>2. CASE Uninstall
    <3>1. Head(queue).kind \in Kinds
      BY <1>0, <2>2, QueueFacts DEF Uninstall, TypeOK
    <3>2. CASE Admits(Head(queue).kind)
      <4>1. Begin(Head(queue).kind)
        BY <2>2, <3>2 DEF Uninstall
      <4>2. nextId + 1 \in Ids
        BY <1>0, <3>1, <4>1, BeginFacts
      <4>3. stage' = [stage EXCEPT ![Head(queue).kind] = "working"]
            /\ workId' = [workId EXCEPT ![Head(queue).kind] = nextId + 1]
            /\ UNCHANGED <<outcome, stopper>>
        BY <2>2, <3>2 DEF Uninstall
      <4> HIDE <2>2
      <4> QED BY <1>0, <3>1, <4>2, <4>3 DEF TypeServices, TypeOK
    <3>3. CASE ~Admits(Head(queue).kind)
      BY <1>1, <2>2, <3>3 DEF Uninstall, serviceVars
    <3> QED BY <3>2, <3>3
  <2>3. CASE SessionStarts \/ SessionCloses
    BY <1>0, <2>3 DEF SessionStarts, SessionCloses, TypeServices, TypeOK
  <2> QED BY <1>3, <2>1, <2>2, <2>3 DEF Session
<1>4. ASSUME NEW k \in Kinds, Service(k) PROVE TypeServices'
  <2>1. CASE k \in Services /\ TakeIdle(k)
    <3>1. CASE UNCHANGED <<stage, workId>>
      BY <1>1, <2>1, <3>1 DEF TakeIdle, serviceVars
    <3>2. CASE Begin(k)
      <4>1. nextId + 1 \in Ids
        BY <1>0, <3>2, BeginFacts
      <4>2. stage' \in [Kinds -> {"idle", "starting", "working", "finishing", "leaving", "gone"}]
        BY <1>0, <2>1 DEF TakeIdle, TypeOK
      <4>3. workId' \in [Kinds -> Ids \cup {0}]
        BY <1>0, <2>1, <4>1 DEF TakeIdle, TypeOK
      <4>4. UNCHANGED <<outcome, stopper>>
        BY <2>1 DEF TakeIdle
      <4> QED BY <1>0, <4>2, <4>3, <4>4 DEF TypeServices, TypeOK
    <3> QED BY <2>1, <3>1, <3>2 DEF TakeIdle
  <2>2. CASE TakeWorking(k)
    <3>1. inbox[k] \in Seq(Commands) /\ inbox[k] # <<>>
      BY <1>0, <2>2 DEF TakeWorking, TypeOK
    <3>2. Head(inbox[k]).call \in Calls \cup {NoCall}
      BY <3>1, QueueFacts DEF Commands
    <3> QED BY <1>0, <2>2, <3>2 DEF TakeWorking, TypeServices, TypeOK, Ended
  <2>3. CASE WorkStarts(k) \/ StartFails(k) \/ WorkFinished(k)
    BY <1>0, <2>3 DEF WorkStarts, StartFails, WorkFinished, TypeServices, TypeOK
  <2>5. CASE WorkEnds(k)
    BY <1>0, <2>5 DEF WorkEnds, TypeServices, TypeOK, Ended
  <2>4. CASE SeesShutdown(k) \/ Leaves(k) \/ Aborted(k)
    BY <1>0, <2>4 DEF SeesShutdown, Leaves, Aborted, Gone, TypeServices, TypeOK
  <2> QED BY <1>4, <2>1, <2>2, <2>3, <2>4, <2>5 DEF Service
<1>5. ASSUME NEW op \in {"start", "stop"}, NEW k \in Kinds, Request(op, k)
      PROVE  TypeServices'
  BY <1>1, <1>5 DEF Request
<1> QED BY <1>2, <1>3, <1>4, <1>5 DEF Next

LEMMA CallsStep ==
    ASSUME Typed, Next
    PROVE  TypeCalls' /\ Requested'
<1>0. TypeOK /\ Known /\ Requested /\ nextId \in Nat
  BY DEF Typed, TypeOK
<1>1. /\ nextId <= nextId' /\ nextId' \in Nat
      /\ \A i \in Ids : i <= nextId => kindOf'[i] = kindOf[i]
  BY <1>0, KnownStep
<1>2. ASSUME UNCHANGED <<pc, target>>, reply' \in [Calls -> {"none", "ok", "err"}]
      PROVE  TypeCalls' /\ Requested'
  <2>1. TypeCalls'
    BY <1>0, <1>2 DEF TypeCalls, TypeOK
  <2>2. ASSUME NEW c \in Calls, pc'[c] = "requested"
        PROVE  target'[c] \in Ids /\ target'[c] <= nextId' /\ kindOf'[target'[c]] \in Kinds
    BY <1>0, <1>1, <1>2, <2>2 DEF Requested, Ids
  <2> QED BY <2>1, <2>2 DEF Requested, Ids, Kinds, Services
<1>3. ASSUME UNCHANGED callVars PROVE TypeCalls' /\ Requested'
  BY <1>0, <1>2, <1>3 DEF callVars, TypeOK
<1>4. ASSUME NEW c \in Calls, Caller(c) PROVE TypeCalls' /\ Requested'
  <2>1. ASSUME NEW i \in Ids, CancelRequest(c, i)
        PROVE  TypeCalls' /\ Requested'
    <3>1. i <= nextId /\ kindOf[i] \in Kinds
      BY <1>0, <2>1 DEF CancelRequest, IsActive, Known, Active, Ids
    <3>2. TypeCalls'
      BY <1>0, <2>1 DEF CancelRequest, TypeCalls, TypeOK
    <3>3. ASSUME NEW d \in Calls, pc'[d] = "requested"
          PROVE  target'[d] \in Ids /\ target'[d] <= nextId' /\ kindOf'[target'[d]] \in Kinds
      <4>1. UNCHANGED <<nextId, kindOf>>
        BY <2>1 DEF CancelRequest
      <4>2. CASE d = c
        BY <1>0, <2>1, <3>1, <4>1, <4>2 DEF CancelRequest, TypeOK
      <4>3. CASE d # c
        BY <1>0, <2>1, <3>3, <4>1, <4>3 DEF CancelRequest, TypeOK, Requested
      <4> QED BY <4>2, <4>3
    <3> QED BY <3>2, <3>3 DEF Requested, Ids, Kinds, Services
  <2>2. ASSUME NEW p \in {"waiting", "ok", "error", "dropped"},
               pc' = [pc EXCEPT ![c] = p], UNCHANGED <<target, reply>>
        PROVE  TypeCalls' /\ Requested'
    <3>1. TypeCalls'
      BY <1>0, <2>2 DEF TypeCalls, TypeOK
    <3>2. ASSUME NEW d \in Calls, pc'[d] = "requested"
          PROVE  target'[d] \in Ids /\ target'[d] <= nextId' /\ kindOf'[target'[d]] \in Kinds
      <4>1. pc[d] = "requested"
        BY <1>0, <2>2, <3>2 DEF TypeOK
      <4> QED BY <1>0, <1>1, <2>2, <4>1 DEF Requested, Ids
    <3> QED BY <3>1, <3>2 DEF Requested, Ids, Kinds, Services
  <2>3. CASE CancelSend(c)
    BY <2>2, <2>3 DEF CancelSend
  <2>4. CASE CancelAnswered(c)
    BY <2>2, <2>4 DEF CancelAnswered
  <2>5. CASE CancelTimesOut(c) \/ CancelDropped(c)
    BY <2>2, <2>5 DEF CancelTimesOut, CancelDropped
  <2> QED BY <1>4, <2>1, <2>3, <2>4, <2>5 DEF Caller
<1>5. CASE Session
  <2>1. CASE Route
    <3>1. CASE UNCHANGED reply
      BY <1>0, <1>2, <2>1, <3>1 DEF Route, TypeOK
    <3>2. CASE Reply({Head(queue).call}, Rejection)
      BY <1>0, <1>2, <2>1, <3>2, ReplyType DEF Route, Rejection
    <3> QED BY <2>1, <3>1, <3>2 DEF Route
  <2>2. CASE SessionEnds
    BY <1>0, <1>2, <2>2, ReplyType DEF SessionEnds
  <2>3. CASE Uninstall \/ SessionStarts \/ SessionConnects \/ SessionCloses
    BY <1>3, <2>3 DEF Uninstall, SessionStarts, SessionConnects, SessionCloses
  <2> QED BY <1>5, <2>1, <2>2, <2>3 DEF Session
<1>6. ASSUME NEW k \in Kinds, Service(k) PROVE TypeCalls' /\ Requested'
  <2>1. ASSUME NEW S, NEW r \in {"ok", "err"}, Reply(S, r) \/ UNCHANGED reply,
               UNCHANGED <<pc, target>>
        PROVE  TypeCalls' /\ Requested'
    BY <1>0, <1>2, <2>1, ReplyType DEF TypeOK
  <2>2. CASE TakeIdle(k)
    BY <2>1, <2>2 DEF TakeIdle
  <2>3. CASE TakeWorking(k)
    BY <2>1, <2>3 DEF TakeWorking
  <2>4. CASE WorkStarts(k) \/ StartFails(k) \/ WorkEnds(k)
    BY <1>3, <2>4 DEF WorkStarts, StartFails, WorkEnds
  <2>5. CASE WorkFinished(k)
    BY <2>1, <2>5 DEF WorkFinished
  <2>6. CASE SeesShutdown(k) \/ Leaves(k) \/ Aborted(k)
    BY <1>3, <2>1, <2>6 DEF SeesShutdown, Leaves, Aborted, Gone
  <2> QED BY <1>6, <2>2, <2>3, <2>4, <2>5, <2>6 DEF Service
<1>7. ASSUME NEW op \in {"start", "stop"}, NEW k \in Kinds, Request(op, k)
      PROVE  TypeCalls' /\ Requested'
  BY <1>3, <1>7 DEF Request
<1> QED BY <1>4, <1>5, <1>6, <1>7 DEF Next

LEMMA TypedInit == Init => Typed
<1> SUFFICES ASSUME Init PROVE Typed
  OBVIOUS
<1>1. <<>> \in Seq(Commands) /\ Len(<<>>) = 0 /\ 0 \in 0..MaxId /\ InboxCapacity \in Nat
  BY BoundsAssumption
<1>2. TypeOK
  BY <1>1 DEF Init, TypeOK, Ended
<1>3. Known /\ Requested
  BY DEF Init, Known, Requested
<1> QED BY <1>2, <1>3 DEF Typed

LEMMA TypedStep == Typed /\ [Next]_vars => Typed'
<1>1. ASSUME Typed, Next PROVE Typed'
  <2>1. TypeOK'
    BY <1>1, KnownStep, ChannelsStep, ServicesStep, CallsStep
    DEF Typed, TypeOK, TypeChannels, TypeServices, TypeCalls, Ids, Kinds, Services
  <2> QED BY <1>1, <2>1, KnownStep, CallsStep DEF Typed
<1>2. ASSUME Typed, UNCHANGED vars PROVE Typed'
  BY <1>2 DEF vars, Typed, TypeOK, Known, Requested, Ids, Kinds, Services, Commands
<1> QED BY <1>1, <1>2

\* Type correctness of the registry, the channels (whose capacity is never
\* exceeded), the services and the calls of cancel.
THEOREM TypeCorrect == Spec => []TypeOK
<1>1. Typed => TypeOK
  BY DEF Typed
<1> QED BY TypedInit, TypedStep, <1>1, PTL DEF Spec

-----------------------------------------------------------------------------
(***************************************************************************)
(* Records that have ended.                                                *)
(***************************************************************************)

\* A record that has ended keeps its phase until it is evicted: no late
\* answer, timeout or session teardown rewrites it.
THEOREM EndedStaysEnded == Spec => EndedFinal
<1>1. ASSUME Typed, Next
      PROVE  \A i \in Ids : phase[i] \in Ended => phase'[i] \in {phase[i], "none"}
  <2>1. TypeOK /\ Known
    BY <1>1 DEF Typed
  <2>2. CASE Moves
    BY <2>2 DEF Moves, Active, Ended
  <2>3. ASSUME NEW k \in Kinds, Begin(k)
        PROVE  \A i \in Ids : phase[i] \in Ended => phase'[i] \in {phase[i], "none"}
    BY <2>1, <2>3, BeginFacts DEF Ended
  <2> QED BY <1>1, <2>1, <2>2, <2>3, RegistryStep
<1>2. Typed /\ [Next]_vars =>
        [\A i \in Ids : phase[i] \in Ended => phase'[i] \in {phase[i], "none"}]_vars
  BY <1>1
<1> QED BY TypedInit, TypedStep, <1>2, PTL DEF Spec, EndedFinal

-----------------------------------------------------------------------------
(***************************************************************************)
(* Active records and the services that work on them.                      *)
(***************************************************************************)

\* A service that does not work has no operation, and without a session
\* there is no service.
Idle ==
    /\ \A k \in Kinds : ~Works(k) => workId[k] = 0
    /\ session = "down" => \A k \in Kinds : stage[k] = "gone"

Served == OneActivePerKind /\ ActiveServed /\ Idle

LEMMA OneActiveStep ==
    ASSUME Typed, OneActivePerKind, Next
    PROVE  OneActivePerKind'
<1>0. TypeOK /\ Known
  BY DEF Typed
<1>1. CASE Moves
  <2>1. \A i \in Ids : phase'[i] \in Active => phase[i] \in Active
    BY <1>1 DEF Moves
  <2> QED BY <1>1, <2>1 DEF Moves, OneActivePerKind, IsActive, Ids
<1>2. ASSUME NEW k \in Kinds, Admits(k), Begin(k) PROVE OneActivePerKind'
  <2>1. \A i \in Ids \ {nextId + 1} :
           /\ kindOf'[i] = kindOf[i]
           /\ phase'[i] \in Active => phase[i] \in Active /\ kindOf[i] # k
    BY <1>0, <1>2, BeginFacts DEF Admits, KindBusy, IsActive, Active
  <2>2. kindOf'[nextId + 1] = k
    BY <1>0, <1>2, BeginFacts
  <2>3. ASSUME NEW i \in Ids, NEW j \in Ids,
               phase'[i] \in Active, phase'[j] \in Active, kindOf'[i] = kindOf'[j]
        PROVE  i = j
    BY <2>1, <2>2, <2>3 DEF OneActivePerKind, IsActive
  <2> QED BY <2>3 DEF OneActivePerKind, IsActive, Ids
<1> QED BY <1>0, <1>1, <1>2, RegistryStep

\* A step that neither begins nor ends an operation or its work.
LEMMA SameWork ==
    ASSUME Known, ActiveServed, Idle, kindOf' = kindOf, workId' = workId,
           \A i \in Ids : phase'[i] \in Active <=> phase[i] \in Active,
           \A k \in Kinds : Works(k)' <=> Works(k),
           \A k \in Kinds : stage[k] = "gone" => stage'[k] = "gone",
           session' # "closing" => session # "closing",
           session' = "down" => session = "down"
    PROVE  ActiveServed' /\ Idle'
<1>1. ASSUME NEW k \in Kinds, Works(k)'
      PROVE  workId'[k] \in Ids /\ phase'[workId'[k]] \in Active /\ kindOf'[workId'[k]] = k
  BY <1>1 DEF ActiveServed, IsActive
<1>2. ASSUME session' # "closing", NEW i \in Ids, phase'[i] \in Active
      PROVE  Works(kindOf[i])' /\ workId'[kindOf'[i]] = i
  <2>1. kindOf[i] \in Kinds
    BY <1>2 DEF Known, Active
  <2>2. Works(kindOf[i]) /\ workId[kindOf[i]] = i
    BY <1>2 DEF ActiveServed, IsActive
  <2>3. stage'[kindOf[i]] \in {"starting", "working", "finishing", "leaving"}
    BY <2>1, <2>2 DEF Works
  <2> QED BY <2>2, <2>3 DEF Works
<1>3. ActiveServed'
  BY <1>1, <1>2 DEF ActiveServed, IsActive, Ids, Kinds, Services, Works
<1>4. Idle'
  BY DEF Idle, Ids, Kinds, Services, Works
<1> QED BY <1>3, <1>4

\* A step that begins an operation and its work.
LEMMA BeginWork ==
    ASSUME Typed, ActiveServed, Idle, session # "down", session' = session,
           NEW k \in Kinds, Admits(k), Begin(k), NEW g \in {"starting", "working"},
           stage' = [stage EXCEPT ![k] = g],
           workId' = [workId EXCEPT ![k] = nextId + 1]
    PROVE  ActiveServed' /\ Idle'
<1>0. TypeOK /\ Known
  BY DEF Typed
<1>1. /\ nextId + 1 \in Ids /\ phase[nextId + 1] = "none"
      /\ phase'[nextId + 1] \in Active /\ kindOf'[nextId + 1] = k
      /\ \A i \in Ids \ {nextId + 1} :
            /\ kindOf'[i] = kindOf[i]
            /\ phase'[i] \in Active <=> phase[i] \in Active
  BY <1>0, BeginFacts DEF Active, Ended
<1>2. \A i \in Ids : phase[i] \in Active => kindOf[i] # k /\ kindOf[i] \in Kinds
  BY <1>0 DEF Admits, KindBusy, IsActive, Known, Active
<1>3. /\ Works(k)' /\ workId'[k] = nextId + 1
      /\ \A j \in Kinds \ {k} : /\ Works(j)' <=> Works(j)
                                 /\ workId'[j] = workId[j]
  BY <1>0 DEF Works, TypeOK
<1>4. ASSUME NEW j \in Kinds, Works(j)'
      PROVE  workId'[j] \in Ids /\ phase'[workId'[j]] \in Active /\ kindOf'[workId'[j]] = j
  <2>1. CASE j = k
    BY <2>1, <1>1, <1>3
  <2>2. CASE j # k
    <3>1. workId[j] \in Ids /\ phase[workId[j]] \in Active /\ kindOf[workId[j]] = j
      BY <2>2, <1>3, <1>4 DEF ActiveServed, IsActive
    <3>2. workId[j] # nextId + 1
      BY <3>1, <1>1 DEF Active
    <3> QED BY <2>2, <3>1, <3>2, <1>1, <1>3
  <2> QED BY <2>1, <2>2
<1>5. ASSUME session' # "closing", NEW i \in Ids, phase'[i] \in Active
      PROVE  Works(kindOf[i])' /\ workId'[kindOf'[i]] = i
  <2>1. CASE i = nextId + 1
    BY <2>1, <1>1, <1>3
  <2>2. CASE i # nextId + 1
    <3>1. phase[i] \in Active /\ kindOf'[i] = kindOf[i]
      BY <2>2, <1>1, <1>5
    <3>2. Works(kindOf[i]) /\ workId[kindOf[i]] = i
      BY <3>1, <1>5 DEF ActiveServed, IsActive
    <3> QED BY <3>1, <3>2, <1>2, <1>3
  <2> QED BY <2>1, <2>2
<1>6. ActiveServed'
  BY <1>4, <1>5 DEF ActiveServed, IsActive, Ids, Kinds, Services, Works
<1>7. ASSUME NEW j \in Kinds, ~Works(j)' PROVE workId'[j] = 0
  BY <1>3, <1>7 DEF Idle
<1>8. Idle'
  BY <1>7 DEF Idle, Kinds, Services, Works
<1> QED BY <1>6, <1>8

\* A step that ends an operation and its work.
LEMMA EndWork ==
    ASSUME Typed, ActiveServed, Idle, kindOf' = kindOf, session' = session,
           NEW k \in Kinds, Works(k), NEW end \in Ended, FinishRecord(workId[k], end),
           NEW g \in {"idle", "gone"}, stage' = [stage EXCEPT ![k] = g],
           workId' = [workId EXCEPT ![k] = 0]
    PROVE  ActiveServed' /\ Idle'
<1>0. TypeOK
  BY DEF Typed
<1>1. /\ workId[k] \in Ids /\ phase[workId[k]] \in Active /\ kindOf[workId[k]] = k
      /\ phase'[workId[k]] \notin Active
      /\ \A i \in Ids : i # workId[k] => phase'[i] = phase[i]
  BY <1>0, FinishFacts DEF ActiveServed, IsActive, Active, Ended
<1>2. /\ ~Works(k)' /\ workId'[k] = 0
      /\ \A j \in Kinds \ {k} : /\ Works(j)' <=> Works(j)
                                 /\ workId'[j] = workId[j] /\ stage'[j] = stage[j]
  BY <1>0 DEF Works, TypeOK
<1>3. ASSUME NEW j \in Kinds, Works(j)'
      PROVE  workId'[j] \in Ids /\ phase'[workId'[j]] \in Active /\ kindOf'[workId'[j]] = j
  <2>1. j # k /\ Works(j) /\ workId'[j] = workId[j]
    BY <1>2, <1>3
  <2>2. workId[j] \in Ids /\ phase[workId[j]] \in Active /\ kindOf[workId[j]] = j
    BY <2>1 DEF ActiveServed, IsActive
  <2> QED BY <2>1, <2>2, <1>1
<1>4. ASSUME session' # "closing", NEW i \in Ids, phase'[i] \in Active
      PROVE  Works(kindOf[i])' /\ workId'[kindOf'[i]] = i
  <2>1. i # workId[k] /\ phase[i] \in Active
    BY <1>1, <1>4
  <2>2. Works(kindOf[i]) /\ workId[kindOf[i]] = i
    BY <2>1, <1>4 DEF ActiveServed, IsActive
  <2>3. kindOf[i] \in Kinds
    BY <2>1 DEF Typed, Known, Active
  <2> QED BY <2>1, <2>2, <2>3, <1>2
<1>5. ActiveServed'
  BY <1>3, <1>4 DEF ActiveServed, IsActive, Ids, Kinds, Services, Works
<1>6. session # "down"
  BY DEF Idle, Works
<1>7. ASSUME NEW j \in Kinds, ~Works(j)' PROVE workId'[j] = 0
  BY <1>2, <1>7 DEF Idle
<1>8. Idle'
  BY <1>6, <1>7 DEF Idle, Kinds, Services, Works
<1> QED BY <1>5, <1>8

\* A service of a closing session is gone and leaves its record as it is.
LEMMA DropWork ==
    ASSUME Typed, ActiveServed, Idle, session = "closing", NEW k \in Kinds,
           Gone(k), UNCHANGED phase
    PROVE  ActiveServed' /\ Idle'
<1>0. TypeOK
  BY DEF Typed
<1>1. /\ ~Works(k)' /\ workId'[k] = 0 /\ session' = "closing"
      /\ \A j \in Kinds \ {k} : (Works(j)' <=> Works(j)) /\ workId'[j] = workId[j]
  BY <1>0 DEF Gone, Works, TypeOK
<1>2. UNCHANGED <<kindOf, phase>>
  BY DEF Gone
<1>3. ASSUME NEW j \in Kinds, Works(j)'
      PROVE  workId'[j] \in Ids /\ phase'[workId'[j]] \in Active /\ kindOf'[workId'[j]] = j
  BY <1>1, <1>2, <1>3 DEF ActiveServed, IsActive
<1>4. ActiveServed'
  BY <1>1, <1>3 DEF ActiveServed, IsActive, Ids, Kinds, Services, Works
<1>5. ASSUME NEW j \in Kinds, ~Works(j)' PROVE workId'[j] = 0
  BY <1>1, <1>5 DEF Idle
<1>6. Idle'
  BY <1>1, <1>5 DEF Idle, Kinds, Services, Works
<1> QED BY <1>4, <1>6

LEMMA ServedStep ==
    ASSUME Typed, Served, Next
    PROVE  Served'
<1>0. TypeOK /\ Known /\ OneActivePerKind /\ ActiveServed /\ Idle
  BY DEF Typed, Served
<1>1. OneActivePerKind'
  BY <1>0, OneActiveStep
<1>2. ASSUME UNCHANGED <<kindOf, session, stage, workId>>,
             \A i \in Ids : phase'[i] \in Active <=> phase[i] \in Active
      PROVE  ActiveServed' /\ Idle'
  BY <1>0, <1>2, SameWork DEF Works
<1>3. ASSUME NEW op \in {"start", "stop"}, NEW k \in Kinds, Request(op, k)
      PROVE  ActiveServed' /\ Idle'
  BY <1>2, <1>3 DEF Request, registryVars, serviceVars
<1>4. ASSUME NEW c \in Calls, Caller(c) PROVE ActiveServed' /\ Idle'
  <2>1. UNCHANGED <<kindOf, session, stage, workId>>
    BY <1>4 DEF Caller, CancelRequest, CancelSend, CancelAnswered, CancelTimesOut,
                CancelDropped, registryVars, sessionVars, serviceVars
  <2>2. ASSUME CancelRequestFailed(target[c])
        PROVE  \A i \in Ids : phase'[i] \in Active <=> phase[i] \in Active
    BY <1>0, <2>2, FailedFacts DEF Active
  <2>3. ASSUME NEW i \in Ids, CancelRequest(c, i)
        PROVE  \A j \in Ids : phase'[j] \in Active <=> phase[j] \in Active
    BY <1>0, <2>3 DEF CancelRequest, IsActive, TypeOK, Active
  <2>4. \A i \in Ids : phase'[i] \in Active <=> phase[i] \in Active
    BY <1>4, <2>2, <2>3 DEF Caller, CancelSend, CancelAnswered, CancelTimesOut,
                            CancelDropped, registryVars
  <2> QED BY <1>2, <2>1, <2>4
<1>5. ASSUME Session PROVE ActiveServed' /\ Idle'
  <2>1. CASE Route
    BY <1>2, <2>1 DEF Route, registryVars, serviceVars
  <2>2. CASE Uninstall
    <3>1. Head(queue).kind \in Kinds
      BY <1>0, <2>2, QueueFacts DEF Uninstall, TypeOK
    <3>2. CASE Admits(Head(queue).kind)
      BY <1>0, <2>2, <3>1, <3>2, BeginWork DEF Uninstall
    <3>3. CASE ~Admits(Head(queue).kind)
      BY <1>2, <2>2, <3>3 DEF Uninstall
    <3> QED BY <3>2, <3>3
  <2>3. CASE SessionStarts
    <3>1. \A k \in Kinds : ~Works(k) /\ workId[k] = 0
      BY <1>0, <2>3 DEF SessionStarts, Idle, Works
    <3>2. \A i \in Ids : phase[i] \notin Active
      BY <1>0, <2>3, <3>1 DEF SessionStarts, ActiveServed, IsActive, Known, Active
    <3>3. /\ UNCHANGED <<kindOf, phase, workId>> /\ session' = "starting"
          /\ \A k \in Kinds : ~Works(k)'
      BY <2>3 DEF SessionStarts, registryVars, Works
    <3>4. ActiveServed'
      BY <3>2, <3>3 DEF ActiveServed, IsActive, Ids, Kinds, Services, Works
    <3>5. Idle'
      BY <3>1, <3>3 DEF Idle, Kinds, Services
    <3> QED BY <3>4, <3>5
  <2>4. CASE SessionConnects
    BY <1>0, <2>4, SameWork DEF SessionConnects, registryVars, serviceVars, Works
  <2>5. CASE SessionCloses
    <3>1. /\ kindOf' = kindOf /\ session' = "closing"
          /\ \A k \in Uninstalls : k \in Kinds /\ ~Works(k)' /\ workId'[k] = 0
          /\ \A k \in Kinds \ Uninstalls : (Works(k)' <=> Works(k)) /\ workId'[k] = workId[k]
      BY <2>5 DEF SessionCloses, Works, Kinds
    <3>2. ASSUME NEW k \in Kinds, Works(k)'
          PROVE  workId'[k] \in Ids /\ phase'[workId'[k]] \in Active /\ kindOf'[workId'[k]] = k
      <4>1. k \notin Uninstalls /\ Works(k) /\ workId'[k] = workId[k]
        BY <3>1, <3>2
      <4>2. workId[k] \in Ids /\ phase[workId[k]] \in Active /\ kindOf[workId[k]] = k
        BY <1>0, <4>1 DEF ActiveServed, IsActive
      <4>3. ASSUME NEW u \in Uninstalls PROVE workId[u] # workId[k]
        <5>1. u \in Kinds /\ u # k /\ 0 \notin Ids
          BY <4>1 DEF Kinds, Ids
        <5> QED BY <1>0, <4>2, <5>1 DEF ActiveServed, Idle
      <4>4. phase'[workId[k]] = phase[workId[k]]
        BY <2>5, <4>2, <4>3 DEF SessionCloses
      <4> QED BY <3>1, <4>1, <4>2, <4>4
    <3>3. ActiveServed'
      BY <3>1, <3>2 DEF ActiveServed, IsActive, Ids, Kinds, Services, Works
    <3>4. ASSUME NEW k \in Kinds, ~Works(k)' PROVE workId'[k] = 0
      BY <1>0, <3>1, <3>4 DEF Idle
    <3>5. Idle'
      BY <3>1, <3>4 DEF Idle, Kinds, Services, Works
    <3> QED BY <3>3, <3>5
  <2>6. CASE SessionEnds
    <3>1. /\ UNCHANGED <<kindOf, stage, workId>> /\ session' = "down"
          /\ \A k \in Kinds : stage[k] = "gone"
      BY <2>6 DEF SessionEnds, serviceVars
    <3>2. \A i \in Ids : phase'[i] \notin Active
      BY <2>6 DEF SessionEnds, CancelAll, IsActive, Active
    <3>3. ActiveServed'
      BY <3>1, <3>2 DEF ActiveServed, IsActive, Ids, Kinds, Services, Works
    <3>4. Idle'
      BY <1>0, <3>1 DEF Idle, Kinds, Services, Works
    <3> QED BY <3>3, <3>4
  <2> QED BY <1>5, <2>1, <2>2, <2>3, <2>4, <2>5, <2>6 DEF Session
<1>6. ASSUME NEW k \in Kinds, Service(k) PROVE ActiveServed' /\ Idle'
  <2>1. ASSUME UNCHANGED <<kindOf, session, phase, workId>>, Works(k),
               NEW g \in {"starting", "working", "finishing", "leaving"},
               stage' = [stage EXCEPT ![k] = g]
        PROVE  ActiveServed' /\ Idle'
    <3>1. \A j \in Kinds : /\ Works(j)' <=> Works(j)
                           /\ stage[j] = "gone" => stage'[j] = "gone"
      BY <1>0, <2>1 DEF Works, TypeOK
    <3> QED BY <1>0, <2>1, <3>1, SameWork
  <2>2. CASE k \in Services /\ TakeIdle(k)
    <3>1. session # "down"
      BY <1>0, <2>2 DEF TakeIdle, Idle
    <3>2. CASE UNCHANGED <<kindOf, phase, stage, workId>>
      BY <1>2, <2>2, <3>2 DEF TakeIdle
    <3>3. CASE /\ Admits(k) /\ Begin(k)
               /\ stage' = [stage EXCEPT ![k] = "starting"]
               /\ workId' = [workId EXCEPT ![k] = nextId + 1]
      BY <1>0, <2>2, <3>1, <3>3, BeginWork DEF TakeIdle
    <3> QED BY <2>2, <3>2, <3>3 DEF TakeIdle
  <2>3. CASE TakeWorking(k)
    <3>1. CASE UNCHANGED stage
      BY <1>2, <2>3, <3>1 DEF TakeWorking, registryVars
    <3>2. CASE stage' = [stage EXCEPT ![k] = "finishing"]
      BY <2>1, <2>3, <3>2 DEF TakeWorking, registryVars, Works
    <3> QED BY <2>3, <3>1, <3>2 DEF TakeWorking
  <2>4. CASE WorkStarts(k)
    BY <2>1, <2>4 DEF WorkStarts, registryVars, sessionVars, Works
  <2>5. CASE WorkEnds(k)
    BY <2>1, <2>5 DEF WorkEnds, registryVars, sessionVars, Works
  <2>6. CASE StartFails(k)
    BY <1>0, <2>6, EndWork DEF StartFails, sessionVars, Works, Ended
  <2>7. CASE WorkFinished(k)
    <3>1. PICK end \in {outcome[k]} \cup (IF k \in Captures THEN {"failed"} ELSE {}) :
             FinishRecord(workId[k], end)
      BY <2>7 DEF WorkFinished
    <3>2. end \in Ended /\ Works(k)
      BY <1>0, <2>7, <3>1 DEF WorkFinished, TypeOK, Ended, Works
    <3> QED BY <1>0, <2>7, <3>1, <3>2, EndWork DEF WorkFinished, sessionVars
  <2>8. CASE SeesShutdown(k)
    <3>1. CASE Gone(k) /\ UNCHANGED phase
      BY <1>0, <2>8, <3>1, DropWork DEF SeesShutdown
    <3>2. CASE stage[k] = "working" /\ stage' = [stage EXCEPT ![k] = "leaving"]
               /\ UNCHANGED <<kindOf, session, phase, workId>>
      BY <2>1, <3>2 DEF Works
    <3> QED BY <2>8, <3>1, <3>2 DEF SeesShutdown, registryVars, sessionVars
  <2>9. CASE Leaves(k)
    <3>1. PICK end \in {"cancelled"} \cup (IF k \in Captures THEN {"failed"} ELSE {}) :
             FinishRecord(workId[k], end)
      BY <2>9 DEF Leaves
    <3>2. end \in Ended /\ Works(k)
      BY <2>9, <3>1 DEF Leaves, Ended, Works
    <3> QED BY <1>0, <2>9, <3>1, <3>2, EndWork DEF Leaves, Gone
  <2>10. CASE Aborted(k)
    BY <1>0, <2>10, DropWork DEF Aborted
  <2> QED BY <1>6, <2>2, <2>3, <2>4, <2>5, <2>6, <2>7, <2>8, <2>9, <2>10 DEF Service
<1> QED BY <1>1, <1>3, <1>4, <1>5, <1>6 DEF Next, Served

LEMMA ServedInductive ==
    /\ Init => Typed /\ Served
    /\ Typed /\ Served /\ [Next]_vars => (Typed /\ Served)'
<1>1. ASSUME Init PROVE Served
  <2>1. \A i \in Ids : phase[i] \notin Active
    BY <1>1 DEF Init, Active
  <2>2. \A k \in Kinds : stage[k] = "gone" /\ workId[k] = 0
    BY <1>1 DEF Init
  <2> QED BY <2>1, <2>2
      DEF Served, OneActivePerKind, ActiveServed, Idle, IsActive, Works
<1>2. ASSUME Served, UNCHANGED vars PROVE Served'
  BY <1>2 DEF vars, Served, OneActivePerKind, ActiveServed, Idle, IsActive, Works,
              Ids, Kinds, Services
<1> QED BY <1>1, <1>2, TypedInit, TypedStep, ServedStep

\* At most one active operation of a kind, however many kinds there are.
THEOREM OneOfAKind == Spec => []OneActivePerKind
<1>1. Typed /\ Served => OneActivePerKind
  BY DEF Served
<1> QED BY ServedInductive, <1>1, PTL DEF Spec

\* A service works on an active record of its kind, and outside the closing of
\* a session every active record is worked on.
THEOREM ActiveIsServed == Spec => []ActiveServed
<1>1. Typed /\ Served => ActiveServed
  BY DEF Served
<1> QED BY ServedInductive, <1>1, PTL DEF Spec

-----------------------------------------------------------------------------
(***************************************************************************)
(* The history is bounded.                                                 *)
(***************************************************************************)

\* Among the records that have ended there is an oldest.
LEMMA OldestEnded ==
    ASSUME Evictable # {}
    PROVE  \E i \in Evictable : \A j \in Evictable : i <= j
<1>1. Evictable \subseteq Nat
  BY DEF Evictable, Ids
<1>2. PICK i \in Evictable : \A j \in Evictable : ~(<<j, i>> \in OpToRel(<, Nat))
  BY <1>1, NatLessThanWellFounded, WFMin, Zenon
<1>3. \A j \in Evictable : ~(j < i)
  BY <1>1, <1>2 DEF OpToRel
<1>4. \A j \in Evictable : i <= j
  BY <1>1, <1>3
<1> QED BY <1>4

\* Retained history never exceeds its bound: begin evicts before it adds.
THEOREM HistoryIsBounded == Spec => []HistoryBounded
<1>1. ASSUME Init PROVE HistoryBounded
  <2>1. Retained = {}
    BY <1>1 DEF Init, Retained
  <2> QED BY <2>1, FS_EmptySet, BoundsAssumption DEF HistoryBounded
<1>2. ASSUME Typed, HistoryBounded, Next PROVE HistoryBounded'
  <2>0. TypeOK /\ Known /\ MaxRetained \in Nat
    BY <1>2, BoundsAssumption DEF Typed
  <2>1. IsFiniteSet(Ids)
    BY BoundsAssumption, FS_Interval DEF Ids
  <2>2. IsFiniteSet(Retained)
    BY <2>1, FS_Subset DEF Retained
  <2>3. Cardinality(Retained) \in Nat
    BY <2>2, FS_CardinalityType
  <2>4. CASE Moves
    <3>1. Retained' = Retained
      BY <2>4 DEF Moves, Retained, Active, Ended, Ids
    <3> QED BY <1>2, <3>1 DEF HistoryBounded
  <2>5. ASSUME NEW k \in Kinds, Admits(k), Begin(k) PROVE HistoryBounded'
    <3>1. /\ nextId + 1 \in Ids /\ nextId + 1 \notin Retained
          /\ phase'[nextId + 1] = "running"
      BY <2>0, <2>5, BeginFacts DEF Retained
    <3>2. \A i \in Ids \ {nextId + 1} : phase'[i] = IF i \in Evicted THEN "none" ELSE phase[i]
      BY <2>5 DEF Begin
    <3>3. Retained' = (Retained \ Evicted) \cup {nextId + 1}
      <4>1. \A i \in Ids \ {nextId + 1} : i \in Retained' <=> i \in Retained \ Evicted
        BY <3>2 DEF Retained, Ids
      <4>2. nextId + 1 \in Retained' /\ Retained' \subseteq Ids /\ Retained \subseteq Ids
        BY <3>1 DEF Retained, Ids
      <4> QED BY <4>1, <4>2, <3>1
    <3>4. CASE Cardinality(Retained) < MaxRetained
      <4>1. Retained' = Retained \cup {nextId + 1}
        BY <3>3, <3>4 DEF Evicted
      <4>2. Cardinality(Retained') = Cardinality(Retained) + 1
        BY <4>1, <3>1, <2>2, FS_AddElement
      <4> QED BY <4>2, <3>4, <2>0, <2>3 DEF HistoryBounded
    <3>5. CASE ~(Cardinality(Retained) < MaxRetained)
      <4>1. Evictable # {}
        BY <2>5, <3>5 DEF Admits
      <4>2. PICK i \in Evictable : \A j \in Evictable : i <= j
        BY <4>1, OldestEnded
      <4>3. Evicted = {i}
        <5>1. Evicted = {e \in Evictable : \A j \in Evictable : e <= j}
          BY <3>5 DEF Evicted
        <5>2. \A e \in Evictable : e \in Nat
          BY DEF Evictable, Ids
        <5> QED BY <5>1, <5>2, <4>2
      <4>4. i \in Retained
        BY <4>2 DEF Evictable, Retained, Ended
      <4>5. IsFiniteSet(Retained \ {i})
            /\ Cardinality(Retained \ {i}) = Cardinality(Retained) - 1
        BY <4>4, <2>2, FS_RemoveElement
      <4>6. Cardinality((Retained \ {i}) \cup {nextId + 1}) = Cardinality(Retained \ {i}) + 1
        BY <4>5, <3>1, FS_AddElement
      <4>7. Cardinality(Retained') = Cardinality(Retained)
        BY <3>3, <4>3, <4>5, <4>6, <2>3
      <4> QED BY <1>2, <4>7 DEF HistoryBounded
    <3> QED BY <3>4, <3>5
  <2> QED BY <1>2, <2>0, <2>4, <2>5, RegistryStep
<1>3. ASSUME HistoryBounded, UNCHANGED vars PROVE HistoryBounded'
  BY <1>3 DEF vars, HistoryBounded, Retained, Ids
<1>4. Typed /\ HistoryBounded /\ [Next]_vars => HistoryBounded'
  BY <1>2, <1>3
<1> QED BY TypedInit, TypedStep, <1>1, <1>4, PTL DEF Spec

-----------------------------------------------------------------------------
(***************************************************************************)
(* Cancel calls.  A Stop names only a kind; that it ends the operation of  *)
(* its call, if that is still active, rests on the call's target having    *)
(* the kind of the Stop and on a kind having one active operation.         *)
(***************************************************************************)
Items(q) == {q[n] : n \in 1..Len(q)}

LEMMA ItemFacts ==
    ASSUME NEW q \in Seq(Commands)
    PROVE  /\ Items(<<>>) = {}
           /\ \A m \in Commands : Items(Append(q, m)) \subseteq Items(q) \cup {m}
           /\ q # <<>> => Items(Tail(q)) \subseteq Items(q) /\ Head(q) \in Items(q)
           /\ CallsIn(q) = {m.call : m \in Items(q)}
<1>1. Items(<<>>) = {}
  BY DEF Items
<1>2. ASSUME NEW m \in Commands PROVE Items(Append(q, m)) \subseteq Items(q) \cup {m}
  <2>1. Len(q) \in Nat /\ Len(Append(q, m)) = Len(q) + 1
    OBVIOUS
  <2>2. \A n \in 1..(Len(q) + 1) : Append(q, m)[n] = IF n = Len(q) + 1 THEN m ELSE q[n]
    OBVIOUS
  <2> QED BY <2>1, <2>2 DEF Items
<1>3. ASSUME q # <<>> PROVE Items(Tail(q)) \subseteq Items(q) /\ Head(q) \in Items(q)
  <2>1. Len(q) \in Nat /\ Len(q) >= 1 /\ Head(q) = q[1] /\ Len(Tail(q)) = Len(q) - 1
    BY <1>3
  <2>2. \A n \in 1..Len(Tail(q)) : Tail(q)[n] = q[n + 1]
    BY <1>3
  <2>3. \A n \in 1..(Len(q) - 1) : n + 1 \in 1..Len(q)
    BY <2>1
  <2>4. 1 \in 1..Len(q)
    BY <2>1
  <2> QED BY <2>1, <2>2, <2>3, <2>4 DEF Items
<1>4. CallsIn(q) = {m.call : m \in Items(q)}
  BY DEF Items, CallsIn
<1> QED BY <1>1, <1>2, <1>3, <1>4

\* Call c has sent its Stop, and its target is of kind k.
Asked(c, k) ==
    /\ pc[c] \notin {"idle", "requested"}
    /\ target[c] \in Ids /\ target[c] <= nextId
    /\ kindOf[target[c]] = k

\* Every Stop under way, and the one a service works on, was sent by a call
\* with a target of that kind.
StopsKeepKind ==
    /\ \A m \in Items(queue) : m.call \in Calls => Asked(m.call, m.kind)
    /\ \A k \in Services : \A m \in Items(inbox[k]) : m.call \in Calls => Asked(m.call, k)
    /\ \A k \in Kinds : stopper[k] \in Calls => Asked(stopper[k], k)

\* The operation of the id has ended, is ending or is about to be ended by
\* the session that closes.
Settled(i) == ~IsActive(i) \/ Finishing(i) \/ session = "closing"

\* A call that was told Ok has a settled target.
Answered ==
    \A c \in Calls :
        /\ pc[c] # "idle" => target[c] \in Ids /\ target[c] <= nextId
        /\ reply[c] # "none" => pc[c] \notin {"idle", "requested"}
        /\ pc[c] = "ok" => reply[c] = "ok"
        /\ reply[c] = "ok" => Settled(target[c])

\* CancellingHasCause without the Stops that nobody waits for.
Caused ==
    \A i \in Ids : phase[i] = "cancelling" =>
        \/ \E c \in Calls : target[c] = i /\ pc[c] \in {"requested", "waiting"}
        \/ Finishing(i)
        \/ CallerLeft(i)
        \/ session = "closing"

Cancels == StopsKeepKind /\ Answered /\ Caused

\* Only its own caller moves a call, and never back.
LEMMA CallStep ==
    ASSUME Typed, Next, NEW c \in Calls, pc[c] # "idle"
    PROVE  /\ target'[c] = target[c] /\ pc'[c] # "idle"
           /\ pc[c] # "requested" => pc'[c] # "requested"
           /\ pc[c] = "dropped" => pc'[c] = "dropped"
<1>0. TypeOK
  BY DEF Typed
<1>1. ASSUME NEW d \in Calls, Caller(d)
      PROVE  /\ target'[c] = target[c] /\ pc'[c] # "idle"
             /\ pc[c] # "requested" => pc'[c] # "requested"
             /\ pc[c] = "dropped" => pc'[c] = "dropped"
  BY <1>0, <1>1 DEF Caller, CancelRequest, CancelSend, CancelAnswered, CancelTimesOut,
                    CancelDropped, TypeOK
<1>2. ASSUME UNCHANGED <<pc, target>>
      PROVE  /\ target'[c] = target[c] /\ pc'[c] # "idle"
             /\ pc[c] # "requested" => pc'[c] # "requested"
             /\ pc[c] = "dropped" => pc'[c] = "dropped"
  BY <1>2
<1>3. ASSUME NEW op \in {"start", "stop"}, NEW k \in Kinds, Request(op, k)
      PROVE  UNCHANGED <<pc, target>>
  BY <1>3 DEF Request, callVars
<1>4. ASSUME Session PROVE UNCHANGED <<pc, target>>
  BY <1>4 DEF Session, Route, Uninstall, SessionStarts, SessionConnects, SessionCloses,
              SessionEnds, callVars
<1>5. ASSUME NEW k \in Kinds, Service(k) PROVE UNCHANGED <<pc, target>>
  BY <1>5 DEF Service, TakeIdle, TakeWorking, WorkStarts, StartFails, WorkEnds,
              WorkFinished, SeesShutdown, Leaves, Aborted, Gone, callVars
<1> QED BY <1>1, <1>2, <1>3, <1>4, <1>5 DEF Next

\* The kind of a call's target never changes once its Stop is sent.
LEMMA AskedStays ==
    ASSUME Typed, Next, NEW c \in Calls, NEW k, Asked(c, k)
    PROVE  Asked(c, k)'
<1>1. TypeOK /\ Known /\ nextId \in Nat
  BY DEF Typed, TypeOK
<1>2. /\ nextId <= nextId' /\ nextId' \in Nat
      /\ \A i \in Ids : i <= nextId => kindOf'[i] = kindOf[i]
  BY <1>1, KnownStep
<1>3. target'[c] = target[c] /\ pc'[c] \notin {"idle", "requested"}
  BY CallStep DEF Asked
<1>4. \A i \in Ids : i \in Nat
  BY DEF Ids
<1>5. target'[c] <= nextId'
  <2>1. \A a, b, d \in Nat : a <= b /\ b <= d => a <= d
    OBVIOUS
  <2> QED BY <1>1, <1>2, <1>3, <1>4, <2>1 DEF Asked
<1> QED BY <1>2, <1>3, <1>5 DEF Asked, Ids

\* A step sends the Stop of a call that has its target, moves commands on or
\* drops them.
LEMMA CommandsStep ==
    ASSUME Typed, Next
    PROVE  /\ \A m \in Items(queue') : m.call \in Calls =>
                 m \in Items(queue) \/ Asked(m.call, m.kind)'
           /\ \A k \in Services : \A m \in Items(inbox'[k]) :
                 m \in Items(inbox[k]) \/ (m \in Items(queue) /\ m.kind = k)
           /\ \A k \in Kinds : stopper'[k] \in Calls =>
                 \/ stopper'[k] = stopper[k]
                 \/ k \in Services /\ \E m \in Items(inbox[k]) : m.call = stopper'[k]
<1> DEFINE Q == \A m \in Items(queue') : m.call \in Calls =>
                   m \in Items(queue) \/ Asked(m.call, m.kind)'
           I == \A k \in Services : \A m \in Items(inbox'[k]) :
                   m \in Items(inbox[k]) \/ (m \in Items(queue) /\ m.kind = k)
           P == \A k \in Kinds : stopper'[k] \in Calls =>
                   \/ stopper'[k] = stopper[k]
                   \/ k \in Services /\ \E m \in Items(inbox[k]) : m.call = stopper'[k]
<1>0. TypeOK
  BY DEF Typed
<1>1. queue \in Seq(Commands) /\ \A k \in Services : inbox[k] \in Seq(Commands)
  BY <1>0 DEF TypeOK
<1>2. ASSUME UNCHANGED queue PROVE Q
  BY <1>2
<1>3. ASSUME UNCHANGED inbox PROVE I
  BY <1>3
<1>4. ASSUME UNCHANGED stopper PROVE P
  BY <1>4
<1>5. ASSUME NEW op \in {"start", "stop"}, NEW k \in Kinds, Request(op, k)
      PROVE  Q /\ I /\ P
  <2> DEFINE m == [op |-> op, kind |-> k, call |-> NoCall]
  <2>1. m \in Commands /\ m.call = NoCall
    BY DEF Commands
  <2>2. queue' = Append(queue, m)
    BY <1>5 DEF Request
  <2> HIDE DEF m
  <2>3. Items(queue') \subseteq Items(queue) \cup {m}
    BY <1>1, <2>1, <2>2, ItemFacts
  <2>4. Q
    BY <2>1, <2>3, NoCallAssumption
  <2> QED BY <1>3, <1>4, <1>5, <2>4 DEF Request, serviceVars
<1>6. ASSUME NEW c \in Calls, Caller(c) PROVE Q /\ I /\ P
  <2>1. I /\ P
    BY <1>3, <1>4, <1>6 DEF Caller, CancelRequest, CancelSend, CancelAnswered,
          CancelTimesOut, CancelDropped, sessionVars, serviceVars
  <2>2. CASE UNCHANGED queue
    BY <1>2, <2>1, <2>2
  <2>3. CASE ~UNCHANGED queue
    <3> DEFINE m == [op |-> "stop", kind |-> kindOf[target[c]], call |-> c]
    <3>1. /\ pc[c] = "requested" /\ queue' = Append(queue, m)
          /\ pc' = [pc EXCEPT ![c] = "waiting"]
          /\ UNCHANGED <<nextId, kindOf, target>>
      BY <1>6, <2>3 DEF Caller, CancelRequest, CancelSend, CancelAnswered,
          CancelTimesOut, CancelDropped, sessionVars
    <3>2. m \in Commands /\ m.call = c /\ m.kind = kindOf[target[c]]
      BY <3>1 DEF Commands, Typed, Requested
    <3>3. target[c] \in Ids /\ target[c] <= nextId
      BY <3>1 DEF Typed, Requested
    <3> HIDE DEF m
    <3>4. Items(queue') \subseteq Items(queue) \cup {m}
      BY <1>1, <3>1, <3>2, ItemFacts
    <3>5. pc'[c] = "waiting"
      BY <1>0, <3>1 DEF TypeOK
    <3>6. \A k : k = kindOf[target[c]] => Asked(c, k)'
      BY <3>1, <3>3, <3>5 DEF Asked, Ids
    <3>7. ASSUME NEW n \in Items(queue'), n = m PROVE Asked(n.call, n.kind)'
      <4>1. n.call = c /\ n.kind = kindOf[target[c]]
        BY <3>2, <3>7
      <4> QED BY <3>6, <4>1
    <3>8. Q
      BY <3>4, <3>7
    <3> QED BY <2>1, <3>8
  <2> QED BY <2>2, <2>3
<1>7. ASSUME Session PROVE Q /\ I /\ P
  <2>1. P
    BY <1>4, <1>7 DEF Session, Route, Uninstall, SessionStarts, SessionConnects,
          SessionCloses, SessionEnds, serviceVars
  <2>2. ASSUME queue # <<>>, queue' = Tail(queue) PROVE Q
    BY <1>1, <2>2, ItemFacts
  <2>3. CASE Route
    <3>1. CASE UNCHANGED inbox
      BY <1>3, <2>1, <2>2, <2>3, <3>1 DEF Route
    <3>2. CASE ~UNCHANGED inbox
      <4> DEFINE cmd == Head(queue)
                 k == cmd.kind
      <4>1. /\ queue # <<>> /\ k \in Services /\ queue' = Tail(queue)
            /\ inbox' = [inbox EXCEPT ![k] = Append(@, cmd)]
        BY <2>3, <3>2 DEF Route
      <4>2. cmd \in Items(queue) /\ cmd \in Commands
        BY <1>1, <4>1, ItemFacts, QueueFacts
      <4> HIDE DEF cmd
      <4>3. inbox'[k] = Append(inbox[k], cmd)
            /\ \A s \in Services \ {k} : inbox'[s] = inbox[s]
        BY <1>0, <4>1 DEF TypeOK
      <4>4. Items(inbox'[k]) \subseteq Items(inbox[k]) \cup {cmd}
        BY <1>1, <4>1, <4>2, <4>3, ItemFacts
      <4>5. I
        BY <4>2, <4>3, <4>4
      <4> QED BY <2>1, <2>2, <4>1, <4>5
    <3> QED BY <3>1, <3>2
  <2>4. CASE Uninstall
    BY <1>3, <2>1, <2>2, <2>4 DEF Uninstall
  <2>5. CASE SessionStarts \/ SessionConnects \/ SessionCloses
    BY <1>2, <1>3, <2>1, <2>5 DEF SessionStarts, SessionConnects, SessionCloses
  <2>6. CASE SessionEnds
    <3>1. Q
      BY <1>1, <2>6, ItemFacts DEF SessionEnds
    <3> QED BY <1>3, <2>1, <2>6, <3>1 DEF SessionEnds
  <2> QED BY <1>7, <2>3, <2>4, <2>5, <2>6 DEF Session
<1>8. ASSUME NEW k \in Kinds, Service(k) PROVE Q /\ I /\ P
  <2>1. Q
    BY <1>2, <1>8 DEF Service, TakeIdle, TakeWorking, WorkStarts, StartFails, WorkEnds,
          WorkFinished, SeesShutdown, Leaves, Aborted, Gone, sessionVars
  <2>2. ASSUME k \in Services, inbox[k] # <<>>, inbox' = [inbox EXCEPT ![k] = Tail(@)]
        PROVE  I
    <3>1. /\ inbox'[k] = Tail(inbox[k])
          /\ \A s \in Services \ {k} : inbox'[s] = inbox[s]
      BY <1>0, <2>2 DEF TypeOK
    <3>2. Items(inbox'[k]) \subseteq Items(inbox[k])
      BY <1>1, <2>2, <3>1, ItemFacts
    <3> QED BY <3>1, <3>2
  <2>3. ASSUME stopper' = [stopper EXCEPT ![k] = NoCall] PROVE P
    <3>1. \A j \in Kinds : stopper'[j] = IF j = k THEN NoCall ELSE stopper[j]
      BY <1>0, <2>3 DEF TypeOK
    <3> QED BY <3>1, NoCallAssumption
  <2>4. CASE k \in Services /\ TakeIdle(k)
    BY <1>4, <2>1, <2>2, <2>4 DEF TakeIdle
  <2>5. CASE TakeWorking(k)
    <3>1. k \in Services /\ I
      BY <2>2, <2>5 DEF TakeWorking
    <3>2. CASE UNCHANGED stopper
      BY <1>4, <2>1, <3>1, <3>2
    <3>3. CASE stopper' = [stopper EXCEPT ![k] = Head(inbox[k]).call]
      <4>1. Head(inbox[k]) \in Items(inbox[k])
        BY <1>1, <2>5, <3>1, ItemFacts DEF TakeWorking
      <4>2. \A j \in Kinds : stopper'[j] = IF j = k THEN Head(inbox[k]).call ELSE stopper[j]
        BY <1>0, <3>3 DEF TypeOK
      <4>3. P
        BY <3>1, <4>1, <4>2
      <4> QED BY <2>1, <3>1, <4>3
    <3> QED BY <2>5, <3>2, <3>3 DEF TakeWorking
  <2>6. CASE WorkStarts(k) \/ StartFails(k) \/ WorkEnds(k)
    BY <1>3, <1>4, <2>1, <2>6 DEF WorkStarts, StartFails, WorkEnds, sessionVars
  <2>7. CASE WorkFinished(k)
    BY <1>3, <2>1, <2>3, <2>7 DEF WorkFinished, sessionVars
  <2>8. ASSUME Gone(k) PROVE I /\ P
    <3>1. \A s \in Services : inbox'[s] = IF s = k THEN <<>> ELSE inbox[s]
      BY <1>0, <2>8 DEF Gone, TypeOK
    <3>2. I
      BY <1>1, <3>1, ItemFacts
    <3> QED BY <2>3, <2>8, <3>2 DEF Gone
  <2>9. CASE SeesShutdown(k) \/ Leaves(k) \/ Aborted(k)
    BY <1>3, <1>4, <2>1, <2>8, <2>9 DEF SeesShutdown, Leaves, Aborted, sessionVars
  <2> QED BY <1>8, <2>4, <2>5, <2>6, <2>7, <2>9 DEF Service
<1> QED BY <1>5, <1>6, <1>7, <1>8 DEF Next

LEMMA StopsKeepKindStep ==
    ASSUME Typed, StopsKeepKind, Next
    PROVE  StopsKeepKind'
<1>1. \A m \in Items(queue') : m.call \in Calls => Asked(m.call, m.kind)'
  BY CommandsStep, AskedStays DEF StopsKeepKind
<1>2. \A k \in Services : \A m \in Items(inbox'[k]) : m.call \in Calls => Asked(m.call, k)'
  BY CommandsStep, AskedStays DEF StopsKeepKind
<1>3. \A k \in Kinds : \A c \in Calls : stopper'[k] = c => Asked(c, k)'
  <2> SUFFICES ASSUME NEW k \in Kinds, NEW c \in Calls, stopper'[k] = c
               PROVE  Asked(c, k)'
    OBVIOUS
  <2>1. \/ stopper[k] = c
        \/ k \in Services /\ \E m \in Items(inbox[k]) : m.call = c
    BY CommandsStep
  <2>2. Asked(c, k)
    BY <2>1 DEF StopsKeepKind
  <2> QED BY <2>2, AskedStays
<1>4. Kinds' = Kinds /\ Services' = Services /\ Items(queue)' = Items(queue')
      /\ \A k \in Services : Items(inbox[k])' = Items(inbox'[k])
  BY DEF Items, Kinds, Services
<1> QED BY <1>1, <1>2, <1>3, <1>4 DEF StopsKeepKind
\* The work on a record that is ending goes on until the record has ended or
\* the session closes.
LEMMA WorkStays ==
    ASSUME Typed, Served, Next, NEW k \in Kinds, stage[k] \in {"finishing", "leaving"}
    PROVE  \/ stage'[k] \in {"finishing", "leaving"} /\ workId'[k] = workId[k]
           \/ phase'[workId[k]] \notin Active
           \/ session' = "closing"
<1>0. TypeOK /\ Known /\ ActiveServed /\ Idle
  BY DEF Typed, Served
<1>1. Works(k) /\ workId[k] \in Ids /\ phase[workId[k]] \in Active /\ kindOf[workId[k]] = k
  BY <1>0 DEF Works, ActiveServed, IsActive
<1>2. ASSUME NEW op \in {"start", "stop"}, NEW j \in Kinds, Request(op, j)
      PROVE  UNCHANGED <<stage, workId>>
  BY <1>2 DEF Request, serviceVars
<1>3. ASSUME NEW c \in Calls, Caller(c) PROVE UNCHANGED <<stage, workId>>
  BY <1>3 DEF Caller, CancelRequest, CancelSend, CancelAnswered, CancelTimesOut,
              CancelDropped, serviceVars
<1>4. CASE Session
  <2>1. CASE Route \/ SessionConnects
    BY <2>1 DEF Route, SessionConnects, serviceVars
  <2>2. CASE Uninstall
    <3>1. Head(queue).kind \in Kinds
      BY <1>0, <2>2, QueueFacts DEF Uninstall, TypeOK
    <3>2. Admits(Head(queue).kind) => Head(queue).kind # k
      BY <1>1 DEF Admits, KindBusy, IsActive
    <3> QED BY <1>0, <2>2, <3>1, <3>2 DEF Uninstall, TypeOK
  <2>3. CASE SessionStarts \/ SessionEnds
    BY <1>0, <2>3 DEF SessionStarts, SessionEnds, Idle
  <2>4. CASE SessionCloses
    BY <2>4 DEF SessionCloses
  <2> QED BY <1>4, <2>1, <2>2, <2>3, <2>4 DEF Session
<1>5. ASSUME NEW j \in Kinds, Service(j)
      PROVE  \/ stage'[k] \in {"finishing", "leaving"} /\ workId'[k] = workId[k]
             \/ phase'[workId[k]] \notin Active
             \/ session' = "closing"
  <2>1. CASE j # k
    <3>1. stage'[k] = stage[k] /\ workId'[k] = workId[k]
      BY <1>0, <1>5, <2>1 DEF Service, TakeIdle, TakeWorking, WorkStarts, StartFails, WorkEnds,
          WorkFinished, SeesShutdown, Leaves, Aborted, Gone, TypeOK
    <3> QED BY <3>1
  <2>2. CASE j = k
    <3>1. ASSUME NEW end \in Ended, FinishRecord(workId[k], end)
          PROVE  phase'[workId[k]] \notin Active
      BY <1>0, <1>1, <3>1, FinishFacts DEF Active, Ended
    <3>2. CASE WorkFinished(k)
      <4>1. PICK end \in {outcome[k]} \cup (IF k \in Captures THEN {"failed"} ELSE {}) :
               FinishRecord(workId[k], end)
        BY <3>2 DEF WorkFinished
      <4>2. end \in Ended
        BY <1>0, <4>1 DEF TypeOK, Ended
      <4> QED BY <4>1, <4>2, <3>1
    <3>3. CASE Leaves(k)
      <4>1. PICK end \in {"cancelled"} \cup (IF k \in Captures THEN {"failed"} ELSE {}) :
               FinishRecord(workId[k], end)
        BY <3>3 DEF Leaves
      <4>2. end \in Ended
        BY <4>1 DEF Ended
      <4> QED BY <4>1, <4>2, <3>1
    <3>4. CASE Aborted(k)
      BY <3>4 DEF Aborted, Gone
    <3> QED BY <1>5, <2>2, <3>2, <3>3, <3>4 DEF Service, TakeIdle, TakeWorking, WorkStarts,
               StartFails, WorkEnds, SeesShutdown
  <2> QED BY <2>1, <2>2
<1> QED BY <1>2, <1>3, <1>4, <1>5 DEF Next

\* A closing session closes until its end cancels what is still active.
LEMMA ClosingStays ==
    ASSUME Next, session = "closing"
    PROVE  session' = "closing" \/ \A i \in Ids : phase'[i] \notin Active
<1>1. CASE SessionEnds
  BY <1>1 DEF SessionEnds, CancelAll, IsActive, Active
<1>2. CASE ~SessionEnds
  BY <1>2 DEF Next, Request, Caller, CancelRequest, CancelSend, CancelAnswered, CancelTimesOut,
      CancelDropped, Session, Route, Uninstall, SessionStarts, SessionConnects,
      SessionCloses, Service, TakeIdle, TakeWorking, WorkStarts, StartFails, WorkEnds,
      WorkFinished, SeesShutdown, Leaves, Aborted, Gone, sessionVars
<1> QED BY <1>1, <1>2

\* What is settled stays settled.
LEMMA SettledStays ==
    ASSUME Typed, Served, Next, NEW i \in Ids, i <= nextId, Settled(i)
    PROVE  Settled(i)'
<1>0. TypeOK /\ Known
  BY DEF Typed
<1>1. CASE ~IsActive(i)
  <2>1. CASE Moves
    BY <1>1, <2>1 DEF Moves, IsActive, Settled
  <2>2. ASSUME NEW k \in Kinds, Begin(k) PROVE Settled(i)'
    <3>1. /\ nextId \in Nat
          /\ \A j \in Ids \ {nextId + 1} :
                phase'[j] = phase[j] \/ (phase[j] \in Ended /\ phase'[j] = "none")
      BY <1>0, <2>2, BeginFacts
    <3>2. i # nextId + 1
      BY <3>1 DEF Ids
    <3>3. phase'[i] \notin Active
      BY <1>1, <3>1, <3>2 DEF IsActive, Active
    <3> QED BY <3>3 DEF Settled, IsActive
  <2> QED BY <1>0, <2>1, <2>2, RegistryStep
<1>2. CASE Finishing(i)
  <2>1. PICK k \in Kinds : stage[k] \in {"finishing", "leaving"} /\ workId[k] = i
    BY <1>2 DEF Finishing
  <2>2. \/ stage'[k] \in {"finishing", "leaving"} /\ workId'[k] = i
        \/ phase'[i] \notin Active
        \/ session' = "closing"
    BY <2>1, WorkStays
  <2> QED BY <2>2 DEF Settled, Finishing, IsActive, Kinds, Services
<1>3. CASE session = "closing"
  BY <1>3, ClosingStays DEF Settled, IsActive
<1> QED BY <1>1, <1>2, <1>3 DEF Settled

\* Who is answered: a call whose Stop was under way or at work.  An Ok means
\* that its target is settled: the service worked on the only active
\* operation of the kind.
LEMMA AnswerStep ==
    ASSUME Typed, Served, StopsKeepKind, Next, NEW c \in Calls
    PROVE  \/ reply'[c] = reply[c]
           \/ /\ reply[c] = "none"
              /\ \E k \in Kinds : Asked(c, k)
              /\ reply'[c] = "ok" => Settled(target[c])'
<1>0. /\ TypeOK /\ Known /\ OneActivePerKind /\ ActiveServed
      /\ queue \in Seq(Commands) /\ \A k \in Services : inbox[k] \in Seq(Commands)
  BY DEF Typed, Served, TypeOK
<1> DEFINE Right == \/ reply'[c] = reply[c]
                    \/ /\ reply[c] = "none"
                       /\ \E k \in Kinds : Asked(c, k)
                       /\ reply'[c] = "ok" => Settled(target[c])'
<1>1. ASSUME NEW S, NEW r, Reply(S, r), r # "ok",
             c \in S => \E k \in Kinds : Asked(c, k)
      PROVE  Right
  BY <1>1 DEF Reply
<1>2. ASSUME NEW op \in {"start", "stop"}, NEW k \in Kinds, Request(op, k) PROVE Right
  BY <1>2 DEF Request, callVars
<1>3. ASSUME NEW d \in Calls, Caller(d) PROVE Right
  BY <1>3 DEF Caller, CancelRequest, CancelSend, CancelAnswered, CancelTimesOut,
              CancelDropped, callVars
<1>4. CASE Session
  <2>1. CASE Route
    <3>1. Head(queue) \in Items(queue) /\ Head(queue).kind \in Kinds
      BY <1>0, <2>1, ItemFacts, QueueFacts DEF Route
    <3>2. c = Head(queue).call => Asked(c, Head(queue).kind)
      BY <3>1 DEF StopsKeepKind
    <3>3. Reply({Head(queue).call}, "err") => Right
      BY <1>1, <3>1, <3>2
    <3> QED BY <2>1, <3>3 DEF Route, Rejection
  <2>2. CASE Uninstall \/ SessionStarts \/ SessionConnects \/ SessionCloses
    BY <2>2 DEF Uninstall, SessionStarts, SessionConnects, SessionCloses, callVars
  <2>3. CASE SessionEnds
    <3>1. c \in CallsIn(queue) => \E k \in Kinds : Asked(c, k)
      <4>1. SUFFICES ASSUME c \in CallsIn(queue) PROVE \E k \in Kinds : Asked(c, k)
        OBVIOUS
      <4>2. PICK n \in 1..Len(queue) : c = queue[n].call
        BY <4>1 DEF CallsIn
      <4>3. queue[n] \in Items(queue) /\ queue[n] \in Commands
        BY <1>0 DEF Items
      <4>4. Asked(c, queue[n].kind) /\ queue[n].kind \in Kinds
        BY <4>2, <4>3 DEF StopsKeepKind, Commands
      <4> QED BY <4>4
    <3> QED BY <1>1, <2>3, <3>1 DEF SessionEnds
  <2> QED BY <1>4, <2>1, <2>2, <2>3 DEF Session
<1>5. ASSUME NEW k \in Kinds, Service(k) PROVE Right
  <2>1. k \in Services =>
           \A m \in Items(inbox[k]) : m.call = c => Asked(c, k)
    BY DEF StopsKeepKind
  <2>2. ASSUME k \in Services, inbox[k] # <<>> PROVE Head(inbox[k]) \in Items(inbox[k])
    BY <1>0, <2>2, ItemFacts
  <2>3. ASSUME Works(k), Asked(c, k)
        PROVE  target[c] \in Ids /\ (target[c] = workId[k] \/ ~IsActive(target[c]))
    BY <1>0, <2>3 DEF Asked, ActiveServed, OneActivePerKind
  <2>4. CASE k \in Services /\ TakeIdle(k)
    <3>1. Reply({Head(inbox[k]).call}, "err") => Right
      BY <1>1, <2>1, <2>2, <2>4 DEF TakeIdle
    <3> QED BY <2>4, <3>1 DEF TakeIdle
  <2>5. CASE TakeWorking(k)
    <3>1. CASE UNCHANGED reply
      BY <3>1
    <3>2. CASE ~UNCHANGED reply
      <4>1. /\ k \in Services /\ stage[k] = "working" /\ inbox[k] # <<>>
            /\ Reply({Head(inbox[k]).call}, "ok")
            /\ stage' = [stage EXCEPT ![k] = "finishing"]
            /\ UNCHANGED <<phase, workId, target>>
        BY <2>5, <3>2 DEF TakeWorking, registryVars
      <4>2. CASE c # Head(inbox[k]).call
        BY <4>1, <4>2 DEF Reply
      <4>3. CASE c = Head(inbox[k]).call
        <5>1. Asked(c, k)
          BY <2>1, <2>2, <4>1, <4>3
        <5>2. target[c] = workId[k] \/ ~IsActive(target[c])
          BY <2>3, <4>1, <5>1 DEF Works
        <5>3. stage'[k] = "finishing" /\ workId'[k] = workId[k]
          BY <1>0, <4>1 DEF TypeOK
        <5>4. Finishing(workId[k])'
          BY <4>1, <5>3 DEF Finishing, Kinds, Services
        <5>5. Settled(target[c])'
          <6>1. CASE target[c] = workId[k]
            <7>1. target'[c] = workId'[k]
              BY <4>1, <6>1
            <7> QED BY <7>1, <5>4 DEF Settled
          <6>2. CASE ~IsActive(target[c])
            BY <4>1, <6>2 DEF Settled, IsActive
          <6> QED BY <5>2, <6>1, <6>2
        <5> QED BY <4>1, <5>1, <5>5 DEF Reply
      <4> QED BY <4>2, <4>3
    <3> QED BY <3>1, <3>2
  <2>6. CASE WorkStarts(k) \/ StartFails(k) \/ WorkEnds(k)
    BY <2>6 DEF WorkStarts, StartFails, WorkEnds, callVars
  <2>7. CASE WorkFinished(k)
    <3>1. PICK end \in {outcome[k]} \cup (IF k \in Captures THEN {"failed"} ELSE {}) :
             /\ FinishRecord(workId[k], end)
             /\ Reply({stopper[k]}, IF end = "failed" THEN "err" ELSE "ok")
      BY <2>7 DEF WorkFinished
    <3>2. end \in Ended
      BY <1>0, <3>1 DEF TypeOK, Ended
    <3>3. CASE c # stopper[k]
      BY <3>1, <3>3 DEF Reply
    <3>4. CASE c = stopper[k]
      <4>1. Asked(c, k)
        BY <3>4 DEF StopsKeepKind
      <4>2. Works(k) /\ target' = target
        BY <2>7 DEF WorkFinished, Works
      <4>3. target[c] \in Ids /\ (target[c] = workId[k] \/ ~IsActive(target[c]))
        BY <2>3, <4>1, <4>2
      <4>4. \A i \in Ids : i = workId[k] \/ phase[i] \notin Active => phase'[i] \notin Active
        BY <1>0, <3>1, <3>2, FinishFacts DEF Active, Ended
      <4>5. phase'[target[c]] \notin Active
        BY <4>3, <4>4 DEF IsActive
      <4>6. Settled(target[c])'
        BY <4>2, <4>5 DEF Settled, IsActive
      <4> QED BY <3>1, <4>1, <4>6 DEF Reply
    <3> QED BY <3>3, <3>4
  <2>8. ASSUME k \in Services, Gone(k) PROVE Right
    <3>1. c \in CallsIn(inbox[k]) => Asked(c, k)
      BY <2>1, <2>8 DEF CallsIn, Items
    <3>2. c = stopper[k] => Asked(c, k)
      BY DEF StopsKeepKind
    <3> QED BY <1>1, <2>8, <3>1, <3>2 DEF Gone
  <2>9. CASE SeesShutdown(k) \/ Leaves(k) \/ Aborted(k)
    BY <2>8, <2>9 DEF SeesShutdown, Leaves, Aborted, callVars
  <2> QED BY <1>5, <2>4, <2>5, <2>6, <2>7, <2>9 DEF Service
<1> QED BY <1>2, <1>3, <1>4, <1>5 DEF Next
LEMMA AnsweredStep ==
    ASSUME Typed, Served, StopsKeepKind, Answered, Next
    PROVE  Answered'
<1>0. TypeOK /\ Known /\ nextId \in Nat
  BY DEF Typed, TypeOK
<1>1. nextId <= nextId' /\ nextId' \in Nat /\ \A i \in Ids : i \in Nat
  BY <1>0, KnownStep DEF Ids
<1>2. \A i \in Ids : i <= nextId => i <= nextId'
  <2>1. \A a, b, d \in Nat : a <= b /\ b <= d => a <= d
    OBVIOUS
  <2> QED BY <1>0, <1>1, <2>1
<1>3. SUFFICES ASSUME NEW c \in Calls
               PROVE  /\ pc'[c] # "idle" => target'[c] \in Ids /\ target'[c] <= nextId'
                      /\ reply'[c] # "none" => pc'[c] \notin {"idle", "requested"}
                      /\ pc'[c] = "ok" => reply'[c] = "ok"
                      /\ reply'[c] = "ok" => Settled(target[c])'
  BY DEF Answered, Ids
<1>4. ASSUME pc[c] = "idle", pc'[c] # "idle"
      PROVE  /\ pc'[c] = "requested"
             /\ target'[c] \in Ids /\ target'[c] <= nextId'
  <2>1. ASSUME NEW d \in Calls, Caller(d)
        PROVE  \E i \in Ids : CancelRequest(c, i)
    BY <1>0, <1>4, <2>1 DEF Caller, CancelRequest, CancelSend, CancelAnswered,
          CancelTimesOut, CancelDropped, TypeOK
  <2>2. ASSUME UNCHANGED pc PROVE FALSE
    BY <1>4, <2>2
  <2>3. \E i \in Ids : CancelRequest(c, i)
    BY <2>1, <2>2 DEF Next, Request, Session, Route, Uninstall, SessionStarts, SessionConnects,
       SessionCloses, SessionEnds, Service, TakeIdle, TakeWorking, WorkStarts, StartFails,
       WorkEnds, WorkFinished, SeesShutdown, Leaves, Aborted, Gone, callVars
  <2>4. PICK i \in Ids : CancelRequest(c, i)
    BY <2>3
  <2>5. i <= nextId
    BY <1>0, <1>1, <2>4 DEF CancelRequest, IsActive, Active, Known
  <2> QED BY <1>0, <1>2, <2>4, <2>5 DEF CancelRequest, TypeOK
<1>5. ASSUME pc[c] # "idle" PROVE target'[c] = target[c] /\ pc'[c] # "idle"
  BY <1>5, CallStep
<1>6. pc'[c] # "idle" => target'[c] \in Ids /\ target'[c] <= nextId'
  BY <1>2, <1>4, <1>5 DEF Answered
<1>7. reply'[c] # "none" => pc'[c] \notin {"idle", "requested"}
  <2>1. reply'[c] # "none" => pc[c] \notin {"idle", "requested"}
    BY AnswerStep DEF Asked, Answered
  <2> QED BY <2>1, CallStep
<1>8. pc'[c] = "ok" => reply'[c] = "ok"
  <2>1. ASSUME pc'[c] = "ok" PROVE reply[c] = "ok"
    <3>1. ASSUME NEW d \in Calls, Caller(d) PROVE reply[c] = "ok"
      BY <1>0, <2>1, <3>1 DEF Caller, CancelRequest, CancelSend, CancelAnswered,
            CancelTimesOut, CancelDropped, TypeOK, Answered
    <3>2. ASSUME UNCHANGED pc PROVE reply[c] = "ok"
      BY <2>1, <3>2 DEF Answered
    <3> QED BY <3>1, <3>2 DEF Next, Request, Session, Route, Uninstall, SessionStarts,
         SessionConnects, SessionCloses, SessionEnds, Service, TakeIdle, TakeWorking,
         WorkStarts, StartFails, WorkEnds, WorkFinished, SeesShutdown, Leaves, Aborted,
         Gone, callVars
  <2> QED BY <2>1, AnswerStep
<1>9. reply'[c] = "ok" => Settled(target[c])'
  <2>1. CASE reply[c] = "ok"
    <3>1. /\ pc[c] # "idle" /\ target[c] \in Ids /\ target[c] <= nextId
          /\ Settled(target[c])
      BY <2>1 DEF Answered
    <3>2. target'[c] = target[c]
      BY <3>1, CallStep
    <3>3. \A i \in Ids : i = target[c] => Settled(i)'
      BY <3>1, SettledStays
    <3>4. Settled(target[c])' <=> \A i \in Ids : i = target[c] => Settled(i)'
      BY <3>1, <3>2 DEF Settled, IsActive, Finishing, Kinds, Services
    <3> QED BY <3>3, <3>4
  <2>2. CASE reply[c] # "ok"
    BY <2>2, AnswerStep
  <2> QED BY <2>1, <2>2
<1> QED BY <1>6, <1>7, <1>8, <1>9

\* A record that says cancelling keeps a cause.
LEMMA CausedStep ==
    ASSUME Typed, Served, StopsKeepKind, Answered, Caused, Next
    PROVE  Caused'
<1>0. TypeOK /\ Known /\ nextId \in Nat
  BY DEF Typed, TypeOK
<1>1. SUFFICES ASSUME NEW i \in Ids, phase'[i] = "cancelling"
               PROVE  \/ \E c \in Calls : target'[c] = i /\ pc'[c] \in {"requested", "waiting"}
                      \/ Finishing(i)'
                      \/ CallerLeft(i)'
                      \/ session' = "closing"
  BY DEF Caused, Ids
<1>2. CASE phase[i] = "cancelling"
  <2>1. i <= nextId
    BY <1>0, <1>2 DEF Known, Ids
  <2>2. CASE Settled(i)
    BY <1>1, <2>1, <2>2, SettledStays DEF Settled, IsActive, Active
  <2>3. CASE CallerLeft(i)
    <3>1. PICK c \in Calls : target[c] = i /\ pc[c] = "dropped"
      BY <2>3 DEF CallerLeft
    <3>2. target'[c] = i /\ pc'[c] = "dropped"
      BY <3>1, CallStep
    <3> QED BY <3>2 DEF CallerLeft
  <2>4. ASSUME NEW c \in Calls, target[c] = i, pc[c] \in {"requested", "waiting"},
               ~Settled(i)
        PROVE  \/ target'[c] = i /\ pc'[c] \in {"requested", "waiting"}
               \/ CallerLeft(i)'
    <3>1. target'[c] = i
      BY <2>4, CallStep
    <3>2. ASSUME NEW d \in Calls, Caller(d), pc'[c] \notin {"requested", "waiting"}
          PROVE  CallerLeft(i)'
      <4>1. d = c
        BY <1>0, <2>4, <3>2 DEF Caller, CancelRequest, CancelSend, CancelAnswered,
              CancelTimesOut, CancelDropped, TypeOK
      <4>2. ~CancelRequestFailed(i)
        BY <1>0, <1>1, FailedFacts
      <4>3. reply[c] # "ok"
        BY <2>4 DEF Answered
      <4>4. CancelDropped(c)
        BY <1>0, <2>4, <3>2, <4>1, <4>2, <4>3 DEF Caller, CancelRequest, CancelSend,
              CancelAnswered, CancelTimesOut, TypeOK
      <4>5. pc'[c] = "dropped"
        BY <1>0, <4>4 DEF CancelDropped, TypeOK
      <4> QED BY <3>1, <4>5 DEF CallerLeft
    <3>3. CASE UNCHANGED pc
      BY <2>4, <3>1, <3>3
    <3> QED BY <3>1, <3>2, <3>3 DEF Next, Request, Session, Route, Uninstall, SessionStarts,
         SessionConnects, SessionCloses, SessionEnds, Service, TakeIdle, TakeWorking,
         WorkStarts, StartFails, WorkEnds, WorkFinished, SeesShutdown, Leaves, Aborted,
         Gone, callVars
  <2> QED BY <1>2, <2>2, <2>3, <2>4 DEF Caused, Settled
<1>3. CASE phase[i] # "cancelling"
  <2>1. ASSUME NEW c \in Calls, Caller(c)
        PROVE  target'[c] = i /\ pc'[c] = "requested"
    <3>1. ~CancelRequestFailed(target[c])
      BY <1>0, <1>1, <1>3, FailedFacts
    <3>2. PICK j \in Ids : CancelRequest(c, j)
      BY <1>1, <1>3, <2>1, <3>1 DEF Caller, CancelSend, CancelAnswered, CancelTimesOut,
            CancelDropped, registryVars
    <3>3. j = i
      BY <1>0, <1>1, <1>3, <3>2 DEF CancelRequest, TypeOK
    <3> QED BY <1>0, <3>2, <3>3 DEF CancelRequest, TypeOK
  <2>2. ASSUME Session PROVE FALSE
    <3>1. CASE Uninstall
      <4>1. Head(queue).kind \in Kinds
        BY <1>0, <3>1, QueueFacts DEF Uninstall, TypeOK
      <4> QED BY <1>0, <1>1, <1>3, <3>1, <4>1, BeginFacts DEF Uninstall
    <3>2. CASE SessionCloses \/ SessionEnds
      BY <1>1, <1>3, <3>2 DEF SessionCloses, SessionEnds, CancelAll
    <3> QED BY <1>1, <1>3, <2>2, <3>1, <3>2 DEF Session, Route, SessionStarts, SessionConnects,
         registryVars
  <2>3. ASSUME NEW k \in Kinds, Service(k) PROVE FALSE
    <3>1. ASSUME NEW end \in Ended PROVE ~FinishRecord(workId[k], end)
      BY <1>0, <1>1, <1>3, FinishFacts DEF Ended
    <3>2. CASE TakeIdle(k)
      BY <1>0, <1>1, <1>3, <3>2, BeginFacts DEF TakeIdle
    <3>3. CASE StartFails(k)
      BY <3>1, <3>3 DEF StartFails, Ended
    <3>4. CASE WorkFinished(k)
      BY <1>0, <3>1, <3>4 DEF WorkFinished, Ended, TypeOK
    <3>5. CASE Leaves(k)
      BY <3>1, <3>5 DEF Leaves, Ended
    <3> QED BY <1>1, <1>3, <2>3, <3>2, <3>3, <3>4, <3>5 DEF Service, TakeWorking, WorkStarts,
         WorkEnds, SeesShutdown, Aborted, registryVars
  <2>4. ASSUME NEW op \in {"start", "stop"}, NEW k \in Kinds, Request(op, k) PROVE FALSE
    BY <1>1, <1>3, <2>4 DEF Request, registryVars
  <2> QED BY <2>1, <2>2, <2>3, <2>4 DEF Next
<1> QED BY <1>2, <1>3

LEMMA CancelsInductive ==
    /\ Init => Cancels
    /\ Typed /\ Served /\ Cancels /\ [Next]_vars => Cancels'
<1>1. ASSUME Init PROVE Cancels
  <2>0. Items(<<>>) = {}
    BY DEF Items
  <2>1. StopsKeepKind
    BY <1>1, <2>0, NoCallAssumption DEF Init, StopsKeepKind
  <2>2. Answered
    BY <1>1 DEF Init, Answered
  <2>3. Caused
    BY <1>1 DEF Init, Caused
  <2> QED BY <2>1, <2>2, <2>3 DEF Cancels
<1>2. ASSUME Typed, Served, Cancels, Next PROVE Cancels'
  BY <1>2, StopsKeepKindStep, AnsweredStep, CausedStep DEF Cancels
<1>3. ASSUME Cancels, UNCHANGED vars PROVE Cancels'
  <2>1. StopsKeepKind' /\ Answered'
    BY <1>3 DEF vars, Cancels, StopsKeepKind, Asked, Answered, Settled, IsActive, Finishing,
       Items, Ids, Kinds, Services
  <2>2. Caused'
    BY <1>3 DEF vars, Cancels, Caused, Finishing, CallerLeft, Ids, Kinds, Services
  <2> QED BY <2>1, <2>2 DEF Cancels
<1> QED BY <1>1, <1>2, <1>3

LEMMA CancelsHold == Spec => [](Typed /\ Cancels)
BY ServedInductive, CancelsInductive, PTL DEF Spec

\* Who is told that a cancel succeeded has ended the operation of the id it
\* passed, or that operation is being cleaned up, although the Stop it sent
\* names only a kind and other callers and sessions come and go.
THEOREM OkEnds == Spec => []CancelOkEnds
<1>1. Cancels => CancelOkEnds
  BY DEF Cancels, Answered, CancelOkEnds, Settled
<1> QED BY CancelsHold, <1>1, PTL

\* No record says cancelling for ever because of a rejected, unanswered or
\* lost Stop: somebody still waits for it or it is ending, unless the caller
\* went away.
THEOREM CancellingIsCaused == Spec => []CancellingHasCause
<1>1. Caused => CancellingHasCause
  BY DEF Caused, CancellingHasCause
<1>2. Cancels => Caused
  BY DEF Cancels
<1> QED BY CancelsHold, <1>1, <1>2, PTL
=============================================================================
