------------------------ MODULE SessionManagerProofs ------------------------
(***************************************************************************)
(* Proofs about SessionManager for every set of devices, transports and    *)
(* requests.                                                               *)
(***************************************************************************)
EXTENDS SessionManager, TLAPS

\* The ended channel gets one more notice, of a selection it does not hold.
LEMMA AppendNotice ==
    ASSUME NEW q \in Seq(Ids), NEW i \in Ids, Distinct(q), i \notin Elements(q)
    PROVE  /\ Append(q, i) \in Seq(Ids)
           /\ Distinct(Append(q, i))
           /\ Elements(Append(q, i)) = Elements(q) \cup {i}
<1>1. Append(q, i) \in Seq(Ids)
  OBVIOUS
<1>2. Len(Append(q, i)) = Len(q) + 1 /\ Append(q, i)[Len(q) + 1] = i
  OBVIOUS
<1>3. \A k \in 1..Len(q) : Append(q, i)[k] = q[k]
  OBVIOUS
<1>4. Len(q) \in Nat
  OBVIOUS
<1>5. 1..Len(Append(q, i)) = (1..Len(q)) \cup {Len(q) + 1}
  BY <1>2, <1>4
<1>6. Elements(Append(q, i)) = Elements(q) \cup {i}
  BY <1>2, <1>3, <1>4, <1>5 DEF Elements
<1>7. Distinct(Append(q, i))
  BY <1>2, <1>3, <1>4, <1>5 DEF Elements, Distinct
<1> QED BY <1>1, <1>6, <1>7

\* The manager takes the oldest notice; no other notice of that selection
\* remains.
LEMMA TakeNotice ==
    ASSUME NEW q \in Seq(Ids), q # <<>>, Distinct(q)
    PROVE  /\ Head(q) \in Ids
           /\ Tail(q) \in Seq(Ids)
           /\ Distinct(Tail(q))
           /\ Head(q) \in Elements(q)
           /\ Elements(Tail(q)) = Elements(q) \ {Head(q)}
<1>1. Len(q) \in Nat /\ Len(q) >= 1 /\ Head(q) = q[1]
  OBVIOUS
<1>2. Tail(q) \in Seq(Ids) /\ Len(Tail(q)) = Len(q) - 1
  OBVIOUS
<1>3. \A k \in 1..Len(Tail(q)) : Tail(q)[k] = q[k + 1]
  OBVIOUS
<1>4. Distinct(Tail(q))
  BY <1>1, <1>2, <1>3 DEF Distinct
<1>5. Head(q) \in Ids /\ Head(q) \in Elements(q)
  BY <1>1 DEF Elements
<1>6. Elements(Tail(q)) \subseteq Elements(q) \ {Head(q)}
  BY <1>1, <1>2, <1>3 DEF Elements, Distinct
<1>7. ASSUME NEW e \in Elements(q) \ {Head(q)} PROVE e \in Elements(Tail(q))
  <2>1. PICK k \in 1..Len(q) : e = q[k]
    BY DEF Elements
  <2>2. k # 1
    BY <2>1, <1>1, <1>7
  <2>3. k - 1 \in 1..Len(Tail(q)) /\ Tail(q)[k - 1] = q[k]
    BY <2>2, <1>1, <1>2, <1>3
  <2> QED BY <2>1, <2>3 DEF Elements
<1> QED BY <1>2, <1>4, <1>5, <1>6, <1>7

-----------------------------------------------------------------------------
(***************************************************************************)
(* Type correctness.                                                       *)
(***************************************************************************)

\* A client's request resolves to an identifier.
LEMMA ResolveType ==
    ASSUME TypeOK, NEW r \in Ids
    PROVE  Resolve(r) \in Ids
<1>1. Selections \subseteq Ids
  BY TransportsAssumption DEF Selections, Ids
<1> QED BY <1>1 DEF Resolve, TypeOK, Ids

\* Stopping sessions keeps the types of the slots.
LEMMA StopType ==
    ASSUME TypeOK, NEW S, StopSessions(S)
    PROVE  /\ stop' \in [Ids -> {"empty", "armed", "sent", "seen"}]
           /\ shutdown' \in [Ids -> BOOLEAN]
BY DEF StopSessions, TypeOK

\* Performing a management action keeps the types of what it writes.
LEMMA PerformType ==
    ASSUME TypeOK, NEW i \in Ids, NEW action, NEW queue \in SUBSET Ids,
           PerformManagement(i, action, queue)
    PROVE  /\ sessions' \subseteq Ids
           /\ pendingConnect' \subseteq Ids
           /\ active' \in Ids \cup {NoId}
           /\ phase' \in [Ids -> Phases]
           /\ error' \in [Ids -> BOOLEAN]
<1>1. CASE action = "pair"
  BY <1>1 DEF PerformManagement, TypeOK, Phases
<1>2. CASE action = "forget"
  BY <1>2 DEF PerformManagement, TypeOK, Phases, FocusAfterRemoval
<1>3. CASE action = "unmount"
  BY <1>3 DEF PerformManagement, TypeOK
<1> QED BY <1>1, <1>2, <1>3 DEF PerformManagement

\* The end of a task keeps the types of what it writes.
LEMMA FinishType ==
    ASSUME TypeOK, NEW i \in Ids, Finish(i)
    PROVE  /\ stage' \in [Ids -> Stages]
           /\ stop' \in [Ids -> {"empty", "armed", "sent", "seen"}]
           /\ shutdown' \in [Ids -> BOOLEAN]
           /\ phase' \in [Ids -> Phases]
           /\ ended' \in Seq(Ids)
<1>1. ended' \in Seq(Ids)
  BY DEF Finish, TypeOK
<1>2. shutdown' \in [Ids -> BOOLEAN]
  BY DEF Finish, TypeOK
<1>3. /\ stage' \in [Ids -> Stages] /\ phase' \in [Ids -> Phases]
      /\ stop' \in [Ids -> {"empty", "armed", "sent", "seen"}]
  BY DEF Finish, TypeOK, Stages, Phases
<1> QED BY <1>1, <1>2, <1>3

\* What a scan does: it admits some of the pending selections it reports.
LEMMA TickAdmits ==
    ASSUME TypeOK, Tick
    PROVE  \E scan \in SUBSET Selections, ready \in SUBSET Selections :
           \E won \in SUBSET ready, refused \in SUBSET ready :
              /\ DiscoveryLosesLive \/ running \subseteq scan
              /\ ready \subseteq scan
              /\ endpoints' = scan
              /\ autoPick' \in BOOLEAN
              /\ pendingConnect' \subseteq Ids
              /\ Admitted(ready, scan, won, refused)
              /\ StartAdmitted(won, refused)
<1>1. PICK scan \in SUBSET Selections :
         /\ DiscoveryLosesLive \/ running \subseteq scan
         /\ endpoints' = scan
         /\ \E unpaired \in SUBSET {d \in Devices : <<d, "usb">> \in scan} :
            \E picked \in IF AutoPicks(scan, unpaired) = {} THEN {{}}
                          ELSE AutoPicks(scan, unpaired) :
               /\ autoPick' = (autoPick /\ AutoPicks(scan, unpaired) = {})
               /\ pendingConnect' = (pendingConnect \cup picked)
                                       \ ((pendingConnect \cup picked) \cap scan)
               /\ \E won \in SUBSET ((pendingConnect \cup picked) \cap scan),
                     refused \in SUBSET ((pendingConnect \cup picked) \cap scan) :
                     /\ Admitted((pendingConnect \cup picked) \cap scan, scan, won, refused)
                     /\ StartAdmitted(won, refused)
  BY DEF Tick
<1>2. PICK unpaired \in SUBSET {d \in Devices : <<d, "usb">> \in scan} :
         \E picked \in IF AutoPicks(scan, unpaired) = {} THEN {{}}
                       ELSE AutoPicks(scan, unpaired) :
            /\ autoPick' = (autoPick /\ AutoPicks(scan, unpaired) = {})
            /\ pendingConnect' = (pendingConnect \cup picked)
                                    \ ((pendingConnect \cup picked) \cap scan)
            /\ \E won \in SUBSET ((pendingConnect \cup picked) \cap scan),
                     refused \in SUBSET ((pendingConnect \cup picked) \cap scan) :
                  /\ Admitted((pendingConnect \cup picked) \cap scan, scan, won, refused)
                  /\ StartAdmitted(won, refused)
  BY <1>1
<1>3. PICK picked \in IF AutoPicks(scan, unpaired) = {} THEN {{}}
                      ELSE AutoPicks(scan, unpaired) :
         /\ autoPick' = (autoPick /\ AutoPicks(scan, unpaired) = {})
         /\ pendingConnect' = (pendingConnect \cup picked)
                                 \ ((pendingConnect \cup picked) \cap scan)
         /\ \E won \in SUBSET ((pendingConnect \cup picked) \cap scan),
                     refused \in SUBSET ((pendingConnect \cup picked) \cap scan) :
               /\ Admitted((pendingConnect \cup picked) \cap scan, scan, won, refused)
               /\ StartAdmitted(won, refused)
  BY <1>2
<1> DEFINE ready == (pendingConnect \cup picked) \cap scan
<1>4. PICK won \in SUBSET ready, refused \in SUBSET ready :
         Admitted(ready, scan, won, refused) /\ StartAdmitted(won, refused)
  BY <1>3
<1>5. autoPick' \in BOOLEAN
  BY <1>3 DEF TypeOK
<1>6. picked \subseteq scan
  BY <1>3 DEF AutoPicks, StartupCandidates
<1>7. Selections \subseteq Ids
  BY TransportsAssumption DEF Selections, Ids
<1>8. pendingConnect' \subseteq Ids
  BY <1>3, <1>6, <1>7 DEF TypeOK
<1>9. ready \subseteq scan /\ ready \in SUBSET Selections
  OBVIOUS
<1> HIDE DEF ready
<1> QED BY <1>1, <1>4, <1>5, <1>8, <1>9

\* Every variable keeps its type: the manager and the tasks only store
\* identifiers and phases the program knows.
THEOREM TypeCorrect == Spec => []TypeOK
<1>1. Init => TypeOK
  BY InitialAssumption DEF Init, InitialQueue, TypeOK, Phases, Stages
<1>2. TypeOK /\ [Next]_vars => TypeOK'
  <2> SUFFICES ASSUME TypeOK, [Next]_vars PROVE TypeOK'
    OBVIOUS
  <2>0. Selections \subseteq Ids
    BY TransportsAssumption DEF Selections, Ids
  <2>1. ASSUME NEW r \in Requests, Connect(r) PROVE TypeOK'
    BY <2>1, ResolveType, RequestsAssumption
       DEF Connect, ConnectQueue, ConnectPhase, TypeOK, Phases
  <2>2. ASSUME NEW r \in Requests, Disconnect(r) PROVE TypeOK'
    BY <2>2, ResolveType, RequestsAssumption, StopType
       DEF Disconnect, FocusFallbacks, TypeOK, Phases
  <2>3. ASSUME NEW r \in Requests, Reconnect(r) PROVE TypeOK'
    BY <2>3, ResolveType, RequestsAssumption, StopType
       DEF Reconnect, ConnectQueue, TypeOK
  <2>4. ASSUME NEW r \in Requests, NEW action \in ManagementActions, Manage(r, action)
        PROVE  TypeOK'
    <3> DEFINE i == IF action = "unmount" THEN Resolve(r) ELSE r
               dropped == IF action = "unmount" THEN {i} ELSE {}
    <3>1. i \in Ids
      BY ResolveType, RequestsAssumption
    <3>2. CASE MustWait(i)
      BY <2>4, <3>1, <3>2, StopType DEF Manage, TypeOK
    <3>3. CASE ~MustWait(i)
      <4>1. PerformManagement(i, action, pendingConnect \ dropped)
        BY <2>4, <3>3 DEF Manage
      <4>2. pendingConnect \ dropped \in SUBSET Ids
        BY DEF TypeOK
      <4> HIDE DEF i, dropped
      <4>3. /\ sessions' \subseteq Ids /\ pendingConnect' \subseteq Ids
            /\ active' \in Ids \cup {NoId} /\ phase' \in [Ids -> Phases]
            /\ error' \in [Ids -> BOOLEAN]
        BY <4>1, <4>2, <3>1, PerformType
      <4> USE DEF i, dropped
      <4> QED BY <2>4, <3>3, <4>3 DEF Manage, TypeOK
    <3> QED BY <3>2, <3>3
  <2>5. CASE Quit
    BY <2>5, StopType DEF Quit, TypeOK
  <2>6. CASE Ended
    <3> DEFINE i == Head(ended)
    <3>1. i \in Ids /\ Tail(ended) \in Seq(Ids)
      BY <2>6 DEF Ended, TypeOK
    <3>2. CASE pendingManagement[i] # "none" /\ i \in sessions
      <4>1. PerformManagement(i, pendingManagement[i], pendingConnect)
        BY <2>6, <3>2 DEF Ended
      <4>2. pendingConnect \in SUBSET Ids
        BY DEF TypeOK
      <4> HIDE DEF i
      <4>3. /\ sessions' \subseteq Ids /\ pendingConnect' \subseteq Ids
            /\ active' \in Ids \cup {NoId} /\ phase' \in [Ids -> Phases]
            /\ error' \in [Ids -> BOOLEAN]
        BY <4>1, <4>2, <3>1, PerformType
      <4> USE DEF i
      <4> QED BY <2>6, <3>1, <3>2, <4>3 DEF Ended, TypeOK
    <3>3. CASE ~(pendingManagement[i] # "none" /\ i \in sessions)
      BY <2>6, <3>1, <3>3 DEF Ended, TypeOK
    <3> QED BY <3>2, <3>3
  <2>7. CASE Tick
    <3>1. PICK scan \in SUBSET Selections, ready \in SUBSET Selections :
             \E won \in SUBSET ready, refused \in SUBSET ready :
                /\ endpoints' = scan
                /\ autoPick' \in BOOLEAN
                /\ pendingConnect' \subseteq Ids
                /\ StartAdmitted(won, refused)
      BY <2>7, TickAdmits
    <3>2. PICK won \in SUBSET ready, refused \in SUBSET ready :
             /\ endpoints' = scan
             /\ autoPick' \in BOOLEAN
             /\ pendingConnect' \subseteq Ids
             /\ StartAdmitted(won, refused)
      BY <3>1
    <3>3. won \subseteq Ids /\ refused \subseteq Ids
      BY <2>0
    <3> HIDE <3>1
    <3>4. /\ running' \subseteq Ids /\ sessions' \subseteq Ids
          /\ active' \in Ids \cup {NoId}
      BY <3>2, <3>3 DEF StartAdmitted, TypeOK
    <3>5. /\ stage' \in [Ids -> Stages] /\ phase' \in [Ids -> Phases]
          /\ stop' \in [Ids -> {"empty", "armed", "sent", "seen"}]
      BY <3>2 DEF StartAdmitted, TypeOK, Stages, Phases
    <3>6. shutdown' \in [Ids -> BOOLEAN] /\ error' \in [Ids -> BOOLEAN]
      BY <3>2 DEF StartAdmitted, TypeOK
    <3> QED BY <2>7, <3>2, <3>4, <3>5, <3>6 DEF Tick, TypeOK
  <2>8. CASE QuitEnded
    BY <2>8 DEF QuitEnded, slotVars, TypeOK
  <2>9. CASE QuitDone
    BY <2>9 DEF QuitDone, slotVars, TypeOK, Stages
  <2>10. ASSUME NEW i \in Ids, Task(i) PROVE TypeOK'
    <3> USE DEF TypeOK, Stages, Phases, managerVars, slotVars
    <3>1. CASE BeginAttempt(i) BY <3>1 DEF BeginAttempt
    <3>2. CASE StartupFails(i)
      <4>1. CASE stop[i] = "seen"
        BY <3>2, <4>1, FinishType DEF StartupFails
      <4>2. CASE stop[i] # "seen"
        <5>1. PICK reauthorize \in BOOLEAN : AttemptFailed(i, reauthorize)
          BY <3>2, <4>2 DEF StartupFails
        <5> QED BY <3>2, <5>1, FinishType DEF StartupFails, AttemptFailed
      <4> QED BY <4>1, <4>2
    <3>3. CASE StartupTimesOut(i)
      BY <3>3, FinishType DEF StartupTimesOut, AttemptFailed
    <3>4. CASE StartupManages(i) BY <3>4 DEF StartupManages
    <3>5. CASE StartupStreams(i) BY <3>5 DEF StartupStreams
    <3>6. CASE TakeShutdown(i) BY <3>6 DEF TakeShutdown
    <3>7. CASE StreamEnds(i) BY <3>7 DEF StreamEnds
    <3>8. CASE ServicesDown(i) BY <3>8 DEF ServicesDown
    <3>9. CASE SessionReturns(i) BY <3>9, FinishType DEF SessionReturns
    <3>10. CASE ObserveStop(i) BY <3>10, FinishType DEF ObserveStop
    <3> QED BY <2>10, <3>1, <3>2, <3>3, <3>4, <3>5, <3>6, <3>7, <3>8, <3>9,
               <3>10 DEF Task, StartupEnds
  <2>11. CASE UNCHANGED vars
    BY <2>11 DEF vars, TypeOK
  <2> QED BY <2>1, <2>2, <2>3, <2>4, <2>5, <2>6, <2>7, <2>8, <2>9, <2>10,
             <2>11 DEF Next, Manager, Request
<1> QED BY <1>1, <1>2, PTL DEF Spec

-----------------------------------------------------------------------------
(***************************************************************************)
(* Task accounting.  The parts of the invariant rest on each other: only   *)
(* the accounting shows that a started selection has no task and no notice *)
(* left, that an ended one has no slot left open, and that a management    *)
(* action waits for a task that exists.                                    *)
(***************************************************************************)
Safe == TaskAccounting /\ RunningStoppable /\ ManagementAwaitsStop /\ FocusRegistered

IInv == TypeOK /\ Safe

\* A task that ends moves its selection from "alive" to "reported".
LEMMA FinishSafe ==
    ASSUME IInv, NEW i \in Ids, stage[i] # "none", mgr # "stopped",
           Finish(i), UNCHANGED managerVars
    PROVE  Safe'
<1> USE DEF IInv, Safe, managerVars
<1>1. i \in running /\ i \notin Reported /\ Distinct(ended) /\ ended \in Seq(Ids)
  BY DEF TaskAccounting, TypeOK
<1>2. Distinct(ended') /\ Reported' = Reported \cup {i}
  BY <1>1, AppendNotice DEF Finish, Reported
<1>3. /\ \A j \in Ids : stage'[j] = IF j = i THEN "none" ELSE stage[j]
      /\ \A j \in Ids : stop'[j] = IF j = i THEN "empty" ELSE stop[j]
      /\ \A j \in Ids : shutdown'[j] = IF j = i THEN FALSE ELSE shutdown[j]
  BY DEF Finish, TypeOK
<1>4. TaskAccounting'
  <2>1. \A j \in Ids : j \in running' <=> (stage'[j] # "none" \/ j \in Reported')
    BY <1>1, <1>2, <1>3 DEF TaskAccounting
  <2>2. \A j \in Reported' : stage'[j] = "none"
    <3>1. Reported \subseteq Ids
      BY <1>1 DEF Reported, Elements
    <3> QED BY <3>1, <1>2, <1>3 DEF TaskAccounting
  <2> QED BY <2>1, <2>2, <1>2 DEF TaskAccounting
<1>5. RunningStoppable'
  BY <1>3 DEF RunningStoppable
<1>6. ManagementAwaitsStop'
  BY <1>2, <1>3 DEF ManagementAwaitsStop
<1>7. FocusRegistered'
  BY DEF FocusRegistered
<1> QED BY <1>4, <1>5, <1>6, <1>7

\* A task step that does not end the task keeps the accounting.
LEMMA LiveStepSafe ==
    ASSUME IInv, NEW i \in Ids, stage[i] # "none", mgr # "stopped",
           stage' \in [Ids -> Stages], stage'[i] # "none",
           \A j \in Ids : j # i => stage'[j] = stage[j],
           UNCHANGED managerVars, UNCHANGED ended, UNCHANGED <<stop, shutdown>>
    PROVE  Safe'
<1> USE DEF IInv, Safe, managerVars
<1>1. Reported' = Reported /\ Reported \subseteq Ids
  BY DEF Reported, Elements, TypeOK
<1>2. TaskAccounting'
  BY <1>1 DEF TaskAccounting
<1>3. RunningStoppable'
  BY DEF RunningStoppable
<1>4. ManagementAwaitsStop'
  BY <1>1 DEF ManagementAwaitsStop
<1>5. FocusRegistered'
  BY DEF FocusRegistered
<1> QED BY <1>2, <1>3, <1>4, <1>5

\* What a stop request does to the slots of the sessions it reaches.
LEMMA StopEffect ==
    ASSUME TypeOK, NEW S, StopSessions(S)
    PROVE  \A i \in Ids :
              /\ stop'[i] = IF i \in S /\ stop[i] = "armed" THEN "sent" ELSE stop[i]
              /\ shutdown[i] => shutdown'[i]
              /\ i \in S /\ stage[i] # "none" => shutdown'[i]
BY DEF StopSessions, TypeOK

\* A manager step that starts and ends no task, stops the sessions S, and may
\* add sessions.
LEMMA ManagerStepSafe ==
    ASSUME IInv, mgr = "running", mgr' # "stopped", NEW S, StopSessions(S),
           UNCHANGED <<running, ended, stage>>,
           sessions \subseteq sessions',
           active' # NoId => active' \in sessions',
           mgr' = "running" =>
              \A i \in Ids : pendingManagement'[i] # "none" =>
                 i \in running /\ (i \in S \/ pendingManagement[i] # "none")
    PROVE  Safe'
<1> USE DEF IInv, Safe
<1>1. Reported' = Reported
  BY DEF Reported
<1>2. TaskAccounting'
  BY <1>1 DEF TaskAccounting
<1>3. RunningStoppable'
  BY StopEffect DEF RunningStoppable
<1>4. ManagementAwaitsStop'
  <2> SUFFICES ASSUME mgr' = "running", NEW i \in Ids, pendingManagement'[i] # "none"
               PROVE  /\ i \in running
                      /\ stop'[i] \in {"sent", "seen"} \/ i \in Reported
    BY <1>1 DEF ManagementAwaitsStop
  <2>1. i \in running
    OBVIOUS
  <2>2. CASE pendingManagement[i] # "none"
    BY <2>1, <2>2, StopEffect DEF ManagementAwaitsStop
  <2>3. CASE i \in S /\ stage[i] = "none"
    BY <2>1, <2>3 DEF TaskAccounting
  <2>4. CASE i \in S /\ stage[i] # "none"
    <3>1. stop[i] \in {"armed", "sent", "seen"}
      BY <2>4 DEF RunningStoppable, TypeOK
    <3> QED BY <3>1, <2>4, StopEffect
  <2> QED BY <2>2, <2>3, <2>4
<1>5. FocusRegistered'
  BY DEF FocusRegistered
<1> QED BY <1>2, <1>3, <1>4, <1>5

\* A management action touches only a selection without a task; the manager's
\* other step parts are the same for Pair, Forget and Unmount.
LEMMA PerformSafe ==
    ASSUME IInv, NEW i \in Ids, NEW action, NEW queue,
           PerformManagement(i, action, queue)
    PROVE  /\ sessions \ {i} \subseteq sessions'
           /\ FocusRegistered'
<1> USE DEF IInv, Safe, FocusRegistered
<1>1. CASE action = "pair"
  BY <1>1 DEF PerformManagement
<1>2. CASE action = "forget"
  BY <1>2 DEF PerformManagement, FocusAfterRemoval
<1>3. CASE action = "unmount"
  BY <1>3 DEF PerformManagement
<1> QED BY <1>1, <1>2, <1>3 DEF PerformManagement

\* A manager step on a selection i without a task: nothing runs for it, no
\* action waits for it, and only its session may leave the registry.
LEMMA IdleStepSafe ==
    ASSUME IInv, mgr = "running", NEW i \in Ids, i \notin running',
           sessions \ {i} \subseteq sessions', FocusRegistered',
           running' = running \ {i},
           \A j \in Ids : j # i => pendingManagement'[j] = pendingManagement[j],
           pendingManagement'[i] = "none",
           stage[i] = "none",
           ended' \in Seq(Ids), Distinct(ended'), Reported' = Reported \ {i},
           UNCHANGED <<mgr, stage, stop, shutdown>>
    PROVE  Safe'
<1> USE DEF IInv, Safe
<1>1. Reported \subseteq Ids
  BY DEF Reported, Elements, TypeOK
<1>2. TaskAccounting'
  BY <1>1 DEF TaskAccounting
<1>3. RunningStoppable'
  BY DEF RunningStoppable
<1>4. ManagementAwaitsStop'
  BY <1>1 DEF ManagementAwaitsStop
<1> QED BY <1>2, <1>3, <1>4

\* A scan starts only selections that have neither a task nor a notice.
LEMMA TickSafe ==
    ASSUME IInv, Tick
    PROVE  Safe'
<1> USE DEF IInv, Safe
<1>1. PICK scan \in SUBSET Selections, ready \in SUBSET Selections :
         \E won \in SUBSET ready, refused \in SUBSET ready :
            /\ ready \subseteq scan
            /\ Admitted(ready, scan, won, refused)
            /\ StartAdmitted(won, refused)
  BY TickAdmits
<1>2. PICK won \in SUBSET ready, refused \in SUBSET ready :
         /\ ready \subseteq scan
         /\ Admitted(ready, scan, won, refused)
         /\ StartAdmitted(won, refused)
  BY <1>1
<1>3. UNCHANGED <<mgr, pendingManagement, ended>> /\ mgr = "running"
  BY DEF Tick
<1>4. won \cap running = {}
  BY <1>2 DEF Admitted, RunningSelectionsFor
<1>5. won \subseteq Ids
  BY <1>2, TransportsAssumption DEF Selections, Ids
<1>6. Reported' = Reported /\ Reported \subseteq Ids
  BY <1>3 DEF Reported, Elements, TypeOK
<1>7. /\ \A i \in Ids : stage'[i] = IF i \in won THEN "spawned" ELSE stage[i]
      /\ \A i \in Ids : stop'[i] = IF i \in won THEN "armed" ELSE stop[i]
      /\ \A i \in Ids : i \notin won => shutdown'[i] = shutdown[i]
  BY <1>2 DEF StartAdmitted
<1>8. /\ running' = running \cup won
      /\ sessions' = sessions \cup won \cup refused
      /\ active' = active \/ active' \in won
  BY <1>2 DEF StartAdmitted
<1> HIDE <1>1, <1>2
<1>9. TaskAccounting'
  BY <1>3, <1>4, <1>5, <1>6, <1>7, <1>8 DEF TaskAccounting
<1>10. RunningStoppable'
  BY <1>3, <1>5, <1>7, <1>8 DEF RunningStoppable
<1>11. ManagementAwaitsStop'
  BY <1>3, <1>4, <1>6, <1>7, <1>8 DEF ManagementAwaitsStop
<1>12. FocusRegistered'
  BY <1>8 DEF FocusRegistered
<1> QED BY <1>9, <1>10, <1>11, <1>12

\* After stop_all_sessions has returned, no task is left on the LocalSet.
NoTaskAfterStop == mgr = "stopped" => \A i \in Ids : stage[i] = "none"

\* Only a live task takes a step.
LEMMA TaskIsLive ==
    ASSUME NEW i \in Ids, Task(i)
    PROVE  stage[i] # "none" /\ UNCHANGED mgr
BY DEF Task, StartupEnds, BeginAttempt, StartupFails, StartupTimesOut,
       StartupManages, StartupStreams, TakeShutdown, StreamEnds, ServicesDown,
       SessionReturns, ObserveStop, managerVars

\* Dropping the LocalSet ends every task: none starts or runs after it.
LEMMA StopIsFinal == Spec => []NoTaskAfterStop
<1>1. Init => NoTaskAfterStop
  BY DEF Init, NoTaskAfterStop
<1>2. NoTaskAfterStop /\ [Next]_vars => NoTaskAfterStop'
  <2> SUFFICES ASSUME NoTaskAfterStop, [Next]_vars PROVE NoTaskAfterStop'
    OBVIOUS
  <2>1. CASE \E r \in Requests : Request(r)
    BY <2>1 DEF Request, Connect, Disconnect, Reconnect, Manage, NoTaskAfterStop
  <2>2. CASE Quit \/ Ended \/ Tick \/ QuitEnded
    BY <2>2 DEF Quit, Ended, Tick, QuitEnded, NoTaskAfterStop
  <2>3. CASE QuitDone
    BY <2>3 DEF QuitDone, NoTaskAfterStop
  <2>4. ASSUME NEW i \in Ids, Task(i) PROVE NoTaskAfterStop'
    BY <2>4, TaskIsLive DEF NoTaskAfterStop
  <2>5. CASE UNCHANGED vars
    BY <2>5 DEF vars, NoTaskAfterStop
  <2> QED BY <2>1, <2>2, <2>3, <2>4, <2>5 DEF Next, Manager
<1> QED BY <1>1, <1>2, PTL DEF Spec

\* The task accounting, the reachability of running tasks, the waiting of
\* management actions and the registration of the focus are invariants of the
\* manager and its tasks, for every number of devices and every request.
THEOREM SafeInvariant == Spec => []Safe
<1>1. Init => Safe
  BY DEF Init, Safe, TaskAccounting, RunningStoppable, ManagementAwaitsStop,
         FocusRegistered, Reported, Elements, Distinct
<1>2. TypeOK /\ NoTaskAfterStop /\ Safe /\ [Next]_vars => Safe'
  <2> SUFFICES ASSUME IInv, NoTaskAfterStop, [Next]_vars PROVE Safe'
    BY DEF IInv
  <2> USE DEF IInv
  <2>1. ASSUME NEW r \in Requests, Connect(r) PROVE Safe'
    <3>1. StopSessions({})
      BY <2>1 DEF Connect, StopSessions, TypeOK
    <3>2. active' # NoId => active' \in sessions'
      BY <2>1 DEF Connect, Safe, FocusRegistered
    <3>3. \A j \in Ids : pendingManagement'[j] # "none" =>
             j \in running /\ pendingManagement[j] # "none"
      BY <2>1 DEF Connect, Safe, ManagementAwaitsStop
    <3> QED BY <2>1, <3>1, <3>2, <3>3, ManagerStepSafe DEF Connect
  <2>2. ASSUME NEW r \in Requests, Disconnect(r) PROVE Safe'
    <3>1. active' # NoId => active' \in sessions'
      BY <2>2 DEF Disconnect, FocusFallbacks, Safe, FocusRegistered, RunningStoppable
    <3>2. \A j \in Ids : pendingManagement'[j] # "none" =>
             j \in running /\ pendingManagement[j] # "none"
      BY <2>2 DEF Disconnect, Safe, ManagementAwaitsStop
    <3>3. StopSessions(sessions \cap {Resolve(r)})
      BY <2>2 DEF Disconnect
    <3> QED BY <2>2, <3>1, <3>2, <3>3, ManagerStepSafe DEF Disconnect
  <2>3. ASSUME NEW r \in Requests, Reconnect(r) PROVE Safe'
    <3>1. active' # NoId => active' \in sessions'
      BY <2>3 DEF Reconnect, Safe, FocusRegistered
    <3>2. \A j \in Ids : pendingManagement'[j] # "none" =>
             j \in running /\ pendingManagement[j] # "none"
      BY <2>3 DEF Reconnect, Safe, ManagementAwaitsStop
    <3>3. StopSessions(running \cap {Resolve(r)})
      BY <2>3 DEF Reconnect
    <3> QED BY <2>3, <3>1, <3>2, <3>3, ManagerStepSafe DEF Reconnect
  <2>4. ASSUME NEW r \in Requests, NEW action \in ManagementActions, Manage(r, action)
        PROVE  Safe'
    <3> DEFINE i == IF action = "unmount" THEN Resolve(r) ELSE r
               dropped == IF action = "unmount" THEN {i} ELSE {}
    <3>1. i \in Ids
      BY ResolveType, RequestsAssumption
    <3>2. /\ mgr = "running"
          /\ UNCHANGED <<mgr, running, ended, stage>>
      BY <2>4 DEF Manage
    <3>3. CASE MustWait(i)
      <4>1. /\ sessions' = sessions \cup {i}
            /\ pendingManagement' = [pendingManagement EXCEPT ![i] = action]
            /\ StopSessions({i})
            /\ active' = active
            /\ i \in running
        BY <2>4, <3>3 DEF Manage, MustWait
      <4> HIDE DEF i
      <4>2. \A j \in Ids : pendingManagement'[j] # "none" =>
               j \in running /\ (j \in {i} \/ pendingManagement[j] # "none")
        BY <4>1, <3>2 DEF Safe, ManagementAwaitsStop, TypeOK
      <4>3. active' # NoId => active' \in sessions'
        BY <4>1 DEF Safe, FocusRegistered
      <4> QED BY <3>2, <4>1, <4>2, <4>3, ManagerStepSafe
    <3>4. CASE ~MustWait(i)
      <4>1. /\ PerformManagement(i, action, pendingConnect \ dropped)
            /\ UNCHANGED <<pendingManagement, stop, shutdown>>
            /\ i \notin running
        BY <2>4, <3>4 DEF Manage, MustWait
      <4> HIDE DEF i, dropped
      <4>2. sessions \ {i} \subseteq sessions' /\ FocusRegistered'
        BY <3>1, <4>1, PerformSafe
      <4>3. /\ stage[i] = "none" /\ pendingManagement[i] = "none"
            /\ i \notin Reported /\ Distinct(ended)
        BY <3>1, <3>2, <4>1 DEF Safe, TaskAccounting, ManagementAwaitsStop
      <4>4. ended' \in Seq(Ids) /\ Reported' = Reported \ {i}
        BY <3>2, <4>3 DEF TypeOK, Reported
      <4> QED BY <3>1, <3>2, <4>1, <4>2, <4>3, <4>4, IdleStepSafe
    <3> QED BY <3>3, <3>4
  <2>5. CASE Quit
    <3>1. active' # NoId => active' \in sessions'
      BY <2>5 DEF Quit, Safe, FocusRegistered
    <3> QED BY <2>5, <3>1, ManagerStepSafe DEF Quit
  <2>6. CASE Ended
    <3> DEFINE i == Head(ended)
    <3>1. /\ mgr = "running" /\ ended # <<>>
          /\ ended' = Tail(ended)
          /\ running' = running \ {i}
          /\ pendingManagement' = [pendingManagement EXCEPT ![i] = "none"]
          /\ UNCHANGED <<mgr, stage, stop, shutdown>>
      BY <2>6 DEF Ended
    <3>2. Distinct(ended) /\ ended \in Seq(Ids)
      BY <3>1 DEF Safe, TaskAccounting, TypeOK
    <3>3. /\ i \in Ids /\ Tail(ended) \in Seq(Ids) /\ Distinct(Tail(ended))
          /\ i \in Reported /\ Elements(Tail(ended)) = Reported \ {i}
      BY <3>1, <3>2, TakeNotice DEF Reported
    <3>4. sessions \ {i} \subseteq sessions' /\ FocusRegistered'
      <4>1. CASE pendingManagement[i] # "none" /\ i \in sessions
        <5>1. PerformManagement(i, pendingManagement[i], pendingConnect)
          BY <2>6, <4>1 DEF Ended
        <5> HIDE DEF i
        <5> QED BY <3>3, <5>1, PerformSafe
      <4>2. CASE ~(pendingManagement[i] # "none" /\ i \in sessions)
        BY <2>6, <4>2 DEF Ended, Safe, FocusRegistered
      <4> QED BY <4>1, <4>2
    <3> HIDE DEF i
    <3>5. stage[i] = "none"
      BY <3>1, <3>3 DEF Safe, TaskAccounting
    <3>6. /\ pendingManagement'[i] = "none"
          /\ \A j \in Ids : j # i => pendingManagement'[j] = pendingManagement[j]
      BY <3>1, <3>3 DEF TypeOK
    <3>7. ended' \in Seq(Ids) /\ Distinct(ended') /\ Reported' = Reported \ {i}
      BY <3>1, <3>3 DEF Reported
    <3> QED BY <3>1, <3>3, <3>4, <3>5, <3>6, <3>7, IdleStepSafe
  <2>7. CASE Tick
    BY <2>7, TickSafe
  <2>8. CASE QuitEnded
    <3> DEFINE i == Head(ended)
    <3>1. /\ mgr = "quitting" /\ ended # <<>>
          /\ ended' = Tail(ended)
          /\ running' = running \ {i}
          /\ UNCHANGED <<mgr, sessions, active, stage, stop, shutdown>>
      BY <2>8 DEF QuitEnded, slotVars
    <3>2. Distinct(ended) /\ ended \in Seq(Ids)
      BY <3>1 DEF Safe, TaskAccounting, TypeOK
    <3>3. /\ i \in Ids /\ Distinct(Tail(ended)) /\ i \in Reported
          /\ Reported' = Reported \ {i} /\ Reported \subseteq Ids
      <4>1. /\ i \in Ids /\ Distinct(Tail(ended)) /\ i \in Elements(ended)
            /\ Elements(Tail(ended)) = Elements(ended) \ {i}
        BY <3>1, <3>2, TakeNotice
      <4>2. Elements(ended) \subseteq Ids
        BY <3>2 DEF Elements
      <4> QED BY <3>1, <4>1, <4>2 DEF Reported
    <3> HIDE DEF i
    <3>4. TaskAccounting'
      BY <3>1, <3>3 DEF Safe, TaskAccounting
    <3>5. RunningStoppable'
      BY <3>1 DEF Safe, RunningStoppable
    <3>6. ManagementAwaitsStop' /\ FocusRegistered'
      BY <3>1 DEF Safe, ManagementAwaitsStop, FocusRegistered
    <3> QED BY <3>4, <3>5, <3>6 DEF Safe
  <2>9. CASE QuitDone
    BY <2>9 DEF QuitDone, slotVars, Safe, TaskAccounting, RunningStoppable,
                ManagementAwaitsStop, FocusRegistered
  <2>10. ASSUME NEW i \in Ids, Task(i) PROVE Safe'
    <3>0. mgr # "stopped"
      BY <2>10, TaskIsLive DEF NoTaskAfterStop
    <3>1. CASE BeginAttempt(i)
      BY <3>0, <3>1, LiveStepSafe DEF BeginAttempt, TypeOK, Stages
    <3>2. CASE StartupFails(i)
      <4>1. stage[i] # "none" /\ UNCHANGED managerVars
        BY <3>2 DEF StartupFails
      <4>2. CASE Finish(i)
        BY <3>0, <4>1, <4>2, FinishSafe
      <4>3. CASE ~Finish(i)
        <5>1. PICK reauthorize \in BOOLEAN : AttemptFailed(i, reauthorize)
          BY <3>2, <4>3 DEF StartupFails
        <5>2. /\ stage' = [stage EXCEPT ![i] = "backoff"]
              /\ UNCHANGED <<ended, stop, shutdown>>
          BY <5>1, <4>3 DEF AttemptFailed
        <5> QED BY <3>0, <4>1, <5>2, LiveStepSafe DEF TypeOK, Stages
      <4> QED BY <4>2, <4>3
    <3>3. CASE StartupTimesOut(i)
      <4>1. stage[i] # "none" /\ UNCHANGED managerVars
        BY <3>3 DEF StartupTimesOut
      <4>2. CASE Finish(i)
        BY <3>0, <4>1, <4>2, FinishSafe
      <4>3. CASE ~Finish(i)
        <5>1. /\ stage' = [stage EXCEPT ![i] = "backoff"]
              /\ UNCHANGED <<ended, stop, shutdown>>
          BY <3>3, <4>3 DEF StartupTimesOut, AttemptFailed
        <5> QED BY <3>0, <4>1, <5>1, LiveStepSafe DEF TypeOK, Stages
      <4> QED BY <4>2, <4>3
    <3>4. CASE StartupManages(i)
      BY <3>0, <3>4, LiveStepSafe DEF StartupManages, TypeOK, Stages
    <3>5. CASE StartupStreams(i)
      BY <3>0, <3>5, LiveStepSafe DEF StartupStreams, TypeOK, Stages
    <3>6. CASE TakeShutdown(i)
      BY <3>0, <3>6, LiveStepSafe DEF TakeShutdown, slotVars, TypeOK, Stages
    <3>7. CASE StreamEnds(i)
      BY <3>0, <3>7, LiveStepSafe DEF StreamEnds, slotVars, TypeOK, Stages
    <3>8. CASE ServicesDown(i)
      BY <3>0, <3>8, LiveStepSafe DEF ServicesDown, TypeOK, Stages
    <3>9. CASE SessionReturns(i)
      BY <3>0, <3>9, FinishSafe DEF SessionReturns
    <3>10. CASE ObserveStop(i)
      <4>1. CASE stage[i] = "backoff"
        BY <3>0, <3>10, <4>1, FinishSafe DEF ObserveStop
      <4>2. CASE stage[i] # "backoff"
        <5>1. /\ stop[i] = "sent"
              /\ stop' = [stop EXCEPT ![i] = "seen"]
              /\ shutdown' = [shutdown EXCEPT ![i] = TRUE]
              /\ UNCHANGED <<stage, ended>> /\ UNCHANGED managerVars
          BY <3>10, <4>2 DEF ObserveStop
        <5>2. /\ \A j \in Ids : stop'[j] = IF j = i THEN "seen" ELSE stop[j]
              /\ \A j \in Ids : shutdown[j] => shutdown'[j]
              /\ shutdown'[i]
          BY <5>1 DEF TypeOK
        <5>3. TaskAccounting' /\ FocusRegistered'
          BY <5>1 DEF managerVars, Safe, TaskAccounting, FocusRegistered, Reported
        <5>4. RunningStoppable'
          BY <5>1, <5>2 DEF managerVars, Safe, RunningStoppable
        <5>5. ManagementAwaitsStop'
          BY <5>1, <5>2 DEF managerVars, Safe, ManagementAwaitsStop, Reported
        <5> QED BY <5>3, <5>4, <5>5 DEF Safe
      <4> QED BY <4>1, <4>2
    <3> QED BY <2>10, <3>1, <3>2, <3>3, <3>4, <3>5, <3>6, <3>7, <3>8, <3>9,
               <3>10 DEF Task, StartupEnds
  <2>11. CASE UNCHANGED vars
    BY <2>11 DEF vars, Safe, TaskAccounting, RunningStoppable,
                 ManagementAwaitsStop, FocusRegistered, Reported
  <2> QED BY <2>1, <2>2, <2>3, <2>4, <2>5, <2>6, <2>7, <2>8, <2>9, <2>10,
             <2>11 DEF Next, Manager, Request
<1> QED BY <1>1, <1>2, TypeCorrect, StopIsFinal, PTL DEF Spec

\* No notice is lost or doubled: `running` tells which selections have a task.
THEOREM AccountingHolds == Spec => []TaskAccounting
BY SafeInvariant, PTL DEF Safe

\* Every running task can be reached and stopped through the session map.
THEOREM StoppableHolds == Spec => []RunningStoppable
BY SafeInvariant, PTL DEF Safe

\* A waiting management action waits for a task that was told to stop.
THEOREM ManagementHolds == Spec => []ManagementAwaitsStop
BY SafeInvariant, PTL DEF Safe

\* The focused selection is registered.
THEOREM FocusHolds == Spec => []FocusRegistered
BY SafeInvariant, PTL DEF Safe

-----------------------------------------------------------------------------
(***************************************************************************)
(* Transports and removal.                                                 *)
(***************************************************************************)

\* No step but a scan starts a selection.
LEMMA OnlyScansStart ==
    ASSUME Next
    PROVE  Tick \/ running' \subseteq running
<1>1. CASE \E r \in Requests : Request(r)
  BY <1>1 DEF Request, Connect, Disconnect, Reconnect, Manage
<1>2. CASE Quit \/ Ended \/ QuitEnded \/ QuitDone
  BY <1>2 DEF Quit, Ended, QuitEnded, QuitDone
<1>3. ASSUME NEW i \in Ids, Task(i) PROVE UNCHANGED running
  BY <1>3 DEF Task, StartupEnds, BeginAttempt, StartupFails, StartupTimesOut,
       StartupManages, StartupStreams, TakeShutdown, StreamEnds, ServicesDown,
       SessionReturns, ObserveStop, managerVars
<1> QED BY <1>1, <1>2, <1>3 DEF Next, Manager

\* As long as discovery keeps reporting the endpoints in use, no device is
\* ever run over two transports at once: running_selection_for_udid sees every
\* running selection, and the admission of one scan takes one per device.
THEOREM OneTransport ==
    ASSUME ~DiscoveryLosesLive
    PROVE  Spec => []OneTransportPerDevice
<1>1. Init => OneTransportPerDevice
  BY DEF Init, OneTransportPerDevice
<1>2. TypeOK /\ OneTransportPerDevice /\ [Next]_vars => OneTransportPerDevice'
  <2> SUFFICES ASSUME TypeOK, OneTransportPerDevice, [Next]_vars
               PROVE  OneTransportPerDevice'
    OBVIOUS
  <2>1. CASE Tick
    <3>1. PICK scan \in SUBSET Selections, ready \in SUBSET Selections :
             \E won \in SUBSET ready, refused \in SUBSET ready :
                /\ DiscoveryLosesLive \/ running \subseteq scan
                /\ Admitted(ready, scan, won, refused)
                /\ StartAdmitted(won, refused)
      BY <2>1, TickAdmits
    <3>2. PICK won \in SUBSET ready, refused \in SUBSET ready :
             /\ DiscoveryLosesLive \/ running \subseteq scan
             /\ Admitted(ready, scan, won, refused)
             /\ StartAdmitted(won, refused)
      BY <3>1
    <3>3. running \subseteq scan
      BY <3>2
    <3>4. running' = running \cup won
      BY <3>2 DEF StartAdmitted
    <3>5. \A i, j \in won : i[1] = j[1] => i = j
      BY <3>2 DEF Admitted
    <3>6. \A i \in won : \A j \in running : i[1] # j[1]
      BY <3>2, <3>3 DEF Admitted, RunningSelectionsFor
    <3> QED BY <3>4, <3>5, <3>6 DEF OneTransportPerDevice
  <2>2. CASE running' \subseteq running
    BY <2>2 DEF OneTransportPerDevice
  <2> QED BY <2>1, <2>2, OnlyScansStart DEF vars
<1> QED BY <1>1, <1>2, TypeCorrect, PTL DEF Spec

\* A session leaves the registry only by trust removal, and only when its task
\* has ended and been accounted for.
THEOREM RemovalWaits == Spec => RemovalAfterTask
<1>1. TypeOK /\ Safe /\ [Next]_vars =>
         [\A i \in sessions \ sessions' : stage[i] = "none" /\ i \notin running']_vars
  <2> SUFFICES ASSUME TypeOK, Safe, Next, NEW i \in sessions \ sessions'
               PROVE  stage[i] = "none" /\ i \notin running'
    OBVIOUS
  <2> USE DEF IInv
  <2>1. ASSUME NEW r \in Requests, Connect(r) \/ Disconnect(r) \/ Reconnect(r)
        PROVE  FALSE
    BY <2>1 DEF Connect, Disconnect, Reconnect
  <2>2. ASSUME NEW r \in Requests, NEW action \in ManagementActions, Manage(r, action)
        PROVE  stage[i] = "none" /\ i \notin running'
    <3> DEFINE k == IF action = "unmount" THEN Resolve(r) ELSE r
               dropped == IF action = "unmount" THEN {k} ELSE {}
    <3>1. k \in Ids
      BY ResolveType, RequestsAssumption
    <3>2. ~MustWait(k)
      BY <2>2 DEF Manage
    <3>3. /\ PerformManagement(k, action, pendingConnect \ dropped)
          /\ running' = running /\ mgr = "running" /\ k \notin running
      BY <2>2, <3>2 DEF Manage, MustWait
    <3> HIDE DEF k, dropped
    <3>4. i = k
      BY <3>1, <3>3, PerformSafe
    <3> QED BY <3>1, <3>3, <3>4 DEF Safe, TaskAccounting
  <2>3. CASE Ended
    <3> DEFINE k == Head(ended)
    <3>1. mgr = "running" /\ ended # <<>> /\ running' = running \ {k}
      BY <2>3 DEF Ended
    <3>2. Distinct(ended) /\ ended \in Seq(Ids)
      BY <3>1 DEF Safe, TaskAccounting, TypeOK
    <3>3. k \in Ids /\ k \in Reported
      BY <3>1, <3>2, TakeNotice DEF Reported
    <3>4. PerformManagement(k, pendingManagement[k], pendingConnect)
      BY <2>3 DEF Ended
    <3> HIDE DEF k
    <3>5. i = k
      BY <3>3, <3>4, PerformSafe
    <3> QED BY <3>1, <3>3, <3>5 DEF Safe, TaskAccounting
  <2>4. CASE Tick
    BY <2>4, TickAdmits DEF StartAdmitted
  <2>5. CASE Quit \/ QuitEnded \/ QuitDone
    BY <2>5 DEF Quit, QuitEnded, QuitDone
  <2>6. ASSUME NEW j \in Ids, Task(j) PROVE UNCHANGED sessions
    BY <2>6 DEF Task, StartupEnds, BeginAttempt, StartupFails, StartupTimesOut,
       StartupManages, StartupStreams, TakeShutdown, StreamEnds, ServicesDown,
       SessionReturns, ObserveStop, managerVars
  <2> QED BY <2>1, <2>2, <2>3, <2>4, <2>5, <2>6 DEF Next, Manager, Request
<1> QED BY <1>1, TypeCorrect, SafeInvariant, PTL DEF Spec, RemovalAfterTask

-----------------------------------------------------------------------------
(***************************************************************************)
(* The published phase.                                                    *)
(***************************************************************************)

\* The task of one selection publishes the phase of its new stage; the other
\* selections keep theirs.
LEMMA TaskPhase ==
    ASSUME TypeOK, PhaseTruthful, NEW i \in Ids, mgr' = mgr,
           NEW s, NEW p,
           stage' = [stage EXCEPT ![i] = s], phase' = [phase EXCEPT ![i] = p],
           LivePhase(i)'
    PROVE  PhaseTruthful'
<1>1. \A j \in Ids : j # i => stage'[j] = stage[j] /\ phase'[j] = phase[j]
  BY DEF TypeOK
<1> QED BY <1>1 DEF PhaseTruthful, LivePhase

\* The manager writes phases only of selections without a task, and only those
\* that fit a selection without one.
LEMMA IdlePhase ==
    ASSUME TypeOK, PhaseTruthful, NEW i \in Ids, mgr # "stopped",
           stage' = stage, stage[i] = "none",
           NEW p \in {"discovered", "connecting", "disconnected"},
           phase' = [phase EXCEPT ![i] = p]
    PROVE  PhaseTruthful'
<1>1. \A j \in Ids : phase'[j] = IF j = i THEN p ELSE phase[j]
  BY DEF TypeOK
<1> QED BY <1>1 DEF PhaseTruthful, LivePhase

\* What leaves phases and stages alone leaves them truthful.
LEMMA SamePhase ==
    ASSUME PhaseTruthful, mgr # "stopped", stage' = stage, phase' = phase
    PROVE  PhaseTruthful'
BY DEF PhaseTruthful, LivePhase

\* Management actions write the phase of a selection without a task.
LEMMA PerformPhase ==
    ASSUME TypeOK, PhaseTruthful, NEW i \in Ids, NEW action, NEW queue,
           mgr # "stopped", stage' = stage, stage[i] = "none",
           PerformManagement(i, action, queue)
    PROVE  PhaseTruthful'
<1>1. \/ phase' = phase
      \/ phase' = [phase EXCEPT ![i] = "connecting"]
      \/ phase' = [phase EXCEPT ![i] = "disconnected"]
  BY DEF PerformManagement
<1> QED BY <1>1, IdlePhase, SamePhase

\* A task that ends publishes "disconnected".
LEMMA FinishPhase ==
    ASSUME TypeOK, PhaseTruthful, NEW i \in Ids, Finish(i), mgr' = mgr
    PROVE  PhaseTruthful'
<1>1. stage'[i] = "none" /\ phase'[i] = "disconnected"
  BY DEF Finish, TypeOK
<1>2. LivePhase(i)'
  BY <1>1 DEF LivePhase
<1> QED BY <1>2, TaskPhase DEF Finish

\* A scan refuses no selection that runs: the only running selection of its
\* device is itself.
LEMMA RefusedIdle ==
    ASSUME OneTransportPerDevice, NEW scan, running \subseteq scan,
           NEW ready, NEW won, NEW refused, Admitted(ready, scan, won, refused)
    PROVE  refused \cap running = {}
<1>1. \A i \in running : RunningSelectionsFor(i[1], scan) = {i}
  BY DEF RunningSelectionsFor, OneTransportPerDevice
<1> QED BY <1>1 DEF Admitted

\* A scan publishes "disconnected" for what it refuses and leaves the phase of
\* what it starts to the new task.
LEMMA TickPhase ==
    ASSUME IInv, PhaseTruthful, OneTransportPerDevice, ~DiscoveryLosesLive, Tick
    PROVE  PhaseTruthful'
<1>1. PICK scan \in SUBSET Selections, ready \in SUBSET Selections :
         \E won \in SUBSET ready, refused \in SUBSET ready :
            /\ DiscoveryLosesLive \/ running \subseteq scan
            /\ ready \subseteq scan
            /\ Admitted(ready, scan, won, refused)
            /\ StartAdmitted(won, refused)
  BY TickAdmits DEF IInv
<1>2. PICK won \in SUBSET ready, refused \in SUBSET ready :
         /\ running \subseteq scan /\ ready \subseteq scan
         /\ Admitted(ready, scan, won, refused)
         /\ StartAdmitted(won, refused)
  BY <1>1
<1>3. mgr = "running" /\ mgr' = mgr
  BY DEF Tick
<1>4. refused \cap running = {}
  BY <1>2, RefusedIdle
<1>5. won \cap running = {}
  <2>1. \A i \in won : i \in scan /\ RunningSelectionsFor(i[1], scan) = {}
    BY <1>2 DEF Admitted
  <2> QED BY <2>1 DEF RunningSelectionsFor
<1>6. \A i \in Ids : i \in won \cup refused => stage[i] = "none"
  BY <1>3, <1>4, <1>5 DEF IInv, Safe, TaskAccounting
<1>7. /\ \A i \in Ids : stage'[i] = IF i \in won THEN "spawned" ELSE stage[i]
      /\ \A i \in Ids : phase'[i] = IF i \in refused THEN "disconnected" ELSE phase[i]
  BY <1>2 DEF StartAdmitted
<1>8. ASSUME NEW i \in Ids PROVE LivePhase(i)'
  <2>1. LivePhase(i)
    BY <1>3 DEF PhaseTruthful
  <2>2. CASE i \in won
    <3>1. stage[i] = "none" /\ stage'[i] = "spawned"
      BY <2>2, <1>6, <1>7
    <3>2. phase'[i] \in {"discovered", "connecting", "disconnected"}
      BY <2>1, <3>1, <1>7 DEF LivePhase
    <3> QED BY <3>1, <3>2 DEF LivePhase
  <2>3. CASE i \notin won
    <3>1. stage'[i] = stage[i]
      BY <2>3, <1>7
    <3> QED BY <2>1, <3>1, <1>6, <1>7 DEF LivePhase
  <2> QED BY <2>2, <2>3
<1> QED BY <1>8 DEF PhaseTruthful

\* What a client reads as the phase of a session is what its task is doing,
\* as long as discovery keeps reporting the endpoints in use: Connect,
\* Disconnect, the management actions and a refused transport write the slot
\* only of selections that have no task.
THEOREM PhaseHolds ==
    ASSUME ~DiscoveryLosesLive
    PROVE  Spec => []PhaseTruthful
<1>1. Init => PhaseTruthful
  BY DEF Init, PhaseTruthful, LivePhase
<1>2. TypeOK /\ Safe /\ NoTaskAfterStop /\ OneTransportPerDevice /\ PhaseTruthful
         /\ [Next]_vars => PhaseTruthful'
  <2> SUFFICES ASSUME TypeOK, Safe, NoTaskAfterStop, OneTransportPerDevice,
                      PhaseTruthful, [Next]_vars
               PROVE  PhaseTruthful'
    OBVIOUS
  <2>0. ASSUME NEW i \in Ids, mgr = "running", i \notin running
        PROVE  stage[i] = "none"
    BY <2>0 DEF Safe, TaskAccounting
  <2>1. ASSUME NEW r \in Requests, Connect(r) PROVE PhaseTruthful'
    <3> DEFINE i == Resolve(r)
    <3>1. i \in Ids
      BY ResolveType, RequestsAssumption
    <3>2. mgr = "running" /\ mgr' = mgr /\ stage' = stage /\ phase' = ConnectPhase(i)
      BY <2>1 DEF Connect
    <3> HIDE DEF i
    <3> QED BY <3>1, <3>2, <2>0, IdlePhase, SamePhase DEF ConnectPhase
  <2>2. ASSUME NEW r \in Requests, Disconnect(r) PROVE PhaseTruthful'
    <3> DEFINE i == Resolve(r)
    <3>1. i \in Ids
      BY ResolveType, RequestsAssumption
    <3>2. /\ mgr = "running" /\ stage' = stage
          /\ phase' = IF i \in sessions \ running
                      THEN [phase EXCEPT ![i] = "disconnected"] ELSE phase
      BY <2>2 DEF Disconnect
    <3> HIDE DEF i
    <3> QED BY <3>1, <3>2, <2>0, IdlePhase, SamePhase
  <2>3. ASSUME NEW r \in Requests, Reconnect(r) PROVE PhaseTruthful'
    BY <2>3, SamePhase DEF Reconnect
  <2>4. ASSUME NEW r \in Requests, NEW action \in ManagementActions, Manage(r, action)
        PROVE  PhaseTruthful'
    <3> DEFINE i == IF action = "unmount" THEN Resolve(r) ELSE r
               dropped == IF action = "unmount" THEN {i} ELSE {}
    <3>1. i \in Ids
      BY ResolveType, RequestsAssumption
    <3>2. mgr = "running" /\ stage' = stage
      BY <2>4 DEF Manage
    <3>3. CASE MustWait(i)
      BY <2>4, <3>2, <3>3, SamePhase DEF Manage
    <3>4. CASE ~MustWait(i)
      <4>1. PerformManagement(i, action, pendingConnect \ dropped)
        BY <2>4, <3>4 DEF Manage
      <4>2. i \notin running
        BY <3>4 DEF MustWait
      <4> HIDE DEF i, dropped
      <4> QED BY <4>1, <4>2, <3>1, <3>2, <2>0, PerformPhase
    <3> QED BY <3>3, <3>4
  <2>5. CASE Quit
    BY <2>5, SamePhase DEF Quit
  <2>6. CASE Ended
    <3> DEFINE i == Head(ended)
    <3>1. mgr = "running" /\ stage' = stage /\ ended # <<>>
      BY <2>6 DEF Ended
    <3>2. Distinct(ended) /\ ended \in Seq(Ids)
      BY <3>1 DEF Safe, TaskAccounting, TypeOK
    <3>3. i \in Ids /\ i \in Reported
      BY <3>1, <3>2, TakeNotice DEF Reported
    <3>4. \/ phase' = phase
          \/ PerformManagement(i, pendingManagement[i], pendingConnect)
      BY <2>6 DEF Ended
    <3> HIDE DEF i
    <3>5. stage[i] = "none"
      BY <3>1, <3>3 DEF Safe, TaskAccounting
    <3> QED BY <3>1, <3>3, <3>4, <3>5, PerformPhase, SamePhase
  <2>7. CASE Tick
    BY <2>7, TickPhase DEF IInv
  <2>8. CASE QuitEnded
    BY <2>8, SamePhase DEF QuitEnded, slotVars
  <2>9. CASE QuitDone
    BY <2>9 DEF QuitDone, PhaseTruthful
  <2>10. ASSUME NEW i \in Ids, Task(i) PROVE PhaseTruthful'
    <3>0. mgr' = mgr
      BY <2>10 DEF Task, StartupEnds, BeginAttempt, StartupFails, StartupTimesOut,
         StartupManages, StartupStreams, TakeShutdown, StreamEnds, ServicesDown,
         SessionReturns, ObserveStop, managerVars
    <3>1. ASSUME NEW s \in Stages, NEW p \in Phases,
                 stage' = [stage EXCEPT ![i] = s], phase' = [phase EXCEPT ![i] = p],
                 \/ s = "starting" /\ p = "connecting"
                 \/ s \in {"managing", "streaming", "closing"} /\ p = "connected"
                 \/ s = "stopping" /\ p = "disconnecting"
                 \/ s = "backoff" /\ p = "recovering"
          PROVE  PhaseTruthful'
      <4>1. stage'[i] = s /\ phase'[i] = p
        BY <3>1 DEF TypeOK
      <4>2. LivePhase(i)'
        BY <3>1, <4>1 DEF LivePhase
      <4> QED BY <3>0, <3>1, <4>2, TaskPhase
    <3>2. ASSUME stage[i] \in {"managing", "streaming"}, phase' = phase,
                 stage' = [stage EXCEPT ![i] = "closing"], mgr # "stopped"
          PROVE  PhaseTruthful'
      <4>1. phase[i] = "connected"
        BY <3>2 DEF PhaseTruthful, LivePhase
      <4>2. phase' = [phase EXCEPT ![i] = "connected"]
        BY <3>2, <4>1 DEF TypeOK
      <4> QED BY <3>1, <3>2, <4>2 DEF Stages, Phases
    <3>3. ASSUME NEW reauthorize, AttemptFailed(i, reauthorize)
          PROVE  PhaseTruthful'
      BY <3>0, <3>1, <3>3, FinishPhase DEF AttemptFailed, Stages, Phases
    <3>4. mgr # "stopped"
      BY <2>10, TaskIsLive DEF IInv, NoTaskAfterStop
    <3>5. CASE BeginAttempt(i)
      BY <3>1, <3>5 DEF BeginAttempt, Stages, Phases
    <3>6. CASE StartupEnds(i)
      BY <3>0, <3>1, <3>3, <3>6, FinishPhase
         DEF StartupEnds, StartupFails, StartupManages, StartupStreams, Stages, Phases
    <3>7. CASE StartupTimesOut(i)
      BY <3>3, <3>7 DEF StartupTimesOut
    <3>8. CASE TakeShutdown(i) \/ StreamEnds(i)
      BY <3>2, <3>4, <3>8 DEF TakeShutdown, StreamEnds, slotVars
    <3>9. CASE ServicesDown(i)
      BY <3>1, <3>9 DEF ServicesDown, Stages, Phases
    <3>10. CASE SessionReturns(i)
      BY <3>0, <3>10, FinishPhase DEF SessionReturns
    <3>11. CASE ObserveStop(i)
      BY <3>0, <3>4, <3>11, FinishPhase, SamePhase DEF ObserveStop
    <3> QED BY <2>10, <3>5, <3>6, <3>7, <3>8, <3>9, <3>10, <3>11 DEF Task
  <2>11. CASE UNCHANGED vars
    BY <2>11 DEF vars, PhaseTruthful, LivePhase
  <2> QED BY <2>1, <2>2, <2>3, <2>4, <2>5, <2>6, <2>7, <2>8, <2>9, <2>10,
             <2>11 DEF Next, Manager, Request
<1> QED BY <1>1, <1>2, TypeCorrect, SafeInvariant, StopIsFinal, OneTransport,
       PTL DEF Spec
-----------------------------------------------------------------------------
(***************************************************************************)
(* Refinement: the manager implements SessionLife.                         *)
(***************************************************************************)

\* What a selection is used for depends on its task and on the accounting.
LEMMA UsedIs ==
    ASSUME NEW i \in Ids
    PROVE  /\ Used[i] = "session" <=> stage[i] # "none"
           /\ Used[i] = "over" <=> stage[i] = "none" /\ i \in running
           /\ Used[i] = "free" <=> stage[i] = "none" /\ i \notin running
           /\ Told[i] <=> stage[i] # "none" /\ stop[i] \in {"sent", "seen"}
BY DEF Used, UseOf, Told

LEMMA SameUse ==
    ASSUME stage' = stage, running' = running
    PROVE  Used' = Used
BY DEF Used, UseOf

LEMMA SameTold ==
    ASSUME stage' = stage, stop' = stop
    PROVE  Told' = Told
BY DEF Told

\* While the manager runs, a selection that is not accounted as running is
\* free and nobody has told it anything.
LEMMA IdleIsFree ==
    ASSUME Safe, mgr # "stopped", NEW i \in Ids
    PROVE  Used[i] = "free" <=> i \notin running
BY UsedIs DEF Safe, TaskAccounting

\* Stopping sessions tells those that are alive.
LEMMA StopTells ==
    ASSUME TypeOK, Safe, mgr # "stopped", NEW S, StopSessions(S), stage' = stage
    PROVE  Life!Tell(S)
<1>1. ASSUME NEW i \in Ids
      PROVE  Told'[i] = (Told[i] \/ (i \in S /\ Used[i] = "session"))
  <2>1. stop'[i] = IF i \in S /\ stop[i] = "armed" THEN "sent" ELSE stop[i]
    BY StopEffect
  <2>2. stage[i] # "none" => stop[i] \in {"armed", "sent", "seen"}
    BY DEF Safe, RunningStoppable, TypeOK
  <2>3. Told[i] = (stage[i] # "none" /\ stop[i] \in {"sent", "seen"})
    BY DEF Told
  <2>4. Told'[i] = (stage[i] # "none" /\ stop'[i] \in {"sent", "seen"})
    BY DEF Told
  <2>5. CASE stage[i] = "none"
    BY <2>3, <2>4, <2>5, UsedIs
  <2>6. CASE stage[i] # "none" /\ i \in S
    <3>1. Told'[i] = TRUE
      BY <2>1, <2>2, <2>4, <2>6
    <3> QED BY <3>1, <2>6, UsedIs
  <2>7. CASE stage[i] # "none" /\ i \notin S
    BY <2>1, <2>3, <2>4, <2>7
  <2> QED BY <2>5, <2>6, <2>7
<1>2. Told' = [i \in Ids |-> Told[i] \/ (i \in S /\ Used[i] = "session")]
  BY <1>1 DEF Told
<1> QED BY <1>2 DEF Life!Tell
\* A management action has the effect that was promised.
LEMMA PerformEffect ==
    ASSUME TypeOK, NEW i \in Ids, NEW action \in ManagementActions, NEW queue,
           PerformManagement(i, action, queue)
    PROVE  Life!Effect(i, action)
<1>1. CASE action = "pair"
  BY <1>1 DEF PerformManagement, Life!Effect
<1>2. CASE action = "forget"
  BY <1>2 DEF PerformManagement, Life!Effect
<1>3. CASE action = "unmount"
  BY <1>3 DEF PerformManagement, Life!Effect
<1> QED BY <1>1, <1>2, <1>3 DEF ManagementActions

\* A client's command asks for what SessionLife lets a client ask for.
LEMMA RequestAsks ==
    ASSUME TypeOK, Safe, NEW r \in Requests, Request(r)
    PROVE  \E i \in Ids : Life!Asks(i)
<1>1. ASSUME NEW i \in Ids PROVE Used[i] = "free" <=> i \notin running
  BY IdleIsFree DEF Request, Connect, Disconnect, Reconnect, Manage
<1>2. mgr = "running" /\ mgr' = mgr /\ stage' = stage /\ running' = running
  BY DEF Request, Connect, Disconnect, Reconnect, Manage
<1>3. Used' = Used
  BY <1>2, SameUse
<1>4. r \in Ids /\ Resolve(r) \in Ids
  BY RequestsAssumption, ResolveType
<1>5. CASE Connect(r)
  <2> DEFINE i == Resolve(r)
  <2>1. stop' = stop /\ pendingManagement' = pendingManagement
        /\ sessions' = sessions \cup {i} /\ phase' = ConnectPhase(i)
    BY <1>5 DEF Connect
  <2> HIDE DEF i
  <2>2. i \in Ids
    BY <1>4 DEF i
  <2>3. Told' = Told
    BY <2>1, <1>2, SameTold
  <2>4. phase' = IF Used[i] = "free" THEN [phase EXCEPT ![i] = "discovered"] ELSE phase
    BY <2>1, <2>2, <1>1 DEF ConnectPhase
  <2>5. Life!Wish(i)
    BY <2>1, <2>3, <2>4, <1>3 DEF Life!Wish
  <2> QED BY <2>2, <2>5, <1>2 DEF Life!Asks
<1>6. CASE Disconnect(r)
  <2> DEFINE i == Resolve(r)
  <2>1. /\ pendingManagement' = pendingManagement /\ sessions' = sessions
        /\ StopSessions(sessions \cap {i})
        /\ phase' = IF i \in sessions \ running
                    THEN [phase EXCEPT ![i] = "disconnected"] ELSE phase
    BY <1>6 DEF Disconnect
  <2> HIDE DEF i
  <2>2. i \in Ids
    BY <1>4 DEF i
  <2>3. Life!Tell(sessions \cap {i})
    BY <2>1, <1>2, StopTells
  <2>4. i \in Ids /\ Used[i] = "session" => i \in sessions
    BY <2>2, <1>2, UsedIs DEF Safe, TaskAccounting, RunningStoppable
  <2>5. Life!Tell({i})
    BY <2>3, <2>4 DEF Life!Tell
  <2>6. phase' = IF Used[i] = "free" /\ i \in sessions
                 THEN [phase EXCEPT ![i] = "disconnected"] ELSE phase
    BY <2>1, <2>2, <1>1
  <2>7. Life!Drop(i)
    BY <2>1, <2>5, <2>6, <1>3 DEF Life!Drop
  <2> QED BY <2>2, <2>7, <1>2 DEF Life!Asks
<1>7. CASE Reconnect(r)
  <2> DEFINE i == Resolve(r)
  <2>1. /\ pendingManagement' = pendingManagement /\ phase' = phase
        /\ sessions' = sessions \cup {i}
        /\ StopSessions(running \cap {i})
    BY <1>7 DEF Reconnect
  <2> HIDE DEF i
  <2>2. i \in Ids
    BY <1>4 DEF i
  <2>3. Life!Tell(running \cap {i})
    BY <2>1, <1>2, StopTells
  <2>4. Used[i] = "session" => i \in running
    BY <2>2, <1>2, UsedIs DEF Safe, TaskAccounting
  <2>5. Life!Tell({i})
    BY <2>3, <2>4 DEF Life!Tell
  <2>6. Life!Renew(i)
    BY <2>1, <2>5, <1>3 DEF Life!Renew
  <2> QED BY <2>2, <2>6, <1>2 DEF Life!Asks
<1>8. ASSUME NEW action \in ManagementActions, Manage(r, action)
      PROVE  \E i \in Ids : Life!Asks(i)
  <2> DEFINE i == IF action = "unmount" THEN Resolve(r) ELSE r
             dropped == IF action = "unmount" THEN {i} ELSE {}
  <2>1. i \in Ids
    BY <1>4
  <2>2. CASE MustWait(i)
    <3>1. /\ sessions' = sessions \cup {i} /\ phase' = phase
          /\ pendingManagement' = [pendingManagement EXCEPT ![i] = action]
          /\ StopSessions({i})
      BY <1>8, <2>2 DEF Manage
    <3>2. Used[i] # "free"
      BY <2>1, <2>2, <1>1 DEF MustWait
    <3> HIDE DEF i, dropped
    <3>3. Life!Tell({i})
      BY <3>1, <1>2, StopTells
    <3>4. Life!ActLater(i, action)
      BY <3>1, <3>2, <3>3, <1>3 DEF Life!ActLater
    <3> QED BY <2>1, <3>4, <1>2 DEF Life!Asks
  <2>3. CASE ~MustWait(i)
    <3>1. /\ PerformManagement(i, action, pendingConnect \ dropped)
          /\ pendingManagement' = pendingManagement /\ stop' = stop
      BY <1>8, <2>3 DEF Manage
    <3>2. Used[i] = "free"
      BY <2>1, <2>3, <1>1 DEF MustWait
    <3> HIDE DEF i, dropped
    <3>3. Life!Effect(i, action) /\ Told' = Told
      BY <3>1, <2>1, <1>2, PerformEffect, SameTold
    <3>4. Life!ActNow(i, action)
      BY <3>1, <3>2, <3>3, <1>3 DEF Life!ActNow
    <3> QED BY <2>1, <3>4, <1>2 DEF Life!Asks
  <2> QED BY <2>2, <2>3
<1> QED BY <1>5, <1>6, <1>7, <1>8 DEF Request
\* The oldest notice is of a selection whose session is over.
LEMMA NoticeIsOver ==
    ASSUME TypeOK, Safe, mgr # "stopped", ended # <<>>
    PROVE  Head(ended) \in Ids /\ Used[Head(ended)] = "over"
<1>1. Distinct(ended) /\ ended \in Seq(Ids)
  BY DEF Safe, TaskAccounting, TypeOK
<1>2. Head(ended) \in Ids /\ Head(ended) \in Reported
  BY <1>1, TakeNotice DEF Reported
<1> QED BY <1>2, UsedIs DEF Safe, TaskAccounting

\* Taking a selection off the running ones frees it.
LEMMA FreeOne ==
    ASSUME NEW i \in Ids, Used[i] = "over", stage' = stage, running' = running \ {i}
    PROVE  Used' = [Used EXCEPT ![i] = "free"]
<1>1. stage[i] = "none" /\ i \in running
  BY UsedIs
<1>2. \A j \in Ids : UseOf(j)' = IF j = i THEN "free" ELSE UseOf(j)
  BY <1>1 DEF UseOf
<1> QED BY <1>2 DEF Used

\* An end notice is accounted for together with the action that waits for it.
LEMMA EndedAccounts ==
    ASSUME TypeOK, Safe, Ended
    PROVE  \E i \in Ids : Life!Account(i)
<1> DEFINE i == Head(ended)
<1>1. /\ mgr = "running" /\ mgr' = mgr /\ ended # <<>>
      /\ stage' = stage /\ stop' = stop
      /\ running' = running \ {i}
      /\ pendingManagement' = [pendingManagement EXCEPT ![i] = "none"]
  BY DEF Ended
<1>2. \/ /\ pendingManagement[i] # "none" /\ i \in sessions
         /\ PerformManagement(i, pendingManagement[i], pendingConnect)
      \/ /\ ~(pendingManagement[i] # "none" /\ i \in sessions)
         /\ sessions' = sessions /\ phase' = phase
  BY DEF Ended
<1>3. i \in Ids /\ Used[i] = "over"
  BY <1>1, NoticeIsOver
<1> HIDE DEF i
<1>4. i \in running
  BY <1>3, UsedIs
<1>5. i \in sessions
  BY <1>4 DEF Safe, RunningStoppable
<1>6. Used' = [Used EXCEPT ![i] = "free"] /\ Told' = Told
  BY <1>1, <1>3, FreeOne, SameTold
<1>7. IF pendingManagement[i] = "none" THEN UNCHANGED <<sessions, phase>>
      ELSE Life!Effect(i, pendingManagement[i])
  <2>1. CASE pendingManagement[i] = "none"
    BY <2>1, <1>2
  <2>2. CASE pendingManagement[i] # "none"
    <3>1. pendingManagement[i] \in ManagementActions
      BY <2>2, <1>3 DEF TypeOK
    <3>2. PerformManagement(i, pendingManagement[i], pendingConnect)
      BY <2>2, <1>2, <1>5
    <3> QED BY <2>2, <3>1, <3>2, <1>3, PerformEffect
  <2> QED BY <2>1, <2>2
<1>8. Life!Account(i)
  BY <1>1, <1>3, <1>6, <1>7 DEF Life!Account
<1> QED BY <1>3, <1>8

\* A scan starts what it may start: with reliable discovery one session for
\* each device that has none.
LEMMA TickStarts ==
    ASSUME TypeOK, Safe, DiscoveryLosesLive \/ OneTransportPerDevice, Tick
    PROVE  \E won, refused \in SUBSET Ids : Life!Start(won, refused)
<1>1. PICK scan \in SUBSET Selections, ready \in SUBSET Selections :
         \E won \in SUBSET ready, refused \in SUBSET ready :
            /\ DiscoveryLosesLive \/ running \subseteq scan
            /\ Admitted(ready, scan, won, refused)
            /\ StartAdmitted(won, refused)
            /\ ready \subseteq scan
  BY TickAdmits
<1>2. PICK won \in SUBSET ready, refused \in SUBSET ready :
         /\ DiscoveryLosesLive \/ running \subseteq scan
         /\ Admitted(ready, scan, won, refused)
         /\ StartAdmitted(won, refused)
         /\ ready \subseteq scan
  BY <1>1
<1>3. mgr = "running" /\ mgr' = mgr /\ pendingManagement' = pendingManagement
  BY DEF Tick
<1>4. won \subseteq Ids /\ refused \subseteq Ids
  BY TransportsAssumption DEF Selections, Ids
<1>5. /\ \A i \in won : RunningSelectionsFor(i[1], scan) = {}
      /\ \A i, j \in won : i[1] = j[1] => i = j
      /\ won \subseteq scan
  BY <1>2 DEF Admitted
<1>6. \A i \in won : i \notin running
  BY <1>5 DEF RunningSelectionsFor
<1>7. ASSUME NEW i \in Ids PROVE Used[i] = "free" <=> i \notin running
  BY <1>3, IdleIsFree
<1>8. /\ running' = running \cup won /\ sessions' = sessions \cup won \cup refused
      /\ phase' = [i \in Ids |-> IF i \in refused THEN "disconnected" ELSE phase[i]]
      /\ stage' = [i \in Ids |-> IF i \in won THEN "spawned" ELSE stage[i]]
      /\ stop' = [i \in Ids |-> IF i \in won THEN "armed" ELSE stop[i]]
  BY <1>2 DEF StartAdmitted
<1>9. Used' = [i \in Ids |-> IF i \in won THEN "session" ELSE Used[i]]
  <2>1. ASSUME NEW i \in Ids PROVE UseOf(i)' = IF i \in won THEN "session" ELSE UseOf(i)
    BY <1>8 DEF UseOf
  <2> QED BY <2>1 DEF Used
<1>10. Told' = Told
  <2>1. ASSUME NEW i \in Ids PROVE Told'[i] = Told[i]
    <3>1. CASE i \in won
      <4>1. Used[i] = "free"
        BY <3>1, <1>6, <1>7
      <4>2. stage[i] = "none"
        BY <4>1, UsedIs
      <4>3. stop'[i] = "armed"
        BY <3>1, <1>8
      <4>4. ~Told[i] /\ ~Told'[i]
        BY <4>2, <4>3 DEF Told
      <4>5. Told[i] \in BOOLEAN /\ Told'[i] \in BOOLEAN
        BY DEF Told
      <4> QED BY <4>4, <4>5
    <3>2. CASE i \notin won
      <4>1. stop'[i] = stop[i] /\ stage'[i] = stage[i]
        BY <3>2, <1>8
      <4> QED BY <4>1 DEF Told
    <3> QED BY <3>1, <3>2
  <2> QED BY <2>1 DEF Told
<1>11. \/ DiscoveryLosesLive
       \/ /\ \A i \in won, j \in Ids : i[1] = j[1] => Used[j] = "free"
          /\ \A i \in refused : Used[i] = "free"
  <2> SUFFICES ASSUME ~DiscoveryLosesLive
               PROVE  /\ \A i \in won, j \in Ids : i[1] = j[1] => Used[j] = "free"
                      /\ \A i \in refused : Used[i] = "free"
    OBVIOUS
  <2>1. running \subseteq scan
    BY <1>2
  <2>2. refused \cap running = {}
    BY <2>1, <1>2, RefusedIdle
  <2>3. \A i \in won : \A j \in running : i[1] # j[1]
    BY <2>1, <1>5 DEF RunningSelectionsFor
  <2> QED BY <2>2, <2>3, <1>4, <1>7
<1> DEFINE device == [i \in Ids |-> i[1]]
<1>12. \A i \in Ids : device[i] = i[1]
  OBVIOUS
<1> HIDE DEF device
<1>13. \A i, j \in won : device[i] = device[j] => i = j
  BY <1>4, <1>5, <1>12
<1>14. \/ DiscoveryLosesLive
       \/ /\ \A i \in won, j \in Ids : device[i] = device[j] => Used[j] = "free"
          /\ \A i \in refused : Used[i] = "free"
  BY <1>4, <1>11, <1>12
<1>15. \A i \in won : Used[i] = "free"
  BY <1>4, <1>6, <1>7
<1>16. Life!Start(won, refused)
  BY <1>3, <1>8, <1>9, <1>10, <1>13, <1>14, <1>15 DEF Life!Start, device
<1> QED BY <1>4, <1>16

\* Quit reaches every session, and what stop_all_sessions does afterwards only
\* counts ends.
LEMMA QuitTells ==
    ASSUME TypeOK, Safe, Quit
    PROVE  Life!TellAll
<1>1. /\ mgr = "running" /\ mgr' = "quitting" /\ stage' = stage /\ running' = running
      /\ sessions' = sessions /\ pendingManagement' = pendingManagement /\ phase' = phase
      /\ StopSessions(running \cap sessions)
  BY DEF Quit
<1>2. Used' = Used
  BY <1>1, SameUse
<1>3. Life!Tell(running \cap sessions)
  BY <1>1, StopTells
<1>4. \A i \in Ids : Used[i] = "session" => i \in running \cap sessions
  BY <1>1, UsedIs DEF Safe, TaskAccounting, RunningStoppable
<1>5. Life!Tell(Ids)
  BY <1>3, <1>4 DEF Life!Tell
<1> QED BY <1>1, <1>2, <1>5 DEF Life!TellAll

LEMMA QuitCounts ==
    ASSUME TypeOK, Safe, QuitEnded
    PROVE  \E i \in Ids : Life!CountDown(i)
<1> DEFINE i == Head(ended)
<1>1. /\ mgr = "quitting" /\ mgr' = mgr /\ ended # <<>>
      /\ stage' = stage /\ stop' = stop /\ running' = running \ {i}
      /\ sessions' = sessions /\ pendingManagement' = pendingManagement /\ phase' = phase
  BY DEF QuitEnded, slotVars
<1>2. i \in Ids /\ Used[i] = "over"
  BY <1>1, NoticeIsOver
<1> HIDE DEF i
<1>3. Used' = [Used EXCEPT ![i] = "free"] /\ Told' = Told
  BY <1>1, <1>2, FreeOne, SameTold
<1>4. Life!CountDown(i)
  BY <1>1, <1>2, <1>3 DEF Life!CountDown
<1> QED BY <1>2, <1>4

LEMMA QuitCloses ==
    ASSUME TypeOK, Safe, QuitDone
    PROVE  Life!Close
<1>1. /\ mgr = "quitting" /\ mgr' = "stopped" /\ running' = running
      /\ sessions' = sessions /\ pendingManagement' = pendingManagement /\ phase' = phase
      /\ stage' = [i \in Ids |-> "none"]
  BY DEF QuitDone, slotVars
<1>2. Used' = [i \in Ids |-> IF Used[i] = "session" THEN "over" ELSE Used[i]]
  <2>1. ASSUME NEW i \in Ids
        PROVE  UseOf(i)' = IF UseOf(i) = "session" THEN "over" ELSE UseOf(i)
    BY <1>1 DEF UseOf, Safe, TaskAccounting
  <2> QED BY <2>1 DEF Used
<1>3. Told' = [i \in Ids |-> FALSE]
  BY <1>1 DEF Told
<1> QED BY <1>1, <1>2, <1>3 DEF Life!Close
\* What a client was shown of a live session fits what its task does, unless
\* discovery loses devices in use.
ShownFits == DiscoveryLosesLive \/ (OneTransportPerDevice /\ PhaseTruthful)

LEMMA ShownFitsHolds == Spec => []ShownFits
<1>1. CASE DiscoveryLosesLive
  <2>1. ShownFits
    BY <1>1 DEF ShownFits
  <2> QED BY <2>1, PTL
<1>2. CASE ~DiscoveryLosesLive
  <2>1. Spec => []OneTransportPerDevice
    BY <1>2, OneTransport
  <2>2. Spec => []PhaseTruthful
    BY <1>2, PhaseHolds
  <2>3. OneTransportPerDevice /\ PhaseTruthful => ShownFits
    BY DEF ShownFits
  <2> QED BY <2>1, <2>2, <2>3, PTL
<1> QED BY <1>1, <1>2

\* A task that lives on keeps the use of its selection.
LEMMA StaysInUse ==
    ASSUME TypeOK, NEW i \in Ids, stage[i] # "none", UNCHANGED managerVars,
           NEW s, s # "none", stage' = [stage EXCEPT ![i] = s]
    PROVE  /\ Used' = Used
           /\ stop' = stop => Told' = Told
<1>1. \A j \in Ids : stage'[j] = IF j = i THEN s ELSE stage[j]
  BY DEF TypeOK
<1>2. running' = running
  BY DEF managerVars
<1>3. \A j \in Ids : UseOf(j)' = UseOf(j)
  BY <1>1, <1>2 DEF UseOf
<1>4. \A j \in Ids : (stage'[j] # "none") = (stage[j] # "none")
  BY <1>1
<1> QED BY <1>3, <1>4 DEF Used, Told

\* The phase that comes with a new stage.
LEMMA StageProceeds ==
    ASSUME TypeOK, NEW i \in Ids, stage[i] # "none", UNCHANGED managerVars,
           NEW s, s # "none", stage' = [stage EXCEPT ![i] = s], stop' = stop,
           NEW before, NEW next, phase[i] \in before \/ DiscoveryLosesLive,
           phase' = [phase EXCEPT ![i] = next]
    PROVE  /\ Life!Publishes(i, before, next)
           /\ UNCHANGED <<mgr, Used, Told, pendingManagement, sessions>>
<1>1. Used' = Used /\ Told' = Told
  BY StaysInUse
<1>2. Used[i] = "session"
  BY UsedIs
<1> QED BY <1>1, <1>2 DEF Life!Publishes, managerVars

\* The end of a task.
LEMMA FinishEnds ==
    ASSUME TypeOK, Safe, mgr # "stopped", NEW i \in Ids, stage[i] # "none",
           UNCHANGED managerVars, Finish(i),
           phase[i] \in {"connecting", "recovering", "disconnecting"} \/ DiscoveryLosesLive
    PROVE  Life!Ends(i)
<1>1. i \in running /\ running' = running
  BY DEF Safe, TaskAccounting, managerVars
<1>2. /\ \A j \in Ids : stage'[j] = IF j = i THEN "none" ELSE stage[j]
      /\ \A j \in Ids : stop'[j] = IF j = i THEN "empty" ELSE stop[j]
      /\ phase' = [phase EXCEPT ![i] = "disconnected"]
  BY DEF Finish, TypeOK
<1>3. Used' = [Used EXCEPT ![i] = "over"]
  <2>1. ASSUME NEW j \in Ids PROVE UseOf(j)' = IF j = i THEN "over" ELSE UseOf(j)
    BY <1>1, <1>2 DEF UseOf
  <2> QED BY <2>1 DEF Used
<1>4. Told' = [Told EXCEPT ![i] = FALSE]
  <2>1. ASSUME NEW j \in Ids, j # i PROVE Told'[j] = Told[j]
    <3>1. stage'[j] = stage[j] /\ stop'[j] = stop[j]
      BY <1>2, <2>1
    <3> QED BY <3>1 DEF Told
  <2>2. Told'[i] = FALSE
    <3>1. stage'[i] = "none"
      BY <1>2
    <3> QED BY <3>1 DEF Told
  <2> QED BY <2>1, <2>2 DEF Told
<1>5. Used[i] = "session"
  BY UsedIs
<1> QED BY <1>1, <1>2, <1>3, <1>4, <1>5 DEF Life!Ends, Life!Publishes, managerVars

\* Every step of a task is a step of the session's life, or invisible.
LEMMA TaskLives ==
    ASSUME TypeOK, Safe, NoTaskAfterStop, ShownFits, NEW i \in Ids, Task(i)
    PROVE  Life!Proceeds(i) \/ Life!Ends(i) \/ UNCHANGED Life!lifeVars
<1>0. /\ stage[i] # "none" /\ mgr # "stopped" /\ UNCHANGED managerVars
  <2>1. UNCHANGED managerVars
    BY DEF Task, StartupEnds, BeginAttempt, StartupFails, StartupTimesOut,
         StartupManages, StartupStreams, TakeShutdown, StreamEnds, ServicesDown,
         SessionReturns, ObserveStop
  <2> QED BY <2>1, TaskIsLive DEF NoTaskAfterStop
<1>1. DiscoveryLosesLive \/ LivePhase(i)
  BY <1>0 DEF ShownFits, PhaseTruthful
<1>2. UNCHANGED <<mgr, pendingManagement, sessions>>
  BY <1>0 DEF managerVars
<1>3. CASE BeginAttempt(i)
  <2>1. /\ stage' = [stage EXCEPT ![i] = "starting"] /\ stop' = stop
        /\ phase' = [phase EXCEPT ![i] = "connecting"]
        /\ stage[i] \in {"spawned", "backoff"}
    BY <1>3 DEF BeginAttempt
  <2> DEFINE before == {"discovered", "disconnected", "connecting", "recovering"}
  <2>2. phase[i] \in before \/ DiscoveryLosesLive
    BY <2>1, <1>1 DEF LivePhase
  <2>3. Life!Publishes(i, before, "connecting") /\ UNCHANGED <<mgr, Used, Told, pendingManagement, sessions>>
    BY <2>1, <2>2, <1>0, StageProceeds
  <2> QED BY <2>3 DEF Life!Proceeds
<1>4. CASE stage[i] = "starting" /\ (StartupFails(i) \/ StartupTimesOut(i))
  <2>1. phase[i] \in {"connecting"} \/ DiscoveryLosesLive
    BY <1>1, <1>4 DEF LivePhase
  <2>2. CASE Finish(i)
    BY <2>1, <2>2, <1>0, FinishEnds
  <2>3. CASE ~Finish(i)
    <3>1. /\ stage' = [stage EXCEPT ![i] = "backoff"] /\ stop' = stop
          /\ phase' = [phase EXCEPT ![i] = "recovering"]
      BY <1>4, <2>3 DEF StartupFails, StartupTimesOut, AttemptFailed
    <3>2. Life!Publishes(i, {"connecting"}, "recovering") /\ UNCHANGED <<mgr, Used, Told, pendingManagement, sessions>>
      BY <3>1, <2>1, <1>0, StageProceeds
    <3> QED BY <3>2 DEF Life!Proceeds
  <2> QED BY <2>2, <2>3
<1>5. CASE StartupManages(i) \/ StartupStreams(i)
  <2>1. PICK s \in {"managing", "streaming"} :
             /\ stage' = [stage EXCEPT ![i] = s] /\ stop' = stop
             /\ phase' = [phase EXCEPT ![i] = "connected"]
             /\ stage[i] = "starting"
    BY <1>5 DEF StartupManages, StartupStreams
  <2>2. phase[i] \in {"connecting"} \/ DiscoveryLosesLive
    BY <2>1, <1>1 DEF LivePhase
  <2>3. Life!Publishes(i, {"connecting"}, "connected") /\ UNCHANGED <<mgr, Used, Told, pendingManagement, sessions>>
    BY <2>1, <2>2, <1>0, StageProceeds
  <2> QED BY <2>3 DEF Life!Proceeds
<1>6. CASE TakeShutdown(i) \/ StreamEnds(i)
  <2>1. stage' = [stage EXCEPT ![i] = "closing"] /\ stop' = stop /\ phase' = phase
    BY <1>6 DEF TakeShutdown, StreamEnds, slotVars
  <2>2. Used' = Used /\ Told' = Told
    BY <2>1, <1>0, StaysInUse
  <2> QED BY <2>1, <2>2, <1>2 DEF Life!lifeVars
<1>7. CASE ServicesDown(i)
  <2>1. /\ stage' = [stage EXCEPT ![i] = "stopping"] /\ stop' = stop
        /\ phase' = [phase EXCEPT ![i] = "disconnecting"]
        /\ stage[i] = "closing"
    BY <1>7 DEF ServicesDown
  <2>2. phase[i] \in {"connected"} \/ DiscoveryLosesLive
    BY <2>1, <1>1 DEF LivePhase
  <2>3. Life!Publishes(i, {"connected"}, "disconnecting") /\ UNCHANGED <<mgr, Used, Told, pendingManagement, sessions>>
    BY <2>1, <2>2, <1>0, StageProceeds
  <2> QED BY <2>3 DEF Life!Proceeds
<1>8. CASE SessionReturns(i)
  <2>1. Finish(i) /\ stage[i] = "stopping"
    BY <1>8 DEF SessionReturns
  <2>2. phase[i] = "disconnecting" \/ DiscoveryLosesLive
    BY <2>1, <1>1 DEF LivePhase
  <2> QED BY <2>1, <2>2, <1>0, FinishEnds
<1>9. CASE ObserveStop(i)
  <2>1. stop[i] = "sent"
    BY <1>9 DEF ObserveStop
  <2>2. CASE stage[i] = "backoff" /\ Finish(i)
    <3>1. phase[i] = "recovering" \/ DiscoveryLosesLive
      BY <2>2, <1>1 DEF LivePhase
    <3> QED BY <2>2, <3>1, <1>0, FinishEnds
  <2>3. CASE stop' = [stop EXCEPT ![i] = "seen"] /\ stage' = stage /\ phase' = phase
    <3>1. Used' = Used
      BY <2>3, <1>0, SameUse DEF managerVars
    <3>2. \A j \in Ids : (stop'[j] \in {"sent", "seen"}) = (stop[j] \in {"sent", "seen"})
      BY <2>1, <2>3 DEF TypeOK
    <3>3. Told' = Told
      BY <3>2, <2>3 DEF Told
    <3> QED BY <3>1, <3>3, <2>3, <1>2 DEF Life!lifeVars
  <2> QED BY <1>9, <2>2, <2>3 DEF ObserveStop
<1> QED BY <1>3, <1>4, <1>5, <1>6, <1>7, <1>8, <1>9
        DEF Task, StartupEnds, StartupFails, StartupTimesOut

\* The session manager and its tasks implement the promised life of a session,
\* for every set of devices, transports and requests.
THEOREM LifeRefined == Spec => LifePromise
<1>1. Init => Life!LifeInit
  <2> SUFFICES ASSUME Init PROVE Life!LifeInit
    OBVIOUS
  <2>1. Used = [i \in Ids |-> "free"]
    BY DEF Init, Used, UseOf
  <2>2. Told = [i \in Ids |-> FALSE]
    BY DEF Init, Told
  <2> QED BY <2>1, <2>2 DEF Init, Life!LifeInit
<1>2. TypeOK /\ Safe /\ NoTaskAfterStop /\ ShownFits /\ [Next]_vars
         => [Life!LifeNext]_(Life!lifeVars)
  <2> SUFFICES ASSUME TypeOK, Safe, NoTaskAfterStop, ShownFits, [Next]_vars
               PROVE  Life!LifeNext \/ UNCHANGED Life!lifeVars
    OBVIOUS
  <2>1. ASSUME NEW r \in Requests, Request(r) PROVE Life!LifeNext
    BY <2>1, RequestAsks DEF Life!LifeNext
  <2>2. CASE Ended
    BY <2>2, EndedAccounts DEF Life!LifeNext
  <2>3. CASE Tick
    BY <2>3, TickStarts DEF Life!LifeNext, ShownFits
  <2>4. CASE Quit
    BY <2>4, QuitTells DEF Life!LifeNext
  <2>5. CASE QuitEnded
    BY <2>5, QuitCounts DEF Life!LifeNext
  <2>6. CASE QuitDone
    BY <2>6, QuitCloses DEF Life!LifeNext
  <2>7. ASSUME NEW i \in Ids, Task(i) PROVE Life!LifeNext \/ UNCHANGED Life!lifeVars
    BY <2>7, TaskLives DEF Life!LifeNext
  <2>8. CASE UNCHANGED vars
    BY <2>8, SameUse, SameTold DEF vars, Life!lifeVars
  <2> QED BY <2>1, <2>2, <2>3, <2>4, <2>5, <2>6, <2>7, <2>8 DEF Next, Manager
<1> QED BY <1>1, <1>2, TypeCorrect, SafeInvariant, StopIsFinal, ShownFitsHolds,
           PTL DEF Spec, LifePromise, Life!LifeSpec
=============================================================================
