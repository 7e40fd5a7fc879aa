---------------------------- MODULE KeymapProofs ----------------------------
(***************************************************************************)
(* Proofs about the keymap session, for every set of profiles, any number  *)
(* of mappings and scripts and every length of a run.  The engine works by *)
(* folds over the mappings, scripts and actions of a profile; what each of *)
(* them keeps is proved by induction along it (FoldInduction).             *)
(***************************************************************************)
EXTENDS KeymapSession, SequenceTheorems, FiniteSetTheorems, TLAPS

----------------------------------------------------------------------------
(* Sequences.                                                              *)

LEMMA SequenceOf ==
    ASSUME NEW S, NEW s \in Seq(S)
    PROVE  IsSequence(s) /\ Len(s) \in Nat /\ DOMAIN s = 1..Len(s)
<1>1. Len(s) \in Nat /\ DOMAIN s = 1..Len(s) /\ s = [i \in 1..Len(s) |-> s[i]]
  OBVIOUS
<1> DEFINE T == {s[i] : i \in DOMAIN s}
<1>2. s \in [1..Len(s) -> T]
  BY <1>1
<1>3. s \in Seq(T)
  BY <1>1, <1>2, SeqDef
<1> QED BY <1>1, <1>3 DEF IsSequence

\* A function on 1..n is a sequence.
LEMMA SequenceFrom ==
    ASSUME NEW n \in Nat, NEW s, s = [i \in 1..n |-> s[i]]
    PROVE  IsSequence(s)
<1> DEFINE T == {s[i] : i \in DOMAIN s}
<1>1. s \in [1..n -> T]
  OBVIOUS
<1>2. s \in Seq(T)
  BY <1>1, SeqDef
<1> QED BY <1>2 DEF IsSequence

LEMMA SequenceShape ==
    ASSUME NEW s, IsSequence(s)
    PROVE  Len(s) \in Nat /\ DOMAIN s = 1..Len(s)
BY DEF IsSequence

LEMMA NothingIsSequence == IsSequence(<<>>)
<1>1. <<>> \in Seq({})
  OBVIOUS
<1> QED BY <1>1, SequenceOf

LEMMA AppendIsSequence ==
    ASSUME NEW s, IsSequence(s), NEW x
    PROVE  IsSequence(Append(s, x))
<1> DEFINE S == {s[i] : i \in DOMAIN s} \cup {x}
<1>1. s \in Seq(S)
  BY SeqMonotonic DEF IsSequence
<1>2. Append(s, x) \in Seq(S)
  BY <1>1
<1> QED BY <1>2, SequenceOf

\* The number of actions due is one that splits the queue.
LEMMA DueSplits ==
    ASSUME NEW q, IsSequence(q), NEW t
    PROVE  DueBy(q, t) \in 0..Len(q)
<1> DEFINE D == {i \in DOMAIN q : q[i].at <= t}
<1>1. Len(q) \in Nat /\ DOMAIN q = 1..Len(q)
  BY SequenceShape
<1>2. IsFiniteSet(1..Len(q)) /\ Cardinality(1..Len(q)) = Len(q)
  <2> DEFINE n == Len(q)
  <2>1. n \in Int /\ 1 \in Int /\ n >= 0
    BY <1>1
  <2> HIDE DEF n
  <2>2. IsFiniteSet(1..n) /\ Cardinality(1..n) = IF 1 > n THEN 0 ELSE n - 1 + 1
    BY <2>1, FS_Interval
  <2>3. Cardinality(1..n) = n
    BY <2>1, <2>2
  <2> QED BY <2>2, <2>3 DEF n
<1>3. IsFiniteSet(D) /\ Cardinality(D) <= Cardinality(1..Len(q))
  BY <1>1, <1>2, FS_Subset
<1>4. Cardinality(D) \in Nat
  BY <1>3, FS_CardinalityType
<1> QED BY <1>1, <1>2, <1>3, <1>4 DEF DueBy

LEMMA SplitIsSequence ==
    ASSUME NEW q, IsSequence(q), NEW n \in 0..Len(q)
    PROVE  IsSequence(SubSeq(q, 1, n)) /\ IsSequence(SubSeq(q, n + 1, Len(q)))
<1> DEFINE S == {q[i] : i \in DOMAIN q}
<1>1. q \in Seq(S) /\ Len(q) \in Nat
  BY DEF IsSequence
<1> HIDE DEF S
<1>2. SubSeq(q, 1, n) \in Seq(S) /\ SubSeq(q, n + 1, Len(q)) \in Seq(S)
  BY <1>1, SubSeqProperties
<1> QED BY <1>2, SequenceOf

LEMMA EnqueueIsSequence ==
    ASSUME NEW q, IsSequence(q), NEW a
    PROVE  IsSequence(Enqueue(q, a))
<1> DEFINE S == {q[i] : i \in DOMAIN q} \cup {a}
           n == DueBy(q, a.at)
<1>1. n \in 0..Len(q) /\ Len(q) \in Nat
  BY DueSplits, SequenceShape
<1>2. q \in Seq(S)
  BY SeqMonotonic DEF IsSequence
<1>3. a \in S
  OBVIOUS
<1>4. (n + 1) - 1 = n
  BY <1>1
<1> HIDE DEF S, n
<1>5. SubSeq(q, 1, n) \in Seq(S) /\ SubSeq(q, n + 1, Len(q)) \in Seq(S)
  BY <1>1, <1>2, SubSeqProperties
<1>6. SubSeq(q, 1, n) \o <<a>> \o SubSeq(q, n + 1, Len(q)) \in Seq(S)
  BY <1>3, <1>5
<1>7. Enqueue(q, a) \in Seq(S)
  BY <1>4, <1>6 DEF Enqueue, InsertAt, n
<1> QED BY <1>7, SequenceOf
----------------------------------------------------------------------------
(* What a step of the engine may do to the runtime.  Ticks and scripts are *)
(* tame: they take pointers and the cast back and never give them.         *)

RuntimeFields == {"axes", "pulses", "pointers", "leases", "fps", "cast", "cancel", "scopes",
                  "hookReadyAt", "queued", "scriptContacts", "output"}

HasId(controller) == "id" \in DOMAIN controller
RuntimeShape(rt) ==
    /\ rt = [f \in RuntimeFields |-> rt[f]]
    /\ HasId(rt.fps) /\ HasId(rt.cast) /\ HasId(rt.cancel)
    /\ IsSequence(rt.queued) /\ IsSequence(rt.output)

Tame(rt, next) ==
    /\ RuntimeShape(next)
    /\ next.pointers \subseteq rt.pointers
    /\ next.cast = rt.cast \/ next.cast = NoCast

LEMMA TameAgain ==
    ASSUME NEW a, NEW b, NEW c, Tame(a, b), Tame(b, c)
    PROVE  Tame(a, c)
BY DEF Tame

LEMMA TameNothing ==
    ASSUME NEW rt, RuntimeShape(rt)
    PROVE  Tame(rt, rt)
BY DEF Tame

LEMMA NoneHasId == HasId(NoFps) /\ HasId(NoCast) /\ HasId(NoCancel)
BY DEF HasId, NoFps, NoCast, NoCancel

LEMMA FreshShape == RuntimeShape(FreshRuntime)
BY NothingIsSequence, NoneHasId DEF RuntimeShape, FreshRuntime, RuntimeFields

\* A change of other fields is tame.
LEMMA TameElsewhere ==
    ASSUME NEW rt, RuntimeShape(rt), NEW v
    PROVE  /\ Tame(rt, [rt EXCEPT !.axes = v]) /\ Tame(rt, [rt EXCEPT !.pulses = v])
           /\ Tame(rt, [rt EXCEPT !.leases = v]) /\ Tame(rt, [rt EXCEPT !.scopes = v])
           /\ HasId(v) => Tame(rt, [rt EXCEPT !.fps = v]) /\ Tame(rt, [rt EXCEPT !.cancel = v])
           /\ Tame(rt, [rt EXCEPT !.hookReadyAt = v]) /\ Tame(rt, [rt EXCEPT !.scriptContacts = v])
           /\ IsSequence(v) => /\ Tame(rt, [rt EXCEPT !.queued = v])
                               /\ Tame(rt, [rt EXCEPT !.output = v])
<1> USE DEF RuntimeShape, RuntimeFields, Tame
<1>1. Tame(rt, [rt EXCEPT !.axes = v]) /\ Tame(rt, [rt EXCEPT !.pulses = v])
  OBVIOUS
<1>2. Tame(rt, [rt EXCEPT !.leases = v]) /\ Tame(rt, [rt EXCEPT !.scopes = v])
  OBVIOUS
<1>3. ASSUME HasId(v) PROVE Tame(rt, [rt EXCEPT !.fps = v]) /\ Tame(rt, [rt EXCEPT !.cancel = v])
  BY <1>3
<1>4. Tame(rt, [rt EXCEPT !.hookReadyAt = v]) /\ Tame(rt, [rt EXCEPT !.scriptContacts = v])
  OBVIOUS
<1>5. ASSUME IsSequence(v)
      PROVE  Tame(rt, [rt EXCEPT !.queued = v]) /\ Tame(rt, [rt EXCEPT !.output = v])
  BY <1>5
<1> QED BY <1>1, <1>2, <1>3, <1>4, <1>5

LEMMA MoveFpsTame ==
    ASSUME NEW p, NEW rt, RuntimeShape(rt), NEW leaves
    PROVE  Tame(rt, MoveFps(p, rt, leaves))
<1>1. \/ MoveFps(p, rt, leaves) = rt
      \/ \E v : DOMAIN v = DOMAIN rt.fps /\ MoveFps(p, rt, leaves) = [rt EXCEPT !.fps = v]
  <2> DEFINE m == Mapping(p, rt.fps.id)
             other == IF rt.fps.identity = m.identity THEN m.another ELSE m.identity
             v == [rt.fps EXCEPT !.identity = IF m.touch = "single" THEN m.identity ELSE other,
                                 !.touching = (m.touch = "overlap"),
                                 !.pending = TRUE, !.readyAt = m.handoff,
                                 !.old = IF m.touch = "overlap" THEN rt.fps.identity ELSE -1]
  <2>1. DOMAIN v = DOMAIN rt.fps
    OBVIOUS
  <2>2. MoveFps(p, rt, leaves) = rt \/ MoveFps(p, rt, leaves) = [rt EXCEPT !.fps = v]
    BY DEF MoveFps
  <2> HIDE DEF v
  <2> QED BY <2>1, <2>2
<1>2. ASSUME NEW v, DOMAIN v = DOMAIN rt.fps PROVE Tame(rt, [rt EXCEPT !.fps = v])
  <2>1. HasId(v)
    BY <1>2 DEF HasId, RuntimeShape
  <2> QED BY <2>1, TameElsewhere
<1>3. Tame(rt, rt)
  BY TameNothing
<1> QED BY <1>1, <1>2, <1>3

LEMMA TickTame ==
    ASSUME NEW p, NEW rt, RuntimeShape(rt), NEW leaves
    PROVE  Tame(rt, TickRuntime(p, rt, leaves))
<1> DEFINE over == {id \in DOMAIN rt.pulses :
                      id \in MapIds(p) /\ IsPulse(Mapping(p, id)) /\
                         -PulseStart(rt, id) >= Mapping(p, id).duration}
           timed == [rt EXCEPT !.pulses = Without(@, over),
                               !.cast = IF @.autoReleaseAt <= 0 THEN NoCast ELSE @,
                               !.cancel = IF @.endAt <= 0 THEN NoCancel ELSE @]
           moving == [timed EXCEPT !.fps = [@ EXCEPT !.pending = FALSE, !.touching = TRUE,
                                                     !.readyAt = 0, !.old = -1]]
<1>1. Tame(rt, timed)
  <2> HIDE DEF over
  <2> QED BY NoneHasId DEF Tame, RuntimeShape, RuntimeFields
<1>2. TickRuntime(p, rt, leaves) = timed \/ TickRuntime(p, rt, leaves) = MoveFps(p, moving, leaves)
  BY DEF TickRuntime
<1> HIDE DEF timed
<1>3. RuntimeShape(timed)
  BY <1>1 DEF Tame
<1>4. Tame(timed, moving)
  <2> DEFINE v == [timed.fps EXCEPT !.pending = FALSE, !.touching = TRUE, !.readyAt = 0, !.old = -1]
  <2>1. HasId(v)
    BY <1>3 DEF HasId, RuntimeShape
  <2>2. moving = [timed EXCEPT !.fps = v]
    OBVIOUS
  <2> HIDE DEF v, moving
  <2> QED BY <1>3, <2>1, <2>2, TameElsewhere
<1> HIDE DEF moving
<1>5. RuntimeShape(moving)
  BY <1>4 DEF Tame
<1>6. Tame(moving, MoveFps(p, moving, leaves))
  BY <1>5, MoveFpsTame
<1> QED BY <1>1, <1>2, <1>4, <1>6, TameAgain

----------------------------------------------------------------------------
(* Scripts.                                                                *)

Enqueues == INSTANCE FoldInduction WITH
    Op <- LAMBDA c, q, a : Enqueue(q, a), Good <- LAMBDA g, k, q : IsSequence(q)

LEMMA EnqueueAllIsSequence ==
    ASSUME NEW q, IsSequence(q), NEW fresh, IsSequence(fresh)
    PROVE  IsSequence(EnqueueAll(q, fresh))
<1>1. EnqueueAll(q, fresh) = Enqueues!Fold(0, q, fresh)
  BY DEF EnqueueAll, FoldLeft, MapThenFoldSet, Max, Enqueues!Fold
<1>2. fresh \in Seq({fresh[i] : i \in DOMAIN fresh})
  BY DEF IsSequence
<1>3. \A k \in 1..Len(fresh) : \A a : IsSequence(a) => IsSequence(Enqueue(a, fresh[k]))
  BY EnqueueIsSequence
<1>4. IsSequence(Enqueues!Fold(0, q, fresh))
  BY <1>2, <1>3, Enqueues!FoldKeeps
<1> QED BY <1>1, <1>4

LEMMA ScheduleTame ==
    ASSUME NEW r, RuntimeShape(r.rt), NEW id, NEW plan, IsSequence(plan.actions)
    PROVE  Tame(r.rt, Schedule(r, id, plan).rt)
<1>1. CASE r.err \/ plan.empty
  <2>1. Schedule(r, id, plan) = r
    BY <1>1 DEF Schedule
  <2> QED BY <2>1, TameNothing
<1>2. CASE ~(r.err \/ plan.empty) /\ plan.fails
  <2>1. Schedule(r, id, plan).rt = r.rt
    BY <1>2 DEF Schedule, Failed
  <2> QED BY <2>1, TameNothing
<1>3. CASE ~(r.err \/ plan.empty) /\ ~plan.fails
  <2> DEFINE start == StartAt(ScopeOf(r.rt, id))
             fresh == [i \in DOMAIN plan.actions |->
                         [scope |-> id, at |-> start + plan.actions[i].at, act |-> plan.actions[i].act]]
             later == EnqueueAll(r.rt.queued, fresh)
             scopes == With(r.rt.scopes, id, [ScopeOf(r.rt, id) EXCEPT !.busyUntil = start + plan.duration])
             queued == [r.rt EXCEPT !.queued = later]
  <2>1. IsSequence(fresh)
    <3>1. Len(plan.actions) \in Nat /\ DOMAIN plan.actions = 1..Len(plan.actions)
      BY SequenceShape
    <3>2. fresh = [i \in 1..Len(plan.actions) |-> fresh[i]]
      BY <3>1
    <3> HIDE DEF fresh
    <3> QED BY <3>1, <3>2, SequenceFrom
  <2>2. Schedule(r, id, plan).rt = [r.rt EXCEPT !.queued = later, !.scopes = scopes]
    BY <1>3 DEF Schedule, Done
  <2> HIDE DEF fresh
  <2>3. IsSequence(later)
    BY <2>1, EnqueueAllIsSequence DEF RuntimeShape
  <2> HIDE DEF later, scopes
  <2>4. Tame(r.rt, [r.rt EXCEPT !.queued = later, !.scopes = scopes])
    BY <2>3 DEF Tame, RuntimeShape, RuntimeFields
  <2> QED BY <2>2, <2>4
<1> QED BY <1>1, <1>2, <1>3
LEMMA ScopesTame ==
    ASSUME NEW rt, RuntimeShape(rt), NEW id, NEW t
    PROVE  Tame(rt, [rt EXCEPT !.scopes[id] = [@ EXCEPT !.nextHeldAt = t]])
BY DEF Tame, RuntimeShape, RuntimeFields

LEMMA ScriptEdgeTame ==
    ASSUME NEW r, RuntimeShape(r.rt), NEW s, NEW before, NEW now,
           IsSequence(s.pressed.actions), IsSequence(s.released.actions)
    PROVE  Tame(r.rt, ScriptEdge(r, s, before, now).rt)
<1>1. CASE r.err \/ Bound(before, s.bind) = Bound(now, s.bind)
  <2>1. ScriptEdge(r, s, before, now) = r
    BY <1>1 DEF ScriptEdge
  <2> QED BY <2>1, TameNothing
<1>2. CASE ~(r.err \/ Bound(before, s.bind) = Bound(now, s.bind)) /\ Bound(now, s.bind)
  <2> DEFINE on == Done([r.rt EXCEPT !.scopes = With(@, s.id, [ScopeOf(r.rt, s.id) EXCEPT !.active = TRUE])])
             run == Schedule(on, s.id, s.pressed)
             next == IF s.held.empty THEN Never ELSE StartAt(ScopeOf(run.rt, s.id))
  <2>1. Tame(r.rt, on.rt)
    BY TameElsewhere DEF Done
  <2>2. \/ ScriptEdge(r, s, before, now) = run
        \/ ScriptEdge(r, s, before, now).rt = [run.rt EXCEPT !.scopes[s.id] = [@ EXCEPT !.nextHeldAt = next]]
    BY <1>2 DEF ScriptEdge, Done
  <2> HIDE DEF on
  <2>3. Tame(on.rt, run.rt)
    BY <2>1, ScheduleTame DEF Tame
  <2>4. Tame(r.rt, run.rt) /\ RuntimeShape(run.rt)
    BY <2>1, <2>3, TameAgain DEF Tame
  <2> HIDE DEF run, next
  <2>5. Tame(run.rt, [run.rt EXCEPT !.scopes[s.id] = [@ EXCEPT !.nextHeldAt = next]])
    BY <2>4, ScopesTame
  <2> QED BY <2>2, <2>4, <2>5, TameAgain
<1>3. CASE ~(r.err \/ Bound(before, s.bind) = Bound(now, s.bind)) /\ ~Bound(now, s.bind)
  <2> DEFINE off == Done([r.rt EXCEPT !.scopes =
                            With(@, s.id, [ScopeOf(r.rt, s.id) EXCEPT !.active = FALSE, !.nextHeldAt = Never])])
  <2>1. Tame(r.rt, off.rt)
    BY TameElsewhere DEF Done
  <2>2. ScriptEdge(r, s, before, now) = Schedule(off, s.id, s.released)
    BY <1>3 DEF ScriptEdge
  <2> HIDE DEF off
  <2>3. Tame(off.rt, Schedule(off, s.id, s.released).rt)
    BY <2>1, ScheduleTame DEF Tame
  <2> QED BY <2>1, <2>2, <2>3, TameAgain
<1> QED BY <1>1, <1>2, <1>3

LEMMA HookEdgeTame ==
    ASSUME NEW r, RuntimeShape(r.rt), NEW m, NEW before, NEW now,
           Hooked(m) => IsSequence(m.before.actions) /\ IsSequence(m.after.actions)
    PROVE  Tame(r.rt, HookEdge(r, m, before, now).rt)
<1> DEFINE idle == r.err \/ ~Hooked(m) \/ MatchesInput(m, before) = MatchesInput(m, now)
<1>1. CASE idle
  <2>1. HookEdge(r, m, before, now) = r
    BY <1>1 DEF HookEdge
  <2> QED BY <2>1, TameNothing
<1>2. CASE ~idle /\ MatchesInput(m, now)
  <2> DEFINE run == Schedule(r, m.id, m.before)
             ready == IF m.before.empty THEN 0 ELSE StartAt(ScopeOf(run.rt, m.id))
             hooks == With(run.rt.hookReadyAt, m.id, ready)
  <2>1. Tame(r.rt, run.rt)
    BY <1>2, ScheduleTame
  <2>2. \/ HookEdge(r, m, before, now) = run
        \/ HookEdge(r, m, before, now).rt = [run.rt EXCEPT !.hookReadyAt = hooks]
    BY <1>2 DEF HookEdge, Done
  <2> HIDE DEF run, hooks
  <2>3. Tame(run.rt, [run.rt EXCEPT !.hookReadyAt = hooks])
    BY <2>1, TameElsewhere DEF Tame
  <2> QED BY <2>1, <2>2, <2>3, TameAgain
<1>3. CASE ~idle /\ ~MatchesInput(m, now)
  <2> DEFINE early == m.id \in DOMAIN r.rt.hookReadyAt /\ r.rt.hookReadyAt[m.id] > 0
             gone == [r.rt EXCEPT !.hookReadyAt = Without(@, {m.id})]
             back == [gone EXCEPT !.pointers = @ \ {m.id},
                                  !.fps = IF @.id = m.id THEN NoFps ELSE @,
                                  !.cast = IF @.id = m.id THEN NoCast ELSE @,
                                  !.cancel = IF @.id = m.id THEN NoCancel ELSE @]
             left == Done(IF early THEN back ELSE gone)
  <2>1. Tame(r.rt, gone)
    BY TameElsewhere
  <2>2. HookEdge(r, m, before, now) = Schedule(left, m.id, m.after)
    BY <1>3 DEF HookEdge
  <2>3. left.rt = back \/ left.rt = gone
    BY DEF Done
  <2> HIDE DEF left, gone
  <2>4. Tame(gone, back)
    BY <2>1, NoneHasId DEF Tame, RuntimeShape, RuntimeFields
  <2>5. Tame(r.rt, left.rt)
    BY <2>1, <2>3, <2>4, TameAgain
  <2>6. Tame(left.rt, Schedule(left, m.id, m.after).rt)
    BY <1>3, <2>5, ScheduleTame DEF Tame
  <2> QED BY <2>2, <2>5, <2>6, TameAgain
<1> QED BY <1>1, <1>2, <1>3

LEMMA HeldScriptTame ==
    ASSUME NEW r, RuntimeShape(r.rt), NEW s, IsSequence(s.held.actions)
    PROVE  Tame(r.rt, HeldScript(r, s).rt)
<1> DEFINE run == Schedule(r, s.id, s.held)
           again == StartAt(ScopeOf(run.rt, s.id)) + s.interval
<1>1. Tame(r.rt, run.rt)
  BY ScheduleTame
<1>2. \/ HeldScript(r, s) = r \/ HeldScript(r, s) = run
      \/ HeldScript(r, s).rt = [run.rt EXCEPT !.scopes[s.id] = [@ EXCEPT !.nextHeldAt = again]]
  BY DEF HeldScript, Done
<1> HIDE DEF run, again
<1>3. Tame(run.rt, [run.rt EXCEPT !.scopes[s.id] = [@ EXCEPT !.nextHeldAt = again]])
  BY <1>1, ScopesTame DEF Tame
<1>4. Tame(r.rt, r.rt)
  BY TameNothing
<1> QED BY <1>1, <1>2, <1>3, <1>4, TameAgain

LEMMA CancelCastTame ==
    ASSUME NEW p, NEW rt, RuntimeShape(rt), NEW id
    PROVE  Tame(rt, CancelCast(p, rt, id))
<1> DEFINE stroke == [id |-> id, identity |-> Mapping(p, rt.cast.id).identity, endAt |-> Mapping(p, id).duration]
<1>1. CancelCast(p, rt, id) = rt \/ CancelCast(p, rt, id) = [rt EXCEPT !.cast = NoCast, !.cancel = stroke]
  BY DEF CancelCast
<1>2. HasId(stroke)
  BY DEF HasId
<1> HIDE DEF stroke
<1>3. Tame(rt, [rt EXCEPT !.cast = NoCast, !.cancel = stroke])
  BY <1>2, NoneHasId DEF Tame, RuntimeShape, RuntimeFields
<1> QED BY <1>1, <1>3, TameNothing

LEMMA ApplyScriptTame ==
    ASSUME NEW p, NEW r, RuntimeShape(r.rt), NEW q
    PROVE  Tame(r.rt, ApplyScript(p, r, q).rt)
<1> DEFINE rt == r.rt
           a == q.act
           new == ApplyScript(p, r, q).rt
<1>1. CASE r.err
  BY <1>1, TameNothing DEF ApplyScript
<1>2. CASE ~r.err
  <2>1. \/ new = rt \/ \E v : new = [rt EXCEPT !.scriptContacts = v]
        \/ \E v : HasId(v) /\ new = [rt EXCEPT !.fps = v]
        \/ new = CancelCast(p, rt, a.id)
        \/ new = [rt EXCEPT !.cast = NoCast, !.cancel = NoCancel]
        \/ new = [rt EXCEPT !.output = Append(@, a)]
    <3>1. CASE a.type = "touch"
      BY <1>2, <3>1 DEF ApplyScript, Done, Failed
    <3>2. CASE a.type = "lift"
      BY <1>2, <3>2 DEF ApplyScript, Done, Failed
    <3>3. CASE a.type = "enterFps"
      <4> DEFINE m == Mapping(p, a.id)
                 v == [NoFps EXCEPT !.id = m.id, !.identity = m.identity, !.touching = TRUE]
      <4>1. new = rt \/ new = [rt EXCEPT !.fps = v]
        BY <1>2, <3>3 DEF ApplyScript, Done, Failed, EnterFps
      <4>2. HasId(v)
        BY DEF HasId, NoFps
      <4> HIDE DEF v, new
      <4> QED BY <4>1, <4>2
    <3>4. CASE a.type = "exitFps"
      <4>1. new = [rt EXCEPT !.fps = NoFps]
        BY <1>2, <3>4 DEF ApplyScript, Done, Failed
      <4> HIDE DEF new
      <4> QED BY <4>1, NoneHasId
    <3>5. CASE a.type = "cancelCast"
      BY <1>2, <3>5 DEF ApplyScript, Done, Failed
    <3>6. CASE a.type = "releaseCast"
      BY <1>2, <3>6 DEF ApplyScript, Done, Failed
    <3>7. CASE a.type \notin {"touch", "lift", "enterFps", "exitFps", "cancelCast", "releaseCast"}
      BY <1>2, <3>7 DEF ApplyScript, Done, Failed
    <3> QED BY <3>1, <3>2, <3>3, <3>4, <3>5, <3>6, <3>7
  <2> HIDE DEF new
  <2>2. ASSUME NEW v
        PROVE  Tame(rt, [rt EXCEPT !.scriptContacts = v]) /\ (HasId(v) => Tame(rt, [rt EXCEPT !.fps = v]))
    BY TameElsewhere
  <2>3. Tame(rt, CancelCast(p, rt, a.id)) /\ Tame(rt, rt)
    BY CancelCastTame, TameNothing
  <2>4. Tame(rt, [rt EXCEPT !.cast = NoCast, !.cancel = NoCancel])
    BY NoneHasId DEF Tame, RuntimeShape, RuntimeFields
  <2>5. Tame(rt, [rt EXCEPT !.output = Append(@, a)])
    <3>1. IsSequence(Append(rt.output, a))
      BY AppendIsSequence DEF RuntimeShape
    <3> QED BY <3>1, TameElsewhere
  <2> HIDE DEF rt, a
  <2>6. Tame(rt, new)
    BY <2>1, <2>2, <2>3, <2>4, <2>5
  <2> QED BY <2>6 DEF rt, new
<1> QED BY <1>1, <1>2

----------------------------------------------------------------------------
(* Profiles, and the loops over their mappings and scripts.                *)

\* What the engine relies on in a compiled profile.
CompiledShape(p) ==
    /\ IsSequence(p.maps) /\ IsSequence(p.scripts)
    /\ \A i \in DOMAIN p.maps :
          Hooked(p.maps[i]) => IsSequence(p.maps[i].before.actions) /\ IsSequence(p.maps[i].after.actions)
    /\ \A i \in DOMAIN p.scripts :
          /\ IsSequence(p.scripts[i].pressed.actions) /\ IsSequence(p.scripts[i].held.actions)
          /\ IsSequence(p.scripts[i].released.actions)

EdgesOfScripts == INSTANCE FoldInduction WITH
    Op <- LAMBDA c, r, s : ScriptEdge(r, s, c.before, c.now),
    Good <- LAMBDA g, k, r : Tame(g, r.rt)
EdgesOfHooks == INSTANCE FoldInduction WITH
    Op <- LAMBDA c, r, m : HookEdge(r, m, c.before, c.now),
    Good <- LAMBDA g, k, r : Tame(g, r.rt)
HeldOfScripts == INSTANCE FoldInduction WITH
    Op <- LAMBDA c, r, s : HeldScript(r, s),
    Good <- LAMBDA g, k, r : Tame(g, r.rt)
ActionsOfScripts == INSTANCE FoldInduction WITH
    Op <- LAMBDA c, r, q : ApplyScript(c, r, q),
    Good <- LAMBDA g, k, r : Tame(g, r.rt)

LEMMA ScriptEdgesTame ==
    ASSUME NEW p, CompiledShape(p), NEW r, RuntimeShape(r.rt), NEW c
    PROVE  Tame(r.rt, ScriptEdges(p, r, c.before, c.now).rt)
<1>1. ScriptEdges(p, r, c.before, c.now) = EdgesOfScripts!Fold(c, r, p.scripts)
  BY DEF ScriptEdges, FoldLeft, MapThenFoldSet, Max, EdgesOfScripts!Fold
<1>2. p.scripts \in Seq({p.scripts[i] : i \in DOMAIN p.scripts}) /\ DOMAIN p.scripts = 1..Len(p.scripts)
  BY SequenceShape DEF CompiledShape, IsSequence
<1>3. ASSUME NEW k \in 1..Len(p.scripts), NEW a, Tame(r.rt, a.rt)
      PROVE  Tame(r.rt, ScriptEdge(a, p.scripts[k], c.before, c.now).rt)
  <2>1. RuntimeShape(a.rt)
    BY <1>3 DEF Tame
  <2>2. Tame(a.rt, ScriptEdge(a, p.scripts[k], c.before, c.now).rt)
    BY <1>2, <2>1, ScriptEdgeTame DEF CompiledShape
  <2> QED BY <1>3, <2>2, TameAgain
<1>4. Tame(r.rt, r.rt)
  BY TameNothing
<1>5. Tame(r.rt, EdgesOfScripts!Fold(c, r, p.scripts).rt)
  BY <1>2, <1>3, <1>4, EdgesOfScripts!FoldKeeps
<1> QED BY <1>1, <1>5

LEMMA HookEdgesTame ==
    ASSUME NEW p, CompiledShape(p), NEW r, RuntimeShape(r.rt), NEW c
    PROVE  Tame(r.rt, HookEdges(p, r, c.before, c.now).rt)
<1>1. HookEdges(p, r, c.before, c.now) = EdgesOfHooks!Fold(c, r, p.maps)
  BY DEF HookEdges, FoldLeft, MapThenFoldSet, Max, EdgesOfHooks!Fold
<1>2. p.maps \in Seq({p.maps[i] : i \in DOMAIN p.maps}) /\ DOMAIN p.maps = 1..Len(p.maps)
  BY SequenceShape DEF CompiledShape, IsSequence
<1>3. ASSUME NEW k \in 1..Len(p.maps), NEW a, Tame(r.rt, a.rt)
      PROVE  Tame(r.rt, HookEdge(a, p.maps[k], c.before, c.now).rt)
  <2>1. RuntimeShape(a.rt)
    BY <1>3 DEF Tame
  <2>2. Tame(a.rt, HookEdge(a, p.maps[k], c.before, c.now).rt)
    BY <1>2, <2>1, HookEdgeTame DEF CompiledShape
  <2> QED BY <1>3, <2>2, TameAgain
<1>4. Tame(r.rt, r.rt)
  BY TameNothing
<1>5. Tame(r.rt, EdgesOfHooks!Fold(c, r, p.maps).rt)
  BY <1>2, <1>3, <1>4, EdgesOfHooks!FoldKeeps
<1> QED BY <1>1, <1>5

LEMMA HeldScriptsTame ==
    ASSUME NEW p, CompiledShape(p), NEW r, RuntimeShape(r.rt)
    PROVE  Tame(r.rt, HeldScripts(p, r).rt)
<1>1. HeldScripts(p, r) = HeldOfScripts!Fold(0, r, p.scripts)
  BY DEF HeldScripts, FoldLeft, MapThenFoldSet, Max, HeldOfScripts!Fold
<1>2. p.scripts \in Seq({p.scripts[i] : i \in DOMAIN p.scripts}) /\ DOMAIN p.scripts = 1..Len(p.scripts)
  BY SequenceShape DEF CompiledShape, IsSequence
<1>3. ASSUME NEW k \in 1..Len(p.scripts), NEW a, Tame(r.rt, a.rt)
      PROVE  Tame(r.rt, HeldScript(a, p.scripts[k]).rt)
  <2>1. RuntimeShape(a.rt)
    BY <1>3 DEF Tame
  <2>2. Tame(a.rt, HeldScript(a, p.scripts[k]).rt)
    BY <1>2, <2>1, HeldScriptTame DEF CompiledShape
  <2> QED BY <1>3, <2>2, TameAgain
<1>4. Tame(r.rt, r.rt)
  BY TameNothing
<1>5. Tame(r.rt, HeldOfScripts!Fold(0, r, p.scripts).rt)
  BY <1>2, <1>3, <1>4, HeldOfScripts!FoldKeeps
<1> QED BY <1>1, <1>5

LEMMA TickScriptsTame ==
    ASSUME NEW p, NEW r, RuntimeShape(r.rt)
    PROVE  Tame(r.rt, TickScripts(p, r).rt)
<1>1. CASE r.err
  BY <1>1, TameNothing DEF TickScripts
<1>2. CASE ~r.err
  <2> DEFINE q == r.rt.queued
             n == DueBy(q, 0)
             due == SubSeq(q, 1, n)
             base == Done([r.rt EXCEPT !.queued = SubSeq(q, n + 1, Len(q))])
  <2>1. IsSequence(due) /\ IsSequence(SubSeq(q, n + 1, Len(q)))
    BY DueSplits, SplitIsSequence DEF RuntimeShape
  <2>2. Tame(r.rt, base.rt)
    BY <2>1, TameElsewhere DEF Done
  <2>3. TickScripts(p, r) = ApplyScripts(p, base, due)
    BY <1>2 DEF TickScripts
  <2> HIDE DEF base, due
  <2>4. ApplyScripts(p, base, due) = ActionsOfScripts!Fold(p, base, due)
    BY DEF ApplyScripts, FoldLeft, MapThenFoldSet, Max, ActionsOfScripts!Fold
  <2>5. ASSUME NEW k \in 1..Len(due), NEW a, Tame(r.rt, a.rt)
        PROVE  Tame(r.rt, ApplyScript(p, a, due[k]).rt)
    BY <2>5, ApplyScriptTame, TameAgain DEF Tame
  <2>6. due \in Seq({due[i] : i \in DOMAIN due})
    BY <2>1 DEF IsSequence
  <2>7. Tame(r.rt, ActionsOfScripts!Fold(p, base, due).rt)
    BY <2>2, <2>5, <2>6, ActionsOfScripts!FoldKeeps
  <2> QED BY <2>3, <2>4, <2>7
<1> QED BY <1>1, <1>2
----------------------------------------------------------------------------
(* Key edges.  A pointer belongs to a binding that is held, and so does a  *)
(* cast that ends on release.  While the release edges of the first k      *)
(* mappings are handled, a binding may count that was held before.         *)

StillHeld(g, k, i) ==
    \/ Bound(g.now, g.p.maps[i].bind)
    \/ i > k /\ Bound(g.before, g.p.maps[i].bind)

PointersHeld(g, k, rt) ==
    \A id \in rt.pointers : \E i \in DOMAIN g.p.maps :
        /\ g.p.maps[i].id = id /\ g.p.maps[i].kind \in {"Observation", "Fire"}
        /\ StillHeld(g, k, i)

CastHeld(g, k, rt) ==
    rt.cast.id # None => \E i \in DOMAIN g.p.maps :
        /\ g.p.maps[i].id = rt.cast.id /\ g.p.maps[i].kind \in CastKinds
        /\ g.p.maps[i].mode = "release" => StillHeld(g, k, i)

Edging(g, k, rt) == RuntimeShape(rt) /\ PointersHeld(g, k, rt) /\ CastHeld(g, k, rt)

\* The same between the inputs.
Fits(p, keys, rt) == Edging([p |-> p, before |-> keys, now |-> keys], 0, rt)

LEMMA TameEdging ==
    ASSUME NEW g, NEW k, NEW a, NEW b, Edging(g, k, a), Tame(a, b)
    PROVE  Edging(g, k, b)
<1>1. PointersHeld(g, k, b)
  BY DEF Edging, Tame, PointersHeld
<1>2. CastHeld(g, k, b)
  <2>1. CASE b.cast = a.cast
    BY <2>1 DEF Edging, CastHeld
  <2>2. CASE b.cast = NoCast
    BY <2>2 DEF CastHeld, NoCast
  <2> QED BY <2>1, <2>2 DEF Tame
<1> QED BY <1>1, <1>2 DEF Edging, Tame

LEMMA FirstEdge ==
    ASSUME NEW g, IsSequence(g.p.maps), NEW rt, Fits(g.p, g.before, rt)
    PROVE  Edging(g, 0, rt)
<1> DEFINE f == [p |-> g.p, before |-> g.before, now |-> g.before]
<1>1. f.p = g.p /\ f.before = g.before /\ f.now = g.before
  OBVIOUS
<1>2. Edging(f, 0, rt)
  BY DEF Fits
<1> HIDE DEF f
<1>3. ASSUME NEW i \in DOMAIN g.p.maps, StillHeld(f, 0, i) PROVE StillHeld(g, 0, i)
  <2>1. i > 0
    BY SequenceShape
  <2> QED BY <1>1, <1>3, <2>1 DEF StillHeld
<1>4. PointersHeld(g, 0, rt)
  BY <1>1, <1>2, <1>3 DEF Edging, PointersHeld
<1>5. CastHeld(g, 0, rt)
  BY <1>1, <1>2, <1>3 DEF Edging, CastHeld
<1> QED BY <1>2, <1>4, <1>5 DEF Edging

LEMMA LastEdge ==
    ASSUME NEW g, IsSequence(g.p.maps), NEW rt, Edging(g, Len(g.p.maps), rt)
    PROVE  Fits(g.p, g.now, rt)
<1> DEFINE f == [p |-> g.p, before |-> g.now, now |-> g.now]
           n == Len(g.p.maps)
<1>1. f.p = g.p /\ f.now = g.now
  OBVIOUS
<1> HIDE DEF f
<1>2. ASSUME NEW i \in DOMAIN g.p.maps, StillHeld(g, n, i) PROVE StillHeld(f, 0, i)
  <2>1. ~(i > n)
    BY SequenceShape
  <2> QED BY <1>1, <1>2, <2>1 DEF StillHeld
<1> HIDE DEF n
<1>3. Edging(g, n, rt)
  BY DEF n
<1>4. PointersHeld(f, 0, rt)
  BY <1>1, <1>2, <1>3 DEF Edging, PointersHeld
<1>5. CastHeld(f, 0, rt)
  BY <1>1, <1>2, <1>3 DEF Edging, CastHeld
<1> QED BY <1>3, <1>4, <1>5 DEF Edging, Fits, f

LEMMA ActivateEdging ==
    ASSUME NEW g, NEW rt, Edging(g, 0, rt), NEW j \in DOMAIN g.p.maps, NEW new
    PROVE  Edging(g, 0, Activate(rt, g.p.maps[j], g.now, new))
<1> DEFINE m == g.p.maps[j]
           next == Activate(rt, m, g.now, new)
           pressed == IF IsPulse(m) /\ m.id \notin DOMAIN rt.pulses
                      THEN [rt EXCEPT !.pulses = With(@, m.id, 0)] ELSE rt
<1>1. CASE m.bind \cap new = {} \/ ~Bound(g.now, m.bind)
  BY <1>1 DEF Activate
<1>2. CASE ~(m.bind \cap new = {}) /\ Bound(g.now, m.bind)
  <2>1. Tame(rt, pressed)
    BY TameElsewhere, TameNothing DEF Edging
  <2>2. Edging(g, 0, pressed)
    BY <2>1, TameEdging
  <2>3. StillHeld(g, 0, j)
    BY <1>2 DEF StillHeld
  <2>4. RuntimeShape(pressed)
    BY <2>2 DEF Edging
  <2>5. \/ m.kind \in {"Observation", "Fire"} /\ next = [pressed EXCEPT !.pointers = @ \cup {m.id}]
        \/ \E v : HasId(v) /\ next = [pressed EXCEPT !.fps = v]
        \/ next = [pressed EXCEPT !.cast = NoCast]
        \/ m.kind \in CastKinds /\ \E t : next = [pressed EXCEPT !.cast = [id |-> m.id, autoReleaseAt |-> t]]
        \/ next = pressed
    <3> HIDE DEF pressed
    <3>0. next = CASE m.kind \in {"Observation", "Fire"} -> [pressed EXCEPT !.pointers = @ \cup {m.id}]
              [] m.kind = "Fps" ->
                   IF rt.fps.id = m.id THEN [pressed EXCEPT !.fps = NoFps] ELSE EnterFps(pressed, m)
              [] m.kind \in CastKinds ->
                   IF m.mode = "secondPress" /\ rt.cast.id = m.id THEN [pressed EXCEPT !.cast = NoCast]
                   ELSE [pressed EXCEPT !.cast =
                           [id |-> m.id, autoReleaseAt |-> IF m.mode = "press" THEN m.duration ELSE Never]]
              [] OTHER -> pressed
      BY <1>2 DEF Activate, pressed
    <3> HIDE DEF next, m
    <3>1. CASE m.kind \in {"Observation", "Fire"}
      <4>1. next = [pressed EXCEPT !.pointers = @ \cup {m.id}]
        BY <3>0, <3>1 DEF CastKinds
      <4> QED BY <3>1, <4>1
    <3>2. CASE m.kind = "Fps"
      <4>1. next = IF rt.fps.id = m.id THEN [pressed EXCEPT !.fps = NoFps] ELSE EnterFps(pressed, m)
        BY <3>0, <3>2 DEF CastKinds
      <4> DEFINE v == [NoFps EXCEPT !.id = m.id, !.identity = m.identity, !.touching = TRUE]
      <4>2. EnterFps(pressed, m) = [pressed EXCEPT !.fps = v]
        BY DEF EnterFps
      <4>3. HasId(v)
        BY DEF HasId, NoFps
      <4> HIDE DEF v
      <4> QED BY <4>1, <4>2, <4>3, NoneHasId
    <3>3. CASE m.kind \in CastKinds
      <4> DEFINE t == IF m.mode = "press" THEN m.duration ELSE Never
      <4>1. \/ next = [pressed EXCEPT !.cast = NoCast]
            \/ next = [pressed EXCEPT !.cast = [id |-> m.id, autoReleaseAt |-> t]]
        BY <3>0, <3>3 DEF CastKinds
      <4> HIDE DEF t
      <4> QED BY <3>3, <4>1
    <3>4. CASE m.kind \notin {"Observation", "Fire", "Fps"} \cup CastKinds
      BY <3>0, <3>4
    <3> QED BY <3>1, <3>2, <3>3, <3>4
  <2> HIDE DEF next, pressed
  <2>6. ASSUME m.kind \in {"Observation", "Fire"}, next = [pressed EXCEPT !.pointers = @ \cup {m.id}]
        PROVE  Edging(g, 0, next)
    <3>1. RuntimeShape(next) /\ next.pointers = pressed.pointers \cup {m.id} /\ next.cast = pressed.cast
      BY <2>4, <2>6 DEF RuntimeShape, RuntimeFields
    <3>2. PointersHeld(g, 0, next)
      BY <2>2, <2>3, <2>6, <3>1 DEF Edging, PointersHeld
    <3> QED BY <2>2, <3>1, <3>2 DEF Edging, CastHeld
  <2>7. ASSUME NEW v, HasId(v), next = [pressed EXCEPT !.fps = v] PROVE Edging(g, 0, next)
    BY <2>2, <2>4, <2>7, TameElsewhere, TameEdging
  <2>8. ASSUME next = [pressed EXCEPT !.cast = NoCast] PROVE Edging(g, 0, next)
    <3>1. Tame(pressed, next)
      BY <2>4, <2>8, NoneHasId DEF Tame, RuntimeShape, RuntimeFields
    <3> QED BY <2>2, <3>1, TameEdging
  <2>9. ASSUME NEW t, m.kind \in CastKinds, next = [pressed EXCEPT !.cast = [id |-> m.id, autoReleaseAt |-> t]]
        PROVE  Edging(g, 0, next)
    <3> DEFINE c == [id |-> m.id, autoReleaseAt |-> t]
    <3>0. HasId(c) /\ c.id = m.id
      BY DEF HasId
    <3> HIDE DEF c
    <3>1. RuntimeShape(next) /\ next.pointers = pressed.pointers /\ next.cast.id = m.id
      <4>1. next = [pressed EXCEPT !.cast = c]
        BY <2>9 DEF c
      <4> QED BY <2>4, <3>0, <4>1 DEF RuntimeShape, RuntimeFields
    <3>2. CastHeld(g, 0, next)
      BY <2>3, <2>9, <3>1 DEF CastHeld
    <3> QED BY <2>2, <3>1, <3>2 DEF Edging, PointersHeld
  <2>10. ASSUME next = pressed PROVE Edging(g, 0, next)
    BY <2>2, <2>10
  <2>11. Edging(g, 0, next)
    BY <2>5, <2>6, <2>7, <2>8, <2>9, <2>10
  <2> QED BY <2>11 DEF next
<1> QED BY <1>1, <1>2

LEMMA DeactivateEdging ==
    ASSUME NEW g, IsSequence(g.p.maps), NEW j \in 1..Len(g.p.maps), NEW rt, Edging(g, j - 1, rt)
    PROVE  Edging(g, j, Deactivate(g.p, rt, g.p.maps[j], g.before, g.now))
<1> DEFINE m == g.p.maps[j]
           next == Deactivate(g.p, rt, m, g.before, g.now)
<1>0. ASSUME NEW i \in DOMAIN g.p.maps, StillHeld(g, j - 1, i)
      PROVE  StillHeld(g, j, i) \/ (i = j /\ Bound(g.before, m.bind) /\ ~Bound(g.now, m.bind))
  <2>1. i \in Nat /\ j \in Nat
    BY SequenceShape
  <2> QED BY <1>0, <2>1 DEF StillHeld
<1>1. CASE ~(Bound(g.before, m.bind) /\ ~Bound(g.now, m.bind))
  <2>1. next = rt
    BY <1>1 DEF Deactivate
  <2>2. PointersHeld(g, j, rt)
    BY <1>0, <1>1 DEF Edging, PointersHeld
  <2>3. CastHeld(g, j, rt)
    BY <1>0, <1>1 DEF Edging, CastHeld
  <2> QED BY <2>1, <2>2, <2>3 DEF Edging
<1>2. CASE Bound(g.before, m.bind) /\ ~Bound(g.now, m.bind)
  <2>1. \/ /\ m.kind \in {"Observation", "Fire"}
           /\ \/ next = [rt EXCEPT !.pointers = @ \ {m.id}]
              \/ \E v : HasId(v) /\ next = [[rt EXCEPT !.fps = v] EXCEPT !.pointers = @ \ {m.id}]
        \/ /\ m.kind \in CastKinds /\ m.mode = "release" /\ rt.cast.id = m.id
           /\ next = [rt EXCEPT !.cast = NoCast]
        \/ /\ m.kind \notin {"Observation", "Fire"} /\ ~(m.kind \in CastKinds /\ m.mode = "release" /\ rt.cast.id = m.id)
           /\ next = rt
    <3>0. next = CASE m.kind = "Observation" \/ (m.kind = "Fire" /\ (m.preserve \/ rt.fps = NoFps)) ->
                [rt EXCEPT !.pointers = @ \ {m.id}]
           [] m.kind = "Fire" /\ ~m.preserve /\ rt.fps # NoFps ->
                [EnterFps(rt, Mapping(g.p, rt.fps.id)) EXCEPT !.pointers = @ \ {m.id}]
           [] m.kind \in CastKinds /\ m.mode = "release" /\ rt.cast.id = m.id ->
                [rt EXCEPT !.cast = NoCast]
           [] OTHER -> rt
      BY <1>2 DEF Deactivate
    <3> HIDE DEF next, m
    <3>1. CASE m.kind = "Observation" \/ (m.kind = "Fire" /\ (m.preserve \/ rt.fps = NoFps))
      <4>1. next = [rt EXCEPT !.pointers = @ \ {m.id}]
        BY <3>0, <3>1 DEF CastKinds
      <4>2. m.kind \in {"Observation", "Fire"}
        BY <3>1
      <4> QED BY <4>1, <4>2
    <3>2. CASE m.kind = "Fire" /\ ~m.preserve /\ rt.fps # NoFps
      <4> DEFINE from == Mapping(g.p, rt.fps.id)
                 v == [NoFps EXCEPT !.id = from.id, !.identity = from.identity, !.touching = TRUE]
      <4>1. next = [EnterFps(rt, from) EXCEPT !.pointers = @ \ {m.id}]
        BY <3>0, <3>2 DEF CastKinds
      <4>2. EnterFps(rt, from) = [rt EXCEPT !.fps = v]
        BY DEF EnterFps
      <4>3. HasId(v)
        BY DEF HasId, NoFps
      <4> HIDE DEF v, from
      <4> QED BY <3>2, <4>1, <4>2, <4>3
    <3>3. CASE m.kind \in CastKinds /\ m.mode = "release" /\ rt.cast.id = m.id
      BY <3>0, <3>3 DEF CastKinds
    <3>4. CASE /\ m.kind \notin {"Observation", "Fire"}
               /\ ~(m.kind \in CastKinds /\ m.mode = "release" /\ rt.cast.id = m.id)
      BY <3>0, <3>4
    <3> QED BY <3>1, <3>2, <3>3, <3>4
  <2> HIDE DEF next
  <2>2. ASSUME m.kind \in {"Observation", "Fire"},
               \/ next = [rt EXCEPT !.pointers = @ \ {m.id}]
               \/ \E v : HasId(v) /\ next = [[rt EXCEPT !.fps = v] EXCEPT !.pointers = @ \ {m.id}]
        PROVE  Edging(g, j, next)
    <3>1. RuntimeShape(next) /\ next.pointers = rt.pointers \ {m.id} /\ next.cast = rt.cast
      BY <2>2 DEF Edging, RuntimeShape, RuntimeFields
    <3>2. PointersHeld(g, j, next)
      BY <1>0, <3>1 DEF Edging, PointersHeld
    <3>3. CastHeld(g, j, next)
      BY <1>0, <2>2, <3>1 DEF Edging, CastHeld, CastKinds
    <3> QED BY <3>1, <3>2, <3>3 DEF Edging
  <2>3. ASSUME m.kind \in CastKinds, m.mode = "release", rt.cast.id = m.id,
               next = [rt EXCEPT !.cast = NoCast]
        PROVE  Edging(g, j, next)
    <3>1. RuntimeShape(next) /\ next.pointers = rt.pointers /\ next.cast = NoCast
      BY <2>3, NoneHasId DEF Edging, RuntimeShape, RuntimeFields
    <3>2. PointersHeld(g, j, next)
      BY <1>0, <2>3, <3>1 DEF Edging, PointersHeld, CastKinds
    <3>3. CastHeld(g, j, next)
      BY <3>1 DEF CastHeld, NoCast
    <3> QED BY <3>1, <3>2, <3>3 DEF Edging
  <2>4. ASSUME m.kind \notin {"Observation", "Fire"},
               ~(m.kind \in CastKinds /\ m.mode = "release" /\ rt.cast.id = m.id),
               next = rt
        PROVE  Edging(g, j, next)
    <3>1. PointersHeld(g, j, rt)
      BY <1>0, <2>4 DEF Edging, PointersHeld
    <3>2. CastHeld(g, j, rt)
      BY <1>0, <2>4 DEF Edging, CastHeld
    <3> QED BY <2>4, <3>1, <3>2 DEF Edging
  <2>5. Edging(g, j, next)
    BY <2>1, <2>2, <2>3, <2>4
  <2> QED BY <2>5 DEF next
<1> QED BY <1>1, <1>2
ActivationsOf == INSTANCE FoldInduction WITH
    Op <- LAMBDA c, rt, m : Activate(rt, m, c.now, c.new),
    Good <- LAMBDA g, k, rt : Edging(g, 0, rt)
CancelsOf == INSTANCE FoldInduction WITH
    Op <- LAMBDA c, rt, m : CancelEdge(c.p, rt, m, c.now, c.new),
    Good <- LAMBDA g, k, rt : Edging(g, 0, rt)
DeactivationsOf == INSTANCE FoldInduction WITH
    Op <- LAMBDA c, rt, m : Deactivate(c.p, rt, m, c.before, c.now),
    Good <- LAMBDA g, k, rt : Edging(g, k, rt)
MovementsOf == INSTANCE FoldInduction WITH
    Op <- LAMBDA c, r, d : IF r.err THEN r ELSE ApplyDelta(c.p, r.rt, c.now, d, c.leaves),
    Good <- LAMBDA g, k, r : Fits(g.p, g.now, r.rt)

LEMMA MappingFact ==
    ASSUME NEW p, NEW id \in MapIds(p)
    PROVE  \E i \in DOMAIN p.maps : p.maps[i].id = id /\ Mapping(p, id) = p.maps[i]
BY DEF MapIds, Mapping

LEMMA ActivationsEdging ==
    ASSUME NEW g, IsSequence(g.p.maps), NEW rt, Edging(g, 0, rt)
    PROVE  Edging(g, 0, Activations(g.p, rt, g.now, g.new))
<1>1. Activations(g.p, rt, g.now, g.new) = ActivationsOf!Fold(g, rt, g.p.maps)
  BY DEF Activations, FoldLeft, MapThenFoldSet, Max, ActivationsOf!Fold
<1>2. g.p.maps \in Seq({g.p.maps[i] : i \in DOMAIN g.p.maps}) /\ DOMAIN g.p.maps = 1..Len(g.p.maps)
  BY SequenceShape DEF IsSequence
<1>3. ASSUME NEW k \in 1..Len(g.p.maps), NEW a, Edging(g, 0, a)
      PROVE  Edging(g, 0, Activate(a, g.p.maps[k], g.now, g.new))
  BY <1>2, <1>3, ActivateEdging
<1>4. Edging(g, 0, ActivationsOf!Fold(g, rt, g.p.maps))
  BY <1>2, <1>3, ActivationsOf!FoldKeeps
<1> QED BY <1>1, <1>4

LEMMA CancelsEdging ==
    ASSUME NEW g, IsSequence(g.p.maps), NEW rt, Edging(g, 0, rt)
    PROVE  Edging(g, 0, CancelEdges(g.p, rt, g.now, g.new))
<1>1. CancelEdges(g.p, rt, g.now, g.new) = CancelsOf!Fold(g, rt, g.p.maps)
  BY DEF CancelEdges, FoldLeft, MapThenFoldSet, Max, CancelsOf!Fold
<1>2. g.p.maps \in Seq({g.p.maps[i] : i \in DOMAIN g.p.maps})
  BY DEF IsSequence
<1>3. ASSUME NEW k \in 1..Len(g.p.maps), NEW a, Edging(g, 0, a)
      PROVE  Edging(g, 0, CancelEdge(g.p, a, g.p.maps[k], g.now, g.new))
  <2>1. RuntimeShape(a)
    BY <1>3 DEF Edging
  <2>2. Tame(a, CancelCast(g.p, a, g.p.maps[k].id))
    BY <2>1, CancelCastTame
  <2>3. Edging(g, 0, CancelCast(g.p, a, g.p.maps[k].id))
    BY <1>3, <2>2, TameEdging
  <2> QED BY <1>3, <2>3 DEF CancelEdge
<1>4. Edging(g, 0, CancelsOf!Fold(g, rt, g.p.maps))
  BY <1>2, <1>3, CancelsOf!FoldKeeps
<1> QED BY <1>1, <1>4

LEMMA DeactivationsFit ==
    ASSUME NEW g, IsSequence(g.p.maps), NEW rt, Edging(g, 0, rt)
    PROVE  Fits(g.p, g.now, Deactivations(g.p, rt, g.before, g.now))
<1>1. Deactivations(g.p, rt, g.before, g.now) = DeactivationsOf!Fold(g, rt, g.p.maps)
  BY DEF Deactivations, FoldLeft, MapThenFoldSet, Max, DeactivationsOf!Fold
<1>2. g.p.maps \in Seq({g.p.maps[i] : i \in DOMAIN g.p.maps})
  BY DEF IsSequence
<1>3. ASSUME NEW k \in 1..Len(g.p.maps), NEW a, Edging(g, k - 1, a)
      PROVE  Edging(g, k, Deactivate(g.p, a, g.p.maps[k], g.before, g.now))
  BY <1>3, DeactivateEdging
<1>4. Edging(g, Len(g.p.maps), DeactivationsOf!Fold(g, rt, g.p.maps))
  BY <1>2, <1>3, DeactivationsOf!FoldKeeps
<1> QED BY <1>1, <1>4, LastEdge

\* A movement moves a pointer whose binding is held.
LEMMA DeltaFits ==
    ASSUME NEW p, NEW keys, NEW rt, Fits(p, keys, rt), NEW id, NEW leaves
    PROVE  Fits(p, keys, ApplyDelta(p, rt, keys, id, leaves).rt)
<1> DEFINE m == Mapping(p, id)
           next == ApplyDelta(p, rt, keys, id, leaves).rt
           f == [p |-> p, before |-> keys, now |-> keys]
<1>1. Edging(f, 0, rt) /\ f.p = p /\ f.now = keys
  BY DEF Fits
<1>2. CASE id \notin MapIds(p)
  BY <1>2 DEF ApplyDelta, Failed
<1>3. CASE id \in MapIds(p)
  <2>1. \/ next = rt \/ next = MoveFps(p, rt, leaves)
        \/ m.kind \in {"Observation", "Fire"} /\ Bound(keys, m.bind) /\ next = [rt EXCEPT !.pointers = @ \cup {m.id}]
    <3> DEFINE here == m.kind = "Observation" \/ (m.kind = "Fire" /\ ~m.preserve)
    <3>1. CASE here
      BY <1>3, <3>1 DEF ApplyDelta, Done, Failed
    <3>2. CASE ~here /\ m.kind = "Fps" /\ rt.fps.id = m.id
      BY <1>3, <3>2 DEF ApplyDelta, Done, Failed
    <3>3. CASE ~here /\ ~(m.kind = "Fps" /\ rt.fps.id = m.id)
      BY <1>3, <3>3 DEF ApplyDelta, Done, Failed
    <3> QED BY <3>1, <3>2, <3>3
  <2>2. PICK i \in DOMAIN p.maps : p.maps[i].id = id /\ m = p.maps[i]
    BY <1>3, MappingFact
  <2> HIDE DEF next, m, f
  <2>3. Edging(f, 0, MoveFps(p, rt, leaves))
    <3>1. Tame(rt, MoveFps(p, rt, leaves))
      BY <1>1, MoveFpsTame DEF Edging
    <3> QED BY <1>1, <3>1, TameEdging
  <2>4. ASSUME m.kind \in {"Observation", "Fire"}, Bound(keys, m.bind),
               next = [rt EXCEPT !.pointers = @ \cup {m.id}]
        PROVE  Edging(f, 0, next)
    <3>1. RuntimeShape(next) /\ next.pointers = rt.pointers \cup {m.id} /\ next.cast = rt.cast
      BY <1>1, <2>4 DEF Edging, RuntimeShape, RuntimeFields
    <3>2. StillHeld(f, 0, i)
      BY <1>1, <2>2, <2>4 DEF StillHeld
    <3>3. PointersHeld(f, 0, next)
      BY <1>1, <2>2, <2>4, <3>1, <3>2 DEF Edging, PointersHeld
    <3> QED BY <1>1, <3>1, <3>3 DEF Edging, CastHeld
  <2>5. Edging(f, 0, next)
    BY <1>1, <2>1, <2>3, <2>4
  <2> QED BY <2>5 DEF Fits, next, f
<1> QED BY <1>2, <1>3

LEMMA MovementsFit ==
    ASSUME NEW g, NEW r, Fits(g.p, g.now, r.rt), NEW deltas, IsSequence(deltas)
    PROVE  Fits(g.p, g.now, Movements(g.p, r, g.now, deltas, g.leaves).rt)
<1>1. Movements(g.p, r, g.now, deltas, g.leaves) = MovementsOf!Fold(g, r, deltas)
  BY DEF Movements, FoldLeft, MapThenFoldSet, Max, MovementsOf!Fold
<1>2. deltas \in Seq({deltas[i] : i \in DOMAIN deltas})
  BY DEF IsSequence
<1>3. ASSUME NEW k \in 1..Len(deltas), NEW a, Fits(g.p, g.now, a.rt)
      PROVE  Fits(g.p, g.now, (IF a.err THEN a ELSE ApplyDelta(g.p, a.rt, g.now, deltas[k], g.leaves)).rt)
  BY <1>3, DeltaFits
<1>4. Fits(g.p, g.now, MovementsOf!Fold(g, r, deltas).rt)
  BY <1>2, <1>3, MovementsOf!FoldKeeps
<1> QED BY <1>1, <1>4

LEMMA TameFits ==
    ASSUME NEW p, NEW keys, NEW a, NEW b, Fits(p, keys, a), Tame(a, b)
    PROVE  Fits(p, keys, b)
BY TameEdging DEF Fits

\* An accepted input leaves the controllers with bindings that are held now.
LEMMA UpdateFits ==
    ASSUME NEW p, CompiledShape(p), NEW before, NEW now, NEW rt, Fits(p, before, rt),
           NEW axes, NEW deltas, IsSequence(deltas), NEW leaves,
           ~UpdateRuntime(p, rt, before, now, axes, deltas, leaves).err
    PROVE  Fits(p, now, UpdateRuntime(p, rt, before, now, axes, deltas, leaves).rt)
<1> DEFINE g == [p |-> p, before |-> before, now |-> now, new |-> now \ before, leaves |-> leaves]
           axed == [rt EXCEPT !.axes = axes]
           ticked == Done(TickRuntime(p, axed, leaves))
           edges == ScriptEdges(p, ticked, before, now)
           hooks == HookEdges(p, edges, before, now)
           scripted == TickScripts(p, hooks)
           activated == Activations(p, scripted.rt, now, now \ before)
           cancelled == CancelEdges(p, activated, now, now \ before)
           edged == Deactivations(p, cancelled, before, now)
<1>0. g.p = p /\ g.before = before /\ g.now = now /\ g.new = now \ before /\ g.leaves = leaves
  OBVIOUS
<1>1. UpdateRuntime(p, rt, before, now, axes, deltas, leaves) =
        IF scripted.err THEN scripted ELSE Movements(p, Done(edged), now, deltas, leaves)
  BY DEF UpdateRuntime, ApplyEdges
<1> HIDE DEF g
<1>2. Tame(rt, axed) /\ RuntimeShape(axed)
  BY TameElsewhere DEF Fits, Edging, Tame
<1> HIDE DEF axed
<1>3. Tame(axed, ticked.rt) /\ RuntimeShape(ticked.rt)
  BY <1>2, TickTame DEF Done, Tame
<1> HIDE DEF ticked
<1>4. Tame(ticked.rt, edges.rt) /\ RuntimeShape(edges.rt)
  <2>1. Tame(ticked.rt, ScriptEdges(p, ticked, g.before, g.now).rt)
    BY <1>3, ScriptEdgesTame
  <2> QED BY <1>0, <2>1 DEF Tame
<1> HIDE DEF edges
<1>5. Tame(edges.rt, hooks.rt) /\ RuntimeShape(hooks.rt)
  <2>1. Tame(edges.rt, HookEdges(p, edges, g.before, g.now).rt)
    BY <1>4, HookEdgesTame
  <2> QED BY <1>0, <2>1 DEF Tame
<1> HIDE DEF hooks
<1>6. Tame(hooks.rt, scripted.rt)
  BY <1>5, TickScriptsTame
<1> HIDE DEF scripted
<1>7. Tame(rt, scripted.rt)
  BY <1>2, <1>3, <1>4, <1>5, <1>6, TameAgain
<1>8. Fits(p, before, scripted.rt)
  BY <1>7, TameFits
<1>9. IsSequence(p.maps)
  BY DEF CompiledShape
<1>10. Edging(g, 0, scripted.rt)
  BY <1>0, <1>8, <1>9, FirstEdge
<1>11. Edging(g, 0, activated)
  BY <1>0, <1>9, <1>10, ActivationsEdging
<1> HIDE DEF activated
<1>12. Edging(g, 0, cancelled)
  BY <1>0, <1>9, <1>11, CancelsEdging
<1> HIDE DEF cancelled
<1>13. Fits(p, now, edged)
  BY <1>0, <1>9, <1>12, DeactivationsFit
<1> HIDE DEF edged
<1>14. Fits(p, now, Movements(p, Done(edged), now, deltas, leaves).rt)
  <2>1. Done(edged).rt = edged
    BY DEF Done
  <2>2. Fits(g.p, g.now, Done(edged).rt)
    BY <1>0, <1>13, <2>1
  <2>3. Fits(g.p, g.now, Movements(g.p, Done(edged), g.now, deltas, g.leaves).rt)
    BY <2>2, MovementsFit
  <2> QED BY <1>0, <2>3
<1> QED BY <1>1, <1>14
----------------------------------------------------------------------------
(* Frames.  Every contact of a frame has a cause: a held binding, a pulse, *)
(* a controller or a script.  g is what a frame is made of.                *)

Caused(g, id) ==
    \/ id = g.rt.fps.id \/ id = g.rt.cast.id \/ id = g.rt.cancel.id
    \/ id \in DOMAIN g.rt.pulses
    \/ \E j \in DOMAIN g.rt.scriptContacts : g.rt.scriptContacts[j] = id
    \/ \E i \in DOMAIN g.p.maps :
          /\ g.p.maps[i].id = id
          /\ \/ g.p.maps[i].kind \in {"Observation", "Fire"} /\ Bound(g.keys, g.p.maps[i].bind)
             \/ MatchesInput(g.p.maps[i], EffectiveHeld(g.p, g.keys))
             \/ g.p.maps[i].axes \cap g.rt.axes # {}

AllCaused(g, cs) == IsSequence(cs) /\ \A i \in DOMAIN cs : Caused(g, cs[i].id)

LEMMA NoneCaused == \A g : AllCaused(g, <<>>)
BY NothingIsSequence DEF AllCaused

LEMMA AppendCaused ==
    ASSUME NEW g, NEW cs, AllCaused(g, cs), NEW c, Caused(g, c.id)
    PROVE  AllCaused(g, Append(cs, c))
<1> DEFINE S == {cs[i] : i \in DOMAIN cs} \cup {c}
<1>1. cs \in Seq(S)
  BY SeqMonotonic DEF AllCaused, IsSequence
<1>2. c \in S
  OBVIOUS
<1> HIDE DEF S
<1>3. /\ Len(cs) \in Nat /\ DOMAIN cs = 1..Len(cs)
      /\ DOMAIN Append(cs, c) = 1..(Len(cs) + 1)
      /\ \A i \in 1..Len(cs) : Append(cs, c)[i] = cs[i]
      /\ Append(cs, c)[Len(cs) + 1] = c
  BY <1>1, <1>2
<1>4. ASSUME NEW i \in 1..(Len(cs) + 1) PROVE Caused(g, Append(cs, c)[i].id)
  <2>1. CASE i = Len(cs) + 1
    BY <1>3, <2>1
  <2>2. CASE i # Len(cs) + 1
    <3>1. i \in 1..Len(cs)
      BY <1>3, <2>2
    <3> QED BY <1>3, <3>1 DEF AllCaused
  <2> QED BY <2>1, <2>2
<1>5. IsSequence(Append(cs, c))
  BY AppendIsSequence DEF AllCaused
<1> QED BY <1>3, <1>4, <1>5 DEF AllCaused

LEMMA AddCaused ==
    ASSUME NEW g, NEW cs, AllCaused(g, cs), NEW identity, NEW id, Caused(g, id)
    PROVE  AllCaused(g, AddContact(cs, identity, id))
<1> DEFINE c == [identity |-> identity, id |-> id]
<1>1. AllCaused(g, Append(cs, c))
  <2>1. c.id = id
    OBVIOUS
  <2> HIDE DEF c
  <2> QED BY <2>1, AppendCaused
<1> QED BY <1>1 DEF AddContact

\* An ordinary mapping touches only when its binding is held, its axis is
\* moved or its pulse runs.
LEMMA TouchCaused ==
    ASSUME NEW m, NEW rt, NEW keys, NEW since, Evaluate(m, rt, keys, since).touching
    PROVE  MatchesInput(m, keys) \/ m.axes \cap rt.axes # {} \/ m.id \in DOMAIN rt.pulses
<1>1. CASE m.kind \in PadKinds
  <2>1. EvaluatePad(m, keys, rt.axes).touching
    BY <1>1 DEF Evaluate
  <2>2. CASE m.axes # {}
    BY <2>1, <2>2 DEF EvaluatePad
  <2>3. CASE m.axes = {}
    <3>1. Bound(keys, m.pad.up) # Bound(keys, m.pad.down) \/ Bound(keys, m.pad.left) # Bound(keys, m.pad.right)
      BY <2>1, <2>3 DEF EvaluatePad
    <3>2. \/ Bound(keys, m.pad.up) \/ Bound(keys, m.pad.down)
          \/ Bound(keys, m.pad.left) \/ Bound(keys, m.pad.right)
      BY <3>1 DEF Bound
    <3>3. PadKeys(m) \cap keys # {}
      BY <3>2 DEF Bound, PadKeys
    <3> QED BY <1>1, <3>3 DEF MatchesInput, PressedKeys
  <2> QED BY <2>2, <2>3
<1>2. CASE m.kind \notin PadKinds
  <2>1. \E elapsed : EvaluateBound(m, keys, elapsed, m.id \in DOMAIN rt.pulses).touching
    BY <1>2 DEF Evaluate
  <2>2. (m.id \in DOMAIN rt.pulses) \/ Bound(keys, m.bind)
    BY <2>1 DEF EvaluateBound
  <2> QED BY <1>2, <2>2 DEF MatchesInput
<1> QED BY <1>1, <1>2

PlaceFields == {"leases", "used", "claimed", "contacts", "skipped"}
Placed(g, acc) == acc = [f \in PlaceFields |-> acc[f]] /\ AllCaused(g, acc.contacts)
MergeFields == {"contacts", "skipped", "leases"}
Composed(g, acc) == acc = [f \in MergeFields |-> acc[f]] /\ AllCaused(g, acc.contacts)

PlacesOf == INSTANCE FoldInduction WITH
    Op <- LAMBDA c, acc, m : Place(acc, m, Evaluate(m, c.rt, c.eff, c.since), c.reserved),
    Good <- LAMBDA g, k, acc : Placed(g, acc)
ScriptContactsOf == INSTANCE FoldInduction WITH
    Op <- LAMBDA c, cs, i : IF i \in DOMAIN c.scriptContacts THEN AddContact(cs, i, c.scriptContacts[i]) ELSE cs,
    Good <- LAMBDA g, k, cs : AllCaused(g, cs)
PointersOf == INSTANCE FoldInduction WITH
    Op <- LAMBDA c, cs, m : IF PointerShown(c.rt, m, c.keys) THEN AddContact(cs, m.identity, m.id) ELSE cs,
    Good <- LAMBDA g, k, cs : AllCaused(g, cs)
MergesOf == INSTANCE FoldInduction WITH
    Op <- LAMBDA c, acc, x : Merge(acc, x, Hidden(c.p, c.rt, x)),
    Good <- LAMBDA g, k, acc : Composed(g, acc)

LEMMA PlaceCaused ==
    ASSUME NEW g, NEW acc, Placed(g, acc), NEW i \in DOMAIN g.p.maps, NEW since, NEW reserved
    PROVE  Placed(g, Place(acc, g.p.maps[i],
                           Evaluate(g.p.maps[i], g.rt, EffectiveHeld(g.p, g.keys), since), reserved))
<1> DEFINE m == g.p.maps[i]
           e == Evaluate(m, g.rt, EffectiveHeld(g.p, g.keys), since)
           next == Place(acc, m, e, reserved)
<1>1. \/ next = acc
      \/ \E u, v : next = [acc EXCEPT !.claimed = u, !.skipped = v]
      \/ e.touching /\ \E u, v, w, x :
            next = [acc EXCEPT !.claimed = u, !.leases = v, !.used = w,
                               !.contacts = Append(@, [identity |-> x, id |-> m.id])]
  <2> HIDE DEF e, m
  <2> DEFINE mine == IF m.id \in DOMAIN acc.leases THEN {acc.leases[m.id]} \ reserved ELSE {}
             got == Lease(acc.leases, m.id, m.identity, acc.used \ mine)
             x == CHOOSE y \in got : TRUE
             u == acc.claimed \cup e.claims
             v == acc.skipped \cup {m.id}
             l == With(acc.leases, m.id, x)
             w == acc.used \cup {x}
  <2>1. \/ next = acc
        \/ next = [acc EXCEPT !.claimed = u, !.skipped = v]
        \/ e.touching /\ next = [acc EXCEPT !.claimed = u, !.leases = l, !.used = w,
                                            !.contacts = Append(@, [identity |-> x, id |-> m.id])]
    BY DEF Place
  <2> HIDE DEF next, u, v, l, w, x
  <2> QED BY <2>1
<1>2. ASSUME e.touching PROVE Caused(g, m.id)
  <2>1. MatchesInput(m, EffectiveHeld(g.p, g.keys)) \/ m.axes \cap g.rt.axes # {} \/ m.id \in DOMAIN g.rt.pulses
    BY <1>2, TouchCaused
  <2> QED BY <2>1 DEF Caused
<1> HIDE DEF next, e, m
<1>3. ASSUME NEW u, NEW v, next = [acc EXCEPT !.claimed = u, !.skipped = v]
      PROVE  Placed(g, next)
  BY <1>3 DEF Placed, PlaceFields
<1>4. ASSUME NEW u, NEW v, NEW w, NEW x, e.touching,
             next = [acc EXCEPT !.claimed = u, !.leases = v, !.used = w,
                                !.contacts = Append(@, [identity |-> x, id |-> m.id])]
      PROVE  Placed(g, next)
  <2> DEFINE c == [identity |-> x, id |-> m.id]
  <2>1. c.id = m.id
    OBVIOUS
  <2>2. next = [f \in PlaceFields |-> next[f]] /\ next.contacts = Append(acc.contacts, c)
    BY <1>4 DEF Placed, PlaceFields
  <2> HIDE DEF c
  <2>3. AllCaused(g, Append(acc.contacts, c))
    BY <1>2, <1>4, <2>1, AppendCaused DEF Placed
  <2> QED BY <2>2, <2>3 DEF Placed
<1>5. Placed(g, next)
  <2>1. CASE next = acc
    BY <2>1
  <2>2. CASE \E u, v : next = [acc EXCEPT !.claimed = u, !.skipped = v]
    BY <2>2, <1>3
  <2>3. CASE e.touching /\ \E u, v, w, x :
            next = [acc EXCEPT !.claimed = u, !.leases = v, !.used = w,
                               !.contacts = Append(@, [identity |-> x, id |-> m.id])]
    BY <2>3, <1>4
  <2> QED BY <1>1, <2>1, <2>2, <2>3
<1> QED BY <1>5 DEF next, e, m
\* The ordinary contacts.
LEMMA OrdinaryCaused ==
    ASSUME NEW g, IsSequence(g.p.maps), NEW since, NEW reserved
    PROVE  AllCaused(g, OrdinaryFrame(g.p, g.rt, g.keys, since, reserved).contacts)
<1> DEFINE eff == EffectiveHeld(g.p, g.keys)
           c == [rt |-> g.rt, eff |-> eff, since |-> since, reserved |-> reserved]
           matched == {id \in MapIds(g.p) : /\ Ordinary(Mapping(g.p, id))
                                            /\ Evaluate(Mapping(g.p, id), g.rt, eff, since).matched}
           kept == [id \in DOMAIN g.rt.leases \cap matched |-> g.rt.leases[id]]
           base == [leases |-> kept, used |-> reserved \cup {kept[id] : id \in DOMAIN kept},
                    claimed |-> {}, contacts |-> <<>>, skipped |-> {}]
<1>1. OrdinaryFrame(g.p, g.rt, g.keys, since, reserved) = PlaceAll(g.p, g.rt, eff, since, reserved, base)
  BY DEF OrdinaryFrame
<1>2. c.rt = g.rt /\ c.eff = eff /\ c.since = since /\ c.reserved = reserved
  OBVIOUS
<1>3. Placed(g, base)
  <2> HIDE DEF kept
  <2> QED BY NoneCaused DEF Placed, PlaceFields
<1> HIDE DEF c, base
<1>4. PlaceAll(g.p, c.rt, c.eff, c.since, c.reserved, base) = PlacesOf!Fold(c, base, g.p.maps)
  BY DEF PlaceAll, FoldLeft, MapThenFoldSet, Max, PlacesOf!Fold
<1>5. g.p.maps \in Seq({g.p.maps[i] : i \in DOMAIN g.p.maps}) /\ DOMAIN g.p.maps = 1..Len(g.p.maps)
  BY SequenceShape DEF IsSequence
<1>6. ASSUME NEW k \in 1..Len(g.p.maps), NEW a, Placed(g, a)
      PROVE  Placed(g, Place(a, g.p.maps[k], Evaluate(g.p.maps[k], c.rt, c.eff, c.since), c.reserved))
  BY <1>2, <1>5, <1>6, PlaceCaused
<1>7. Placed(g, PlacesOf!Fold(c, base, g.p.maps))
  BY <1>3, <1>5, <1>6, PlacesOf!FoldKeeps
<1> QED BY <1>1, <1>2, <1>4, <1>7 DEF Placed

\* The contacts of the controllers.
LEMMA ControllersCaused ==
    ASSUME NEW g, IsSequence(g.p.maps)
    PROVE  AllCaused(g, ControllerContacts(g.p, g.rt, g.keys))
<1> DEFINE scripts == ScriptContacts(g.rt)
           pointers == PointerContacts(g.p, g.rt, g.keys, scripts)
<1>1. AllCaused(g, scripts)
  <2> DEFINE ids == [i \in 1..ContactLimit |-> i - 1]
             c == g.rt
  <2>1. ids \in Seq(Int)
    BY KeymapBoundsAssumption
  <2> HIDE DEF ids, c
  <2>2. ScriptContacts(c) = ScriptContactsOf!Fold(c, <<>>, ids)
    BY DEF ScriptContacts, FoldLeft, MapThenFoldSet, Max, ScriptContactsOf!Fold, ids
  <2>3. ASSUME NEW k \in 1..Len(ids), NEW a, AllCaused(g, a)
        PROVE  AllCaused(g, IF ids[k] \in DOMAIN c.scriptContacts
                            THEN AddContact(a, ids[k], c.scriptContacts[ids[k]]) ELSE a)
    <3>1. CASE ids[k] \in DOMAIN c.scriptContacts
      <4>1. Caused(g, c.scriptContacts[ids[k]])
        BY <3>1 DEF Caused, c
      <4> QED BY <2>3, <3>1, <4>1, AddCaused
    <3> QED BY <2>3, <3>1
  <2>4. AllCaused(g, ScriptContactsOf!Fold(c, <<>>, ids))
    BY <2>1, <2>3, NoneCaused, ScriptContactsOf!FoldKeeps
  <2> QED BY <2>2, <2>4 DEF c
<1> HIDE DEF scripts
<1>2. AllCaused(g, pointers)
  <2>1. PointerContacts(g.p, g.rt, g.keys, scripts) = PointersOf!Fold(g, scripts, g.p.maps)
    BY DEF PointerContacts, FoldLeft, MapThenFoldSet, Max, PointersOf!Fold
  <2>2. g.p.maps \in Seq({g.p.maps[i] : i \in DOMAIN g.p.maps}) /\ DOMAIN g.p.maps = 1..Len(g.p.maps)
    BY SequenceShape DEF IsSequence
  <2>3. ASSUME NEW k \in 1..Len(g.p.maps), NEW a, AllCaused(g, a)
        PROVE  AllCaused(g, IF PointerShown(g.rt, g.p.maps[k], g.keys)
                            THEN AddContact(a, g.p.maps[k].identity, g.p.maps[k].id) ELSE a)
    <3>1. CASE PointerShown(g.rt, g.p.maps[k], g.keys)
      <4>1. Caused(g, g.p.maps[k].id)
        BY <2>2, <3>1 DEF Caused, PointerShown
      <4> QED BY <2>3, <3>1, <4>1, AddCaused
    <3> QED BY <2>3, <3>1
  <2>4. AllCaused(g, PointersOf!Fold(g, scripts, g.p.maps))
    BY <1>1, <2>2, <2>3, PointersOf!FoldKeeps
  <2> QED BY <2>1, <2>4
<1> HIDE DEF pointers
<1> DEFINE rt == g.rt
           shown == rt.fps # NoFps /\ HookReady(rt, rt.fps.id) /\ ~Interrupted(g.p, rt, g.keys)
           fps1 == IF shown /\ rt.fps.touching THEN AddContact(pointers, rt.fps.identity, rt.fps.id) ELSE pointers
           fps2 == IF shown /\ rt.fps.old # -1 THEN AddContact(fps1, rt.fps.old, rt.fps.id) ELSE fps1
           cast == IF rt.cast # NoCast /\ HookReady(rt, rt.cast.id)
                   THEN AddContact(fps2, Mapping(g.p, rt.cast.id).identity, rt.cast.id) ELSE fps2
           all == IF rt.cancel # NoCancel /\ HookReady(rt, rt.cancel.id)
                  THEN AddContact(cast, rt.cancel.identity, rt.cancel.id) ELSE cast
<1>3. ControllerContacts(g.p, g.rt, g.keys) = all
  BY DEF ControllerContacts, pointers, scripts
<1>4. Caused(g, rt.fps.id) /\ Caused(g, rt.cast.id) /\ Caused(g, rt.cancel.id)
  BY DEF Caused
<1> HIDE DEF shown
<1>5. AllCaused(g, fps1)
  BY <1>2, <1>4, AddCaused
<1> HIDE DEF fps1
<1>6. AllCaused(g, fps2)
  BY <1>4, <1>5, AddCaused
<1> HIDE DEF fps2
<1>7. AllCaused(g, cast)
  BY <1>4, <1>6, AddCaused
<1> HIDE DEF cast
<1>8. AllCaused(g, all)
  BY <1>4, <1>7, AddCaused
<1> QED BY <1>3, <1>8

\* A frame adds the ordinary contacts to those of the controllers.
LEMMA ComposeCaused ==
    ASSUME NEW g, NEW controllers, AllCaused(g, controllers), NEW base, AllCaused(g, base.contacts)
    PROVE  AllCaused(g, Compose(g.p, g.rt, controllers, base).contacts)
<1> DEFINE start == [contacts |-> controllers, skipped |-> base.skipped, leases |-> base.leases]
<1>1. Compose(g.p, g.rt, controllers, base) = MergesOf!Fold(g, start, base.contacts)
  BY DEF Compose, FoldLeft, MapThenFoldSet, Max, MergesOf!Fold
<1>2. Composed(g, start)
  BY DEF Composed, MergeFields
<1> HIDE DEF start
<1>3. base.contacts \in Seq({base.contacts[i] : i \in DOMAIN base.contacts})
      /\ DOMAIN base.contacts = 1..Len(base.contacts)
  BY SequenceShape DEF AllCaused, IsSequence
<1>4. ASSUME NEW k \in 1..Len(base.contacts), NEW a, Composed(g, a)
      PROVE  Composed(g, Merge(a, base.contacts[k], Hidden(g.p, g.rt, base.contacts[k])))
  <2> DEFINE x == base.contacts[k]
             cs == AddContact(a.contacts, x.identity, x.id)
             next == Merge(a, x, Hidden(g.p, g.rt, x))
  <2>1. Caused(g, x.id)
    BY <1>3 DEF AllCaused
  <2> HIDE DEF x
  <2>2. AllCaused(g, cs)
    BY <1>4, <2>1, AddCaused DEF Composed
  <2>3. \/ next = a \/ next = [a EXCEPT !.skipped = @ \cup {x.id}]
        \/ next = [a EXCEPT !.contacts = cs]
    BY DEF Merge
  <2> HIDE DEF cs, next
  <2>4. Composed(g, next)
    BY <1>4, <2>2, <2>3 DEF Composed, MergeFields
  <2> QED BY <2>4 DEF next, x
<1>5. Composed(g, MergesOf!Fold(g, start, base.contacts))
  BY <1>2, <1>3, <1>4, MergesOf!FoldKeeps
<1> QED BY <1>1, <1>5 DEF Composed

\* A frame that does not fail keeps the controllers, gives its script actions
\* as a sequence, and shows caused contacts only.
LEMMA FrameFacts ==
    ASSUME NEW p, CompiledShape(p), NEW rt0, NEW keys, Fits(p, keys, rt0),
           NEW since, NEW external, NEW leaves
    PROVE  LET f == Frame(p, rt0, keys, since, external, leaves)
           IN  /\ Fits(p, keys, f.rt) /\ IsSequence(f.output)
               /\ AllCaused([p |-> p, rt |-> f.rt, keys |-> keys], f.contacts)
<1> DEFINE ticked == Done(TickRuntime(p, rt0, leaves))
           scripts == HeldScripts(p, ticked)
           run == TickScripts(p, scripts)
           rt == run.rt
           g == [p |-> p, rt |-> rt, keys |-> keys]
           base == OrdinaryFrame(p, rt, keys, since, external \cup Reserved(p, rt, keys))
           controllers == ControllerContacts(p, rt, keys)
           all == Compose(p, rt, controllers, base)
           next == [rt EXCEPT !.leases = all.leases, !.output = <<>>]
           f == Frame(p, rt0, keys, since, external, leaves)
           h == [p |-> p, rt |-> next, keys |-> keys]
<1>1. f.rt = next /\ f.contacts = all.contacts /\ f.output = rt.output
  BY DEF Frame, FrameOf
<1>2. IsSequence(p.maps) /\ g.p = p /\ g.rt = rt /\ g.keys = keys
  BY DEF CompiledShape
<1>3. h.p = p /\ h.rt = next /\ h.keys = keys
  OBVIOUS
<1>4. Tame(rt0, rt)
  <2>1. Tame(rt0, ticked.rt) /\ RuntimeShape(ticked.rt)
    BY TickTame DEF Done, Fits, Edging, Tame
  <2> HIDE DEF ticked
  <2>2. Tame(ticked.rt, scripts.rt) /\ RuntimeShape(scripts.rt)
    BY <2>1, HeldScriptsTame DEF Tame
  <2> HIDE DEF scripts
  <2>3. Tame(scripts.rt, rt)
    BY <2>2, TickScriptsTame
  <2> QED BY <2>1, <2>2, <2>3, TameAgain
<1> HIDE DEF g, h, rt, f
<1>5. RuntimeShape(rt)
  BY <1>4 DEF Tame
<1>6. AllCaused(g, base.contacts)
  BY <1>2, OrdinaryCaused
<1>7. AllCaused(g, controllers)
  BY <1>2, ControllersCaused
<1> HIDE DEF base, controllers
<1>8. AllCaused(g, all.contacts)
  BY <1>2, <1>6, <1>7, ComposeCaused
<1> HIDE DEF all
<1>9. /\ next.fps = rt.fps /\ next.cast = rt.cast /\ next.cancel = rt.cancel /\ next.pulses = rt.pulses
      /\ next.scriptContacts = rt.scriptContacts /\ next.axes = rt.axes
  BY <1>5 DEF RuntimeShape, RuntimeFields
<1>10. Tame(rt, next)
  BY <1>5, NothingIsSequence DEF Tame, RuntimeShape, RuntimeFields
<1> HIDE DEF next
<1>11. ASSUME NEW id, Caused(g, id) PROVE Caused(h, id)
  BY <1>2, <1>3, <1>9, <1>11 DEF Caused
<1>12. AllCaused(h, all.contacts)
  BY <1>8, <1>11 DEF AllCaused
<1>13. Fits(p, keys, next)
  BY <1>4, <1>10, TameAgain, TameFits
<1>14. IsSequence(rt.output)
  BY <1>5 DEF RuntimeShape
<1>15. h = [p |-> p, rt |-> f.rt, keys |-> keys]
  BY <1>1 DEF h
<1> QED BY <1>1, <1>12, <1>13, <1>14, <1>15 DEF f
----------------------------------------------------------------------------
(* The session.  g is what the device and the session agreed on before.    *)

Emitted(g, s) ==
    /\ s = <<s[1], s[2], s[3]>>
    /\ s[3] = [touches |-> g.touches, keys |-> s[1], buttons |-> s[3].buttons]
    /\ s[3].buttons \subseteq g.buttons \cup s[2]

\* Contacts of the last report: direct ones, and ones of a frame.
Shown(g, cs) == IsSequence(cs) /\ \A i \in DOMAIN cs : cs[i].id = None \/ Caused(g, cs[i].id)

EmitsOf == INSTANCE FoldInduction WITH
    Op <- LAMBDA c, s, a : Emit(s, a),
    Good <- LAMBDA g, k, s : Emitted(g, s)
ReportsOf == INSTANCE FoldInduction WITH
    Op <- LAMBDA c, acc, x : AddReported(acc, x),
    Good <- LAMBDA g, k, acc : Shown(g, acc)

\* A script action changes the keys and buttons of the device and of the
\* session alike.
LEMMA EmitAgrees ==
    ASSUME NEW g, NEW s, Emitted(g, s), NEW a
    PROVE  Emitted(g, Emit(s, a))
<1> DEFINE keys == s[1]
           pressed == s[2]
           d == s[3]
           next(k, b, e) == <<k, b, e>>
<1>1. /\ d = [touches |-> g.touches, keys |-> keys, buttons |-> d.buttons]
      /\ d.buttons \subseteq g.buttons \cup pressed
  BY DEF Emitted
<1>2. ASSUME NEW k, NEW b, NEW e,
             e = [touches |-> g.touches, keys |-> k, buttons |-> e.buttons],
             e.buttons \subseteq g.buttons \cup b
      PROVE  Emitted(g, next(k, b, e))
  BY <1>2 DEF Emitted
<1> HIDE DEF keys, pressed, d
<1>3. CASE a.type = "keyDown"
  <2> DEFINE k == keys \cup {a.key}
             e == [d EXCEPT !.keys = @ \cup {a.key}]
  <2>1. e = [touches |-> g.touches, keys |-> k, buttons |-> e.buttons] /\ e.buttons = d.buttons
    BY <1>1
  <2>2. Emit(s, a) = next(k, pressed, e)
    BY <1>3 DEF Emit, keys, pressed, d
  <2> HIDE DEF k, e, next
  <2> QED BY <1>1, <1>2, <2>1, <2>2
<1>4. CASE a.type = "keyUp"
  <2> DEFINE k == keys \ {a.key}
             e == [d EXCEPT !.keys = @ \ ({a.key} \cap keys)]
  <2>1. e = [touches |-> g.touches, keys |-> k, buttons |-> e.buttons] /\ e.buttons = d.buttons
    <3>1. keys \ ({a.key} \cap keys) = k
      OBVIOUS
    <3> HIDE DEF k
    <3> QED BY <1>1, <3>1
  <2>2. Emit(s, a) = next(k, pressed, e)
    BY <1>4 DEF Emit, keys, pressed, d
  <2> HIDE DEF k, e, next
  <2> QED BY <1>1, <1>2, <2>1, <2>2
<1>5. CASE a.type = "buttonDown"
  <2> DEFINE b == pressed \cup {a.key}
             e == [d EXCEPT !.buttons = @ \cup ({a.key} \ pressed)]
  <2>1. /\ e = [touches |-> g.touches, keys |-> keys, buttons |-> e.buttons]
        /\ e.buttons = d.buttons \cup ({a.key} \ pressed)
    BY <1>1
  <2>2. Emit(s, a) = next(keys, b, e)
    BY <1>5 DEF Emit, keys, pressed, d
  <2> HIDE DEF e, next
  <2>3. e.buttons \subseteq g.buttons \cup b
    BY <1>1, <2>1
  <2> HIDE DEF b
  <2> QED BY <1>2, <2>1, <2>2, <2>3
<1>6. CASE a.type = "buttonUp"
  <2> DEFINE b == pressed \ {a.key}
             e == [d EXCEPT !.buttons = @ \ ({a.key} \cap pressed)]
  <2>1. /\ e = [touches |-> g.touches, keys |-> keys, buttons |-> e.buttons]
        /\ e.buttons = d.buttons \ ({a.key} \cap pressed)
    BY <1>1
  <2>2. Emit(s, a) = next(keys, b, e)
    BY <1>6 DEF Emit, keys, pressed, d
  <2> HIDE DEF e, next
  <2>3. e.buttons \subseteq g.buttons \cup b
    BY <1>1, <2>1
  <2> HIDE DEF b
  <2> QED BY <1>2, <2>1, <2>2, <2>3
<1>7. CASE a.type \notin {"keyDown", "keyUp", "buttonDown", "buttonUp"}
  BY <1>7 DEF Emit
<1> QED BY <1>3, <1>4, <1>5, <1>6, <1>7

LEMMA EmitAllAgrees ==
    ASSUME NEW g, NEW s, Emitted(g, s), NEW actions, IsSequence(actions)
    PROVE  Emitted(g, EmitAll(s, actions))
<1>1. EmitAll(s, actions) = EmitsOf!Fold(0, s, actions)
  BY DEF EmitAll, FoldLeft, MapThenFoldSet, Max, EmitsOf!Fold
<1>2. actions \in Seq({actions[i] : i \in DOMAIN actions})
  BY DEF IsSequence
<1>3. \A k \in 1..Len(actions) : \A a : Emitted(g, a) => Emitted(g, Emit(a, actions[k]))
  BY EmitAgrees
<1>4. Emitted(g, EmitsOf!Fold(0, s, actions))
  BY <1>2, <1>3, EmitsOf!FoldKeeps
<1> QED BY <1>1, <1>4

\* The report of a frame shows the direct contacts and those of the frame.
LEMMA ReportShows ==
    ASSUME NEW g, NEW acc, Shown(g, acc), NEW cs, AllCaused(g, cs)
    PROVE  Shown(g, FoldLeft(AddReported, acc, cs))
<1>1. FoldLeft(AddReported, acc, cs) = ReportsOf!Fold(0, acc, cs)
  BY DEF FoldLeft, MapThenFoldSet, Max, ReportsOf!Fold
<1>2. cs \in Seq({cs[i] : i \in DOMAIN cs}) /\ DOMAIN cs = 1..Len(cs)
  BY SequenceShape DEF AllCaused, IsSequence
<1>3. ASSUME NEW k \in 1..Len(cs), NEW a, Shown(g, a) PROVE Shown(g, AddReported(a, cs[k]))
  <2> DEFINE x == Contact(cs[k].identity, TRUE, cs[k].id)
  <2>1. Caused(g, x.id)
    BY <1>2 DEF AllCaused, Contact
  <2> HIDE DEF x
  <2>2. IsSequence(Append(a, x)) /\ Len(a) \in Nat
    BY <1>3, AppendIsSequence, SequenceShape DEF Shown
  <2>3. ASSUME NEW i \in DOMAIN Append(a, x)
        PROVE  Append(a, x)[i].id = None \/ Caused(g, Append(a, x)[i].id)
    <3>1. a \in Seq({a[j] : j \in DOMAIN a}) /\ DOMAIN a = 1..Len(a)
      BY <1>3, SequenceShape DEF Shown, IsSequence
    <3> DEFINE S == {a[j] : j \in DOMAIN a} \cup {x}
    <3>2. a \in Seq(S) /\ x \in S
      BY <3>1, SeqMonotonic
    <3> HIDE DEF S
    <3>3. /\ DOMAIN Append(a, x) = 1..(Len(a) + 1)
          /\ \A j \in 1..Len(a) : Append(a, x)[j] = a[j]
          /\ Append(a, x)[Len(a) + 1] = x
      BY <3>2
    <3>4. CASE i = Len(a) + 1
      BY <2>1, <3>3, <3>4
    <3>5. CASE i # Len(a) + 1
      <4>1. i \in 1..Len(a)
        BY <2>2, <2>3, <3>3, <3>5
      <4> QED BY <1>3, <3>1, <3>3, <4>1 DEF Shown
    <3> QED BY <3>4, <3>5
  <2>4. AddReported(a, cs[k]) = a \/ AddReported(a, cs[k]) = Append(a, x)
    BY DEF AddReported, x
  <2> QED BY <1>3, <2>2, <2>3, <2>4 DEF Shown
<1>4. Shown(g, ReportsOf!Fold(0, acc, cs))
  BY <1>2, <1>3, ReportsOf!FoldKeeps
<1> QED BY <1>1, <1>4
\* c is a, then b.
Joined(a, b, c) ==
    /\ IsSequence(c) /\ DOMAIN c = 1..(Len(a) + Len(b))
    /\ \A i \in 1..Len(a) : c[i] = a[i]
    /\ \A i \in 1..Len(b) : c[Len(a) + i] = b[i]

LEMMA JoinIsSequence ==
    ASSUME NEW a, IsSequence(a), NEW b, IsSequence(b)
    PROVE  Joined(a, b, a \o b)
<1> DEFINE S == {a[i] : i \in DOMAIN a} \cup {b[i] : i \in DOMAIN b}
<1>1. a \in Seq(S) /\ b \in Seq(S)
  BY SeqMonotonic DEF IsSequence
<1> HIDE DEF S
<1>2. a \o b \in Seq(S)
  BY <1>1
<1>3. IsSequence(a \o b)
  BY <1>2, SequenceOf
<1> QED BY <1>1, <1>3 DEF Joined

UniqueIds(p) == \A i, j \in DOMAIN p.maps : p.maps[i].id = p.maps[j].id => i = j

\* A mapping is found by its id.
LEMMA MappingById ==
    ASSUME NEW p, UniqueIds(p), NEW i \in DOMAIN p.maps
    PROVE  Mapping(p, p.maps[i].id) = p.maps[i]
<1>1. p.maps[i].id \in MapIds(p)
  BY DEF MapIds
<1> QED BY <1>1, MappingFact DEF UniqueIds

\* What a validated profile compiles to has the shape the engine relies on.
LEMMA CompileShapes ==
    ASSUME NEW p \in KeymapProfiles, NEW scripts \in BOOLEAN, ValidProfile(p)
    PROVE  CompiledShape(Compile(p, scripts)) /\ UniqueIds(Compile(p, scripts))
<1> DEFINE n == Len(p.maps)
           k == Len(p.scripts)
           head == [i \in DOMAIN p.maps |->
                      IF scripts THEN p.maps[i] ELSE [p.maps[i] EXCEPT !.before = NoPlan, !.after = NoPlan]]
           tail == IF scripts THEN <<>> ELSE [i \in DOMAIN p.scripts |-> Inert(p.scripts[i])]
           c == Compile(p, scripts)
           all == p.maps \o p.scripts
<1>1. IsSequence(p.maps) /\ IsSequence(p.scripts) /\ n \in Nat /\ k \in Nat
      /\ DOMAIN p.maps = 1..n /\ DOMAIN p.scripts = 1..k
  BY KeymapProfilesAssumption, SequenceShape
<1>2. /\ \A i \in 1..n : /\ HasFields(p.maps[i], {"id", "before", "after"})
                         /\ IsSequence(p.maps[i].before.actions) /\ IsSequence(p.maps[i].after.actions)
      /\ \A i \in 1..k : /\ IsSequence(p.scripts[i].pressed.actions) /\ IsSequence(p.scripts[i].held.actions)
                         /\ IsSequence(p.scripts[i].released.actions)
  BY <1>1, KeymapProfilesAssumption
<1>3. c.maps = head \o tail /\ c.scripts = IF scripts THEN p.scripts ELSE <<>>
  BY DEF Compile
<1>4. \A i, j \in DOMAIN all : all[i].id = all[j].id => i = j
  BY DEF ValidProfile
<1> HIDE DEF c
<1>5. /\ DOMAIN all = 1..(n + k) /\ \A i \in 1..n : all[i] = p.maps[i]
      /\ \A i \in 1..k : all[n + i] = p.scripts[i]
  <2>1. Joined(p.maps, p.scripts, all)
    BY <1>1, JoinIsSequence
  <2> HIDE DEF all
  <2> QED BY <2>1 DEF Joined
<1> HIDE DEF all, n, k
<1>6. ASSUME NEW i \in 1..n
      PROVE  head[i].id = p.maps[i].id /\ IsSequence(head[i].before.actions) /\ IsSequence(head[i].after.actions)
  <2>1. CASE scripts
    BY <1>1, <1>2, <2>1
  <2>2. CASE ~scripts
    <3> DEFINE m == p.maps[i]
               e == [m EXCEPT !.before = NoPlan, !.after = NoPlan]
    <3>1. HasFields(m, {"id", "before", "after"}) /\ head[i] = e
      BY <1>1, <1>2, <2>2
    <3> HIDE DEF m, head
    <3>2. e.id = m.id /\ e.before = NoPlan /\ e.after = NoPlan
      BY <3>1 DEF HasFields
    <3>3. NoPlan.actions = <<>>
      BY DEF NoPlan
    <3> QED BY <3>1, <3>2, <3>3, NothingIsSequence DEF m
  <2> QED BY <2>1, <2>2
<1>7. IsSequence(head) /\ DOMAIN head = 1..n /\ Len(head) = n
  <2>1. head = [i \in 1..n |-> head[i]]
    BY <1>1
  <2> HIDE DEF head
  <2>2. IsSequence(head)
    BY <1>1, <2>1, SequenceFrom
  <2>3. DOMAIN head = 1..n
    BY <2>1
  <2> QED BY <1>1, <2>2, <2>3, SequenceShape
<1>8. IsSequence(tail) /\ DOMAIN tail = 1..Len(tail) /\ Len(tail) \in Nat
      /\ \A i \in 1..Len(tail) : i \in 1..k /\ tail[i] = Inert(p.scripts[i])
  <2>1. CASE scripts
    BY <2>1, NothingIsSequence
  <2>2. CASE ~scripts
    <3>1. tail = [i \in 1..k |-> tail[i]] /\ \A i \in 1..k : tail[i] = Inert(p.scripts[i])
      BY <1>1, <2>2
    <3> HIDE DEF tail
    <3>2. IsSequence(tail) /\ DOMAIN tail = 1..k
      BY <1>1, <3>1, SequenceFrom
    <3> QED BY <1>1, <3>1, <3>2, SequenceShape
  <2> QED BY <2>1, <2>2
<1> HIDE DEF head, tail
<1>9. /\ IsSequence(c.maps) /\ DOMAIN c.maps = 1..(n + Len(tail))
      /\ \A i \in 1..n : c.maps[i] = head[i]
      /\ \A i \in 1..Len(tail) : c.maps[n + i] = tail[i]
  <2>1. Joined(head, tail, head \o tail)
    BY <1>7, <1>8, JoinIsSequence
  <2>2. Joined(head, tail, c.maps)
    BY <1>3, <2>1
  <2> QED BY <1>7, <2>2 DEF Joined
<1>10. ASSUME NEW i \in DOMAIN c.maps
       PROVE  i \in 1..n \/ (i - n \in 1..Len(tail) /\ c.maps[i] = tail[i - n])
  <2>1. i \in 1..(n + Len(tail))
    BY <1>9
  <2>2. i \in 1..n \/ (i - n \in 1..Len(tail) /\ n + (i - n) = i)
    BY <1>1, <1>8, <2>1
  <2> QED BY <1>9, <2>2
<1>11. ASSUME NEW i \in DOMAIN c.maps PROVE i \in DOMAIN all /\ c.maps[i].id = all[i].id
  <2>0. DOMAIN all = 1..(n + k) /\ n \in Nat /\ k \in Nat
    BY <1>1, <1>5
  <2>1. CASE i \in 1..n
    <3>1. i \in 1..(n + k)
      BY <2>0, <2>1
    <3>2. c.maps[i] = head[i] /\ all[i] = p.maps[i] /\ head[i].id = p.maps[i].id
      BY <1>5, <1>6, <1>9, <2>1
    <3> QED BY <2>0, <3>1, <3>2
  <2>2. CASE i - n \in 1..Len(tail) /\ c.maps[i] = tail[i - n]
    <3>1. i - n \in 1..k /\ c.maps[i] = Inert(p.scripts[i - n])
      BY <1>8, <2>2
    <3>2. n + (i - n) = i /\ i \in 1..(n + k)
      <4>1. i \in 1..(n + Len(tail))
        BY <1>9, <1>11
      <4>2. i \in Int
        BY <1>8, <2>0, <4>1
      <4> QED BY <2>0, <3>1, <4>2
    <3>3. all[i] = p.scripts[i - n]
      BY <1>5, <3>1, <3>2
    <3>4. c.maps[i].id = p.scripts[i - n].id
      BY <3>1 DEF Inert
    <3> QED BY <2>0, <3>2, <3>3, <3>4
  <2> QED BY <1>10, <1>11, <2>1, <2>2
<1>12. UniqueIds(c)
  BY <1>4, <1>11 DEF UniqueIds
<1>13. ASSUME NEW i \in DOMAIN c.maps, Hooked(c.maps[i])
       PROVE  IsSequence(c.maps[i].before.actions) /\ IsSequence(c.maps[i].after.actions)
  <2>1. CASE i \in 1..n
    BY <1>6, <1>9, <2>1
  <2>2. CASE i - n \in 1..Len(tail) /\ c.maps[i] = tail[i - n]
    BY <1>8, <1>13, <2>2 DEF Inert, Hooked
  <2> QED BY <1>10, <1>13, <2>1, <2>2
<1>14. IsSequence(c.scripts) /\ \A i \in DOMAIN c.scripts :
          /\ IsSequence(c.scripts[i].pressed.actions) /\ IsSequence(c.scripts[i].held.actions)
          /\ IsSequence(c.scripts[i].released.actions)
  <2>1. CASE scripts
    BY <1>1, <1>2, <1>3, <2>1
  <2>2. CASE ~scripts
    BY <1>3, <2>2, NothingIsSequence
  <2> QED BY <2>1, <2>2
<1> QED BY <1>9, <1>12, <1>13, <1>14 DEF CompiledShape, c

----------------------------------------------------------------------------
(* The invariant.                                                          *)

\* What is configured was compiled from a valid profile.
Playable == CompiledShape(compiled) /\ UniqueIds(compiled)

\* Pointers and casts that end on release have bindings that are held.
Driven == Fits(compiled, held, runtime)

\* What was reported is direct or has a cause in the runtime of the report.
Reporting ==
    /\ IsSequence(direct) /\ \A i \in DOMAIN direct : direct[i].id = None
    /\ Shown([p |-> compiled, rt |-> runtime, keys |-> held], contacts)

\* The device has touches, keys and buttons.
Downs == device = [touches |-> device.touches, keys |-> device.keys, buttons |-> device.buttons]

KeymapInv == Playable /\ Driven /\ Reporting /\ Downs /\ NothingStuck

\* A runtime without pointers and casts fits everything.
LEMMA FreshFits ==
    ASSUME NEW p, NEW keys
    PROVE  Fits(p, keys, FreshRuntime)
<1>1. FreshRuntime.pointers = {} /\ FreshRuntime.cast.id = None
  BY DEF FreshRuntime, NoCast
<1> QED BY <1>1, FreshShape DEF Fits, Edging, PointersHeld, CastHeld

LEMMA EmptyPlayable == CompiledShape(NoProfile) /\ UniqueIds(NoProfile)
BY NothingIsSequence DEF CompiledShape, UniqueIds, NoProfile

\* After a release the device has nothing down, whatever is configured.
LEMMA ReleaseKeeps ==
    ASSUME KeymapInv, Release, CompiledShape(compiled'), UniqueIds(compiled')
    PROVE  KeymapInv'
<1>1. Driven'
  BY FreshFits DEF Driven, Release
<1>2. Reporting'
  BY NothingIsSequence DEF Reporting, Shown, Release
<1>3. device' = [touches |-> {}, keys |-> {}, buttons |-> {}]
  <2>1. device.touches \subseteq Reported(contacts)
    BY DEF KeymapInv, NothingStuck, Touching, Reported
  <2> QED BY <2>1 DEF KeymapInv, NothingStuck, Release, Released
<1>4. Touching(<<>>) = {}
  BY DEF Touching
<1>5. Downs' /\ NothingStuck'
  BY <1>3, <1>4 DEF Downs, NothingStuck, Release
<1> QED BY <1>1, <1>2, <1>5 DEF KeymapInv, Playable

LEMMA FailKeeps ==
    ASSUME KeymapInv, Fail
    PROVE  KeymapInv'
BY EmptyPlayable, ReleaseKeeps DEF Fail
\* A frame is shown: the device follows the session, contact by contact and
\* action by action.
LEMMA ShowKeeps ==
    ASSUME KeymapInv, NEW f, NEW keys, NEW since, NEW cs, Show(f, keys, since, cs),
           Fits(compiled, keys, f.rt), IsSequence(f.output),
           AllCaused([p |-> compiled, rt |-> f.rt, keys |-> keys], f.contacts),
           IsSequence(cs), \A i \in DOMAIN cs : cs[i].id = None
    PROVE  KeymapInv'
<1>1. CASE f.err
  BY <1>1, FailKeeps DEF Show
<1>2. CASE ~f.err
  <2> DEFINE g == [touches |-> device.touches, buttons |-> buttons]
             start == <<scriptKeys, scriptButtons, device>>
             e == EmitAll(start, f.output)
             wanted == {b \in DOMAIN compiled.hardware : compiled.hardware[b] \in held'}
             pressed == [e[3] EXCEPT !.buttons = (@ \ (buttons \ wanted)) \cup (wanted \ buttons)]
             now == [p |-> compiled, rt |-> f.rt, keys |-> keys]
  <2>1. held' = keys /\ direct' = cs /\ Render(f)
    BY <1>2 DEF Show
  <2>2. /\ runtime' = f.rt /\ scriptKeys' = e[1] /\ scriptButtons' = e[2] /\ buttons' = wanted
        /\ contacts' = FoldLeft(AddReported, direct', f.contacts)
        /\ device' = Report(contacts, contacts', pressed) /\ compiled' = compiled
    BY <2>1 DEF Render, Merged
  <2>3. g.touches = device.touches /\ g.buttons = buttons
    OBVIOUS
  <2>4. Emitted(g, start)
    BY DEF Emitted, KeymapInv, NothingStuck, Downs
  <2> HIDE DEF g, start
  <2>5. Emitted(g, e)
    BY <2>4, EmitAllAgrees
  <2>6. /\ e[3] = [touches |-> device.touches, keys |-> e[1], buttons |-> e[3].buttons]
        /\ e[3].buttons \subseteq buttons \cup e[2]
    BY <2>3, <2>5 DEF Emitted
  <2> DEFINE d == e[3]
             pushed == (d.buttons \ (buttons \ wanted)) \cup (wanted \ buttons)
  <2>7. pressed = [d EXCEPT !.buttons = pushed]
    OBVIOUS
  <2> HIDE DEF e, wanted, pressed, pushed
  <2>8. pushed \subseteq wanted \cup e[2]
    BY <2>6 DEF pushed
  <2>9. pressed = [touches |-> device.touches, keys |-> e[1], buttons |-> pushed]
    <3> HIDE DEF d
    <3>1. d = [touches |-> device.touches, keys |-> e[1], buttons |-> d.buttons]
      BY <2>6 DEF d
    <3> QED BY <2>7, <3>1
  <2> DEFINE touched == (device.touches \ (Reported(contacts) \cup Reported(contacts'))) \cup Touching(contacts')
  <2>10. device' = [touches |-> touched, keys |-> e[1], buttons |-> pushed]
    <3>1. device' = [pressed EXCEPT !.touches = (@ \ (Reported(contacts) \cup Reported(contacts'))) \cup Touching(contacts')]
      BY <2>2 DEF Report
    <3>2. pressed.touches = device.touches
      BY <2>9
    <3>3. device' = [pressed EXCEPT !.touches = touched]
      BY <3>1, <3>2
    <3> HIDE DEF touched
    <3> QED BY <2>9, <3>3
  <2>11. device'.touches = Touching(contacts')
    <3>1. device.touches \subseteq Reported(contacts)
      BY DEF KeymapInv, NothingStuck, Touching, Reported
    <3>2. device'.touches = touched
      BY <2>10
    <3> QED BY <3>1, <3>2
  <2>12. Downs' /\ NothingStuck'
    <3>1. device'.keys = scriptKeys' /\ device'.buttons = pushed
      BY <2>2, <2>10
    <3>2. device' = [touches |-> device'.touches, keys |-> device'.keys, buttons |-> device'.buttons]
      BY <2>10
    <3>3. device'.buttons \subseteq buttons' \cup scriptButtons'
      BY <2>2, <2>8, <3>1
    <3> QED BY <2>11, <3>1, <3>2, <3>3 DEF Downs, NothingStuck
  <2>13. Shown(now, cs)
    BY DEF Shown
  <2>14. Shown(now, contacts')
    BY <2>1, <2>2, <2>13, ReportShows
  <2>15. Reporting'
    BY <2>1, <2>2, <2>14 DEF Reporting
  <2>16. Driven' /\ Playable'
    BY <2>1, <2>2 DEF Driven, Playable, KeymapInv
  <2> QED BY <2>12, <2>15, <2>16 DEF KeymapInv
<1> QED BY <1>1, <1>2

\* The frame of a runtime that fits.
LEMMA FrameKeeps ==
    ASSUME KeymapInv, NEW rt, NEW keys, Fits(compiled, keys, rt), NEW since, NEW external, NEW leaves,
           NEW cs, IsSequence(cs), \A i \in DOMAIN cs : cs[i].id = None,
           Show(Frame(compiled, rt, keys, since, external, leaves), keys, since, cs)
    PROVE  KeymapInv'
<1>1. CompiledShape(compiled)
  BY DEF KeymapInv, Playable
<1> QED BY <1>1, FrameFacts, ShowKeeps

LEMMA SingleIsSequence ==
    ASSUME NEW x
    PROVE  IsSequence(<<x>>) /\ \A i \in DOMAIN <<x>> : <<x>>[i] = x
<1>1. <<x>> \in Seq({x}) /\ Len(<<x>>) = 1 /\ <<x>>[1] = x
  OBVIOUS
<1>2. DOMAIN <<x>> = 1..1
  BY <1>1
<1>3. IsSequence(<<x>>)
  BY <1>1, SequenceOf
<1> QED BY <1>1, <1>2, <1>3

LEMMA SetInputKeeps ==
    ASSUME KeymapInv, NEW keys, NEW axes, NEW d \in Deltas, NEW leaves, SetInput(keys, axes, d, leaves)
    PROVE  KeymapInv'
<1> DEFINE since == [k \in keys |-> IF k \in held THEN heldSince[k] ELSE 0]
           r == UpdateRuntime(compiled, runtime, held, keys, axes, d, leaves)
<1>1. IF r.err THEN Fail
      ELSE Show(Frame(compiled, r.rt, keys, since, Reported(direct), leaves), keys, since, direct)
  BY DEF SetInput
<1>2. IsSequence(d)
  BY NothingIsSequence, SingleIsSequence DEF Deltas
<1>3. CASE r.err
  BY <1>1, <1>3, FailKeeps
<1>4. CASE ~r.err
  <2>1. Fits(compiled, keys, r.rt)
    BY <1>2, <1>4, UpdateFits DEF KeymapInv, Playable, Driven
  <2> HIDE DEF r, since
  <2>2. IsSequence(direct) /\ \A i \in DOMAIN direct : direct[i].id = None
    BY DEF KeymapInv, Reporting
  <2> QED BY <1>1, <1>4, <2>1, <2>2, FrameKeeps
<1> QED BY <1>3, <1>4

LEMMA SetDirectKeeps ==
    ASSUME KeymapInv, NEW cs \in DirectChoices, SetDirect(cs)
    PROVE  KeymapInv'
<1>1. IsSequence(cs) /\ \A i \in DOMAIN cs : cs[i].id = None
  <2>1. CASE cs = <<>>
    BY <2>1, NothingIsSequence
  <2>2. CASE cs # <<>>
    <3>1. PICK i \in 0..(ContactLimit - 1), t \in BOOLEAN : cs = <<Contact(i, t, None)>>
      BY <2>2 DEF DirectChoices
    <3>2. Contact(i, t, None).id = None
      BY DEF Contact
    <3> QED BY <3>1, <3>2, SingleIsSequence
  <2> QED BY <2>1, <2>2
<1>2. Fits(compiled, held, runtime)
  BY DEF KeymapInv, Driven
<1> QED BY <1>1, <1>2, FrameKeeps DEF SetDirect

LEMMA TickKeeps ==
    ASSUME KeymapInv, NEW leaves, KeymapTick(leaves)
    PROVE  KeymapInv'
<1>1. IsSequence(direct) /\ \A i \in DOMAIN direct : direct[i].id = None
  BY DEF KeymapInv, Reporting
<1>2. Fits(compiled, held, runtime)
  BY DEF KeymapInv, Driven
<1> QED BY <1>1, <1>2, FrameKeeps DEF KeymapTick

LEMMA ConfigureKeeps ==
    ASSUME KeymapInv, NEW p \in KeymapProfiles, NEW scripts \in BOOLEAN, Configure(p, scripts)
    PROVE  KeymapInv'
<1>1. compiled' = NoProfile \/ (ValidProfile(p) /\ compiled' = Compile(p, scripts))
  BY DEF Configure
<1>2. CompiledShape(compiled') /\ UniqueIds(compiled')
  BY <1>1, CompileShapes, EmptyPlayable
<1> QED BY <1>2, ReleaseKeeps DEF Configure

\* Time moves instants only: no controller, pulse or queued action comes or
\* goes.
LEMMA ElapseKeeps ==
    ASSUME KeymapInv, Elapse
    PROVE  KeymapInv'
<1> DEFINE pulses == SoonerAll(runtime.pulses)
           ready == SoonerAll(runtime.hookReadyAt)
           fps == IF runtime.fps.pending THEN Nearer(runtime.fps, "readyAt") ELSE runtime.fps
           cast == Nearer(runtime.cast, "autoReleaseAt")
           cancel == IF runtime.cancel.id = None THEN runtime.cancel ELSE Nearer(runtime.cancel, "endAt")
           scopes == [x \in DOMAIN runtime.scopes |->
                        Nearer(Nearer(runtime.scopes[x], "busyUntil"), "nextHeldAt")]
           queued == [i \in DOMAIN runtime.queued |-> DueSooner(runtime.queued[i])]
           before == [p |-> compiled, rt |-> runtime, keys |-> held]
           after == [p |-> compiled, rt |-> runtime', keys |-> held]
<1>1. RuntimeShape(runtime)
  BY DEF KeymapInv, Driven, Fits, Edging
<1>2. runtime' = [runtime EXCEPT !.pulses = pulses, !.hookReadyAt = ready, !.fps = fps, !.cast = cast,
                                 !.cancel = cancel, !.scopes = scopes, !.queued = queued]
  BY DEF Elapse
<1>3. UNCHANGED <<compiled, held, direct, contacts, buttons, scriptKeys, scriptButtons, device>>
  BY DEF Elapse
<1>4. HasId(fps) /\ fps.id = runtime.fps.id
  BY <1>1 DEF RuntimeShape, HasId, Nearer
<1>5. HasId(cast) /\ cast.id = runtime.cast.id
  BY <1>1 DEF RuntimeShape, HasId, Nearer
<1>6. HasId(cancel) /\ cancel.id = runtime.cancel.id
  BY <1>1 DEF RuntimeShape, HasId, Nearer
<1>7. IsSequence(queued)
  <2>1. IsSequence(runtime.queued)
    BY <1>1 DEF RuntimeShape
  <2>2. Len(runtime.queued) \in Nat /\ queued = [i \in 1..Len(runtime.queued) |-> queued[i]]
    BY <2>1, SequenceShape
  <2> HIDE DEF queued
  <2> QED BY <2>2, SequenceFrom
<1>8. DOMAIN pulses = DOMAIN runtime.pulses
  BY DEF SoonerAll
<1> HIDE DEF pulses, ready, fps, cast, cancel, scopes, queued
<1>9. RuntimeShape(runtime')
  BY <1>1, <1>2, <1>4, <1>5, <1>6, <1>7 DEF RuntimeShape, RuntimeFields
<1>10. /\ runtime'.pointers = runtime.pointers /\ runtime'.cast.id = runtime.cast.id
       /\ runtime'.fps.id = runtime.fps.id /\ runtime'.cancel.id = runtime.cancel.id
       /\ DOMAIN runtime'.pulses = DOMAIN runtime.pulses
       /\ runtime'.scriptContacts = runtime.scriptContacts /\ runtime'.axes = runtime.axes
  <2>1. runtime = [f \in RuntimeFields |-> runtime[f]]
    BY <1>1 DEF RuntimeShape
  <2> QED BY <1>2, <1>4, <1>5, <1>6, <1>8, <2>1 DEF RuntimeFields
<1>11. Driven'
  <2>1. Fits(compiled, held, runtime)
    BY DEF KeymapInv, Driven
  <2>2. Fits(compiled, held, runtime')
    BY <1>9, <1>10, <2>1 DEF Fits, Edging, PointersHeld, CastHeld
  <2> QED BY <1>3, <2>2 DEF Driven
<1>12. Reporting'
  <2>1. before.p = compiled /\ before.rt = runtime /\ before.keys = held
    OBVIOUS
  <2>2. after.p = compiled /\ after.rt = runtime' /\ after.keys = held
    OBVIOUS
  <2>3. Shown(before, contacts)
    BY DEF KeymapInv, Reporting
  <2> HIDE DEF before, after
  <2>4. ASSUME NEW id, Caused(before, id) PROVE Caused(after, id)
    BY <1>10, <2>1, <2>2, <2>4 DEF Caused
  <2>5. Shown(after, contacts)
    BY <2>3, <2>4 DEF Shown
  <2>6. IsSequence(direct) /\ \A i \in DOMAIN direct : direct[i].id = None
    BY DEF KeymapInv, Reporting
  <2>7. after = [p |-> compiled', rt |-> runtime', keys |-> held']
    BY <1>3 DEF after
  <2> QED BY <1>3, <2>5, <2>6, <2>7 DEF Reporting
<1>13. Playable' /\ Downs' /\ NothingStuck'
  BY <1>3 DEF KeymapInv, Playable, Downs, NothingStuck
<1> QED BY <1>11, <1>12, <1>13 DEF KeymapInv

LEMMA KeymapInvInit ==
    ASSUME KeymapInit
    PROVE  KeymapInv
<1>1. Playable
  BY EmptyPlayable DEF Playable, KeymapInit
<1>2. Driven
  BY FreshFits DEF Driven, KeymapInit
<1>3. Reporting
  BY NothingIsSequence DEF Reporting, Shown, KeymapInit
<1>4. Downs /\ NothingStuck
  BY DEF Downs, NothingStuck, KeymapInit, NothingDown, Touching
<1> QED BY <1>1, <1>2, <1>3, <1>4 DEF KeymapInv

LEMMA KeymapInvNext ==
    ASSUME KeymapInv, [KeymapNext]_keymapVars
    PROVE  KeymapInv'
<1>1. ASSUME NEW p \in KeymapProfiles, NEW s \in BOOLEAN, Configure(p, s) PROVE KeymapInv'
  BY <1>1, ConfigureKeeps
<1>2. ASSUME NEW keys \in SUBSET UsedKeys, NEW axes \in SUBSET UsedAxes, NEW d \in Deltas, NEW l \in Leaves,
             SetInput(keys, axes, d, l)
      PROVE  KeymapInv'
  BY <1>2, SetInputKeeps
<1>3. CASE BadInput
  BY <1>3, FailKeeps DEF BadInput
<1>4. CASE Stop
  BY <1>4, FailKeeps DEF Stop
<1>5. CASE Elapse
  BY <1>5, ElapseKeeps
<1>6. ASSUME NEW cs \in DirectChoices, SetDirect(cs) PROVE KeymapInv'
  BY <1>6, SetDirectKeeps
<1>7. ASSUME NEW l \in Leaves, KeymapTick(l) PROVE KeymapInv'
  BY <1>7, TickKeeps
<1>8. CASE UNCHANGED keymapVars
  BY <1>8 DEF keymapVars, KeymapInv, Playable, Driven, Reporting, Downs, NothingStuck
<1> QED BY <1>1, <1>2, <1>3, <1>4, <1>5, <1>6, <1>7, <1>8 DEF KeymapNext

\* The invariant holds in every state of every session.
THEOREM KeymapInvariant == KeymapSpec => []KeymapInv
<1>1. KeymapInit => KeymapInv
  BY KeymapInvInit
<1>2. KeymapInv /\ [KeymapNext]_keymapVars => KeymapInv'
  BY KeymapInvNext
<1> QED BY <1>1, <1>2, PTL DEF KeymapSpec

\* Nothing stays down on the device that the session does not know of, and
\* after a release, an error or a stop nothing is down at all.
THEOREM NothingStuckAlways == KeymapSpec => []NothingStuck
<1>1. KeymapInv => NothingStuck
  BY DEF KeymapInv
<1> QED BY <1>1, KeymapInvariant, PTL

LEMMA FitsHold ==
    ASSUME KeymapInv
    PROVE  ControllersHeld
<1>1. Edging([p |-> compiled, before |-> held, now |-> held], 0, runtime) /\ UniqueIds(compiled)
  BY DEF KeymapInv, Driven, Fits, Playable
<1> DEFINE g == [p |-> compiled, before |-> held, now |-> held]
<1>2. g.p = compiled /\ g.before = held /\ g.now = held /\ Edging(g, 0, runtime)
  BY <1>1
<1> HIDE DEF g
<1>3. ASSUME NEW id \in runtime.pointers PROVE Bound(held, Mapping(compiled, id).bind)
  <2>1. PICK i \in DOMAIN compiled.maps : compiled.maps[i].id = id /\ StillHeld(g, 0, i)
    BY <1>2 DEF Edging, PointersHeld
  <2>2. Mapping(compiled, id) = compiled.maps[i]
    BY <1>1, <2>1, MappingById
  <2> QED BY <1>2, <2>1, <2>2 DEF StillHeld
<1>4. ASSUME runtime.cast.id # None, Mapping(compiled, runtime.cast.id).mode = "release"
      PROVE  Bound(held, Mapping(compiled, runtime.cast.id).bind)
  <2>1. PICK i \in DOMAIN compiled.maps :
          /\ compiled.maps[i].id = runtime.cast.id
          /\ compiled.maps[i].mode = "release" => StillHeld(g, 0, i)
    BY <1>2, <1>4 DEF Edging, CastHeld
  <2>2. Mapping(compiled, runtime.cast.id) = compiled.maps[i]
    BY <1>1, <2>1, MappingById
  <2> QED BY <1>2, <1>4, <2>1, <2>2 DEF StillHeld
<1> QED BY <1>3, <1>4 DEF ControllersHeld

\* Every contact on the device has a cause that ends by itself or with the
\* keys; a cast that ends on release and a pointer have bindings that are held.
THEOREM ContactsCausedAlways == KeymapSpec => []ContactsCaused
<1>1. KeymapInv => ContactsCaused
  <2> SUFFICES ASSUME KeymapInv PROVE ContactsCaused
    OBVIOUS
  <2> DEFINE g == [p |-> compiled, rt |-> runtime, keys |-> held]
             Cause(c, m) ==
               \/ Lasting(c)
               \/ m.kind \in {"Observation", "Fire"} /\ Bound(held, m.bind)
               \/ MatchesInput(m, EffectiveHeld(compiled, held)) \/ m.axes \cap runtime.axes # {}
               \/ c.id \in DOMAIN runtime.pulses \/ c.id = runtime.cancel.id
  <2>1. g.p = compiled /\ g.rt = runtime /\ g.keys = held
    OBVIOUS
  <2>2. Shown(g, contacts) /\ UniqueIds(compiled)
    BY DEF KeymapInv, Reporting, Playable
  <2> HIDE DEF g
  <2>3. ASSUME NEW i \in DOMAIN contacts
        PROVE  Cause(contacts[i], Mapping(compiled, contacts[i].id))
    <3> DEFINE c == contacts[i]
    <3>1. c.id = None \/ Caused(g, c.id)
      BY <2>2, <2>3 DEF Shown
    <3> HIDE DEF c
    <3>2. CASE Lasting(c)
      BY <3>2 DEF c
    <3>3. CASE c.id \in DOMAIN runtime.pulses \/ c.id = runtime.cancel.id
      BY <3>3 DEF c
    <3>4. ASSUME NEW j \in DOMAIN compiled.maps, compiled.maps[j].id = c.id,
                 \/ compiled.maps[j].kind \in {"Observation", "Fire"} /\ Bound(held, compiled.maps[j].bind)
                 \/ MatchesInput(compiled.maps[j], EffectiveHeld(compiled, held))
                 \/ compiled.maps[j].axes \cap runtime.axes # {}
          PROVE  Cause(c, Mapping(compiled, c.id))
      <4>1. Mapping(compiled, c.id) = compiled.maps[j]
        BY <2>2, <3>4, MappingById
      <4> QED BY <3>4, <4>1
    <3>5. Lasting(c) \/ (c.id \in DOMAIN runtime.pulses \/ c.id = runtime.cancel.id)
          \/ \E j \in DOMAIN compiled.maps :
               /\ compiled.maps[j].id = c.id
               /\ \/ compiled.maps[j].kind \in {"Observation", "Fire"} /\ Bound(held, compiled.maps[j].bind)
                  \/ MatchesInput(compiled.maps[j], EffectiveHeld(compiled, held))
                  \/ compiled.maps[j].axes \cap runtime.axes # {}
      BY <2>1, <3>1 DEF Lasting, Caused
    <3> HIDE DEF Cause
    <3> QED BY <3>2, <3>3, <3>4, <3>5 DEF c
  <2> QED BY <2>3, FitsHold DEF ContactsCaused
<1> QED BY <1>1, KeymapInvariant, PTL
=============================================================================
