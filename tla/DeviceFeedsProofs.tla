-------------------------- MODULE DeviceFeedsProofs -------------------------
(***************************************************************************)
(* The feeds of a device keep the promise of a bounded feed, for every     *)
(* number of readers and every size of the buffers, pages and queues; the  *)
(* sources behind them account for what they sample; and what the video    *)
(* feeds to a decoder can be decoded.                                      *)
(***************************************************************************)
EXTENDS DeviceFeeds, Performance, VideoFlow, FiniteSetTheorems, FunctionTheorems, TLAPS

FeedsSpec == FeedsInit /\ [][FeedsNext]_feedsVars

Lines == [from : Nat, to : Nat]

Readers == [at : {"idle", "based", "subscribed", "waiting", "answered"}, answer : Lines, gap : BOOLEAN,
            next : Nat \cup {NoCursor}, base : Nat, baseline : Nat, queue : Seq(Nat), lagged : BOOLEAN]

FeedsType ==
    /\ feed \in {"logs", "console", "events"}
    /\ first \in Nat \ {0} /\ last \in Nat /\ base \in Nat
    /\ cursor \in [Followers -> Nat \cup {NoCursor}] /\ numbering \in [Followers -> Nat]
    /\ reader \in [Followers -> Readers] /\ answered \in [Followers -> Nat]
    /\ page \in [Followers -> Lines] /\ told \in [Followers -> BOOLEAN]

\* What the buffers hold: a console never drops its newest line, of events
\* only the latest is kept, and only consoles restart their numbering.
Kept ==
    /\ first <= last + 1
    /\ feed = "console" => first <= last \/ last = 0
    /\ feed = "events" => last <= first
    /\ feed # "console" => base = 0

\* Where a reader is, and the page it has.
Placed(r) ==
    /\ numbering[r] <= base
    /\ cursor[r] # NoCursor => numbering[r] + cursor[r] <= base + last
    /\ page[r] = NoLines \/ (1 <= page[r].from /\ page[r].from <= page[r].to /\ page[r].to <= base + last)

\* One that waits for an event knows of every event it has no notice of.
Waits(r) ==
    /\ reader[r].at \in {"idle", "based"} => reader[r].queue = <<>>
    /\ reader[r].at \in {"based", "subscribed", "waiting"} => feed = "events" /\ cursor[r] = reader[r].baseline
    /\ reader[r].at \in {"subscribed", "waiting"} =>
          \A i \in 1..Len(reader[r].queue) : reader[r].baseline < reader[r].queue[i] /\ reader[r].queue[i] <= last
    /\ reader[r].at = "waiting" /\ reader[r].queue = <<>> => last <= reader[r].baseline \/ last < first

\* An answer on its way continues where its reader stopped, and lines it
\* skips are gone.
Continues(r) ==
    LET a == reader[r]
    IN /\ a.answer.from <= a.answer.to =>
            /\ cursor[r] < a.answer.from /\ a.next = a.answer.to /\ (a.gap <=> cursor[r] + 1 < a.answer.from)
            /\ a.gap => a.base + a.answer.from <= base + first
       /\ a.answer.to < a.answer.from =>
            ~a.gap /\ a.next = cursor[r] /\ (answered[r] <= a.base + cursor[r] \/ answered[r] < base + first)

Fits(r) ==
    LET a == reader[r]
    IN a.at = "answered" =>
         /\ numbering[r] <= a.base /\ a.base <= base
         /\ 1 <= a.answer.from /\ a.base + a.answer.to <= base + last
         /\ a.next # NoCursor => a.base + a.next <= base + last
         /\ a.next = NoCursor => feed # "console" /\ cursor[r] = NoCursor
         /\ cursor[r] # NoCursor /\ numbering[r] = a.base => Continues(r)

FeedsInv == FeedsType /\ Kept /\ \A r \in Followers : Placed(r) /\ Waits(r) /\ Fits(r)

LEMMA FeedsInitially == FeedsInit => FeedsInv
<1> SUFFICES ASSUME FeedsInit PROVE FeedsInv
  OBVIOUS
<1>1. IdleReader \in Readers
  <2>1. <<>> \in Seq(Nat)
    OBVIOUS
  <2> QED BY <2>1 DEF IdleReader, Readers, Lines, NoLines
<1>2. FeedsType
  BY <1>1 DEF FeedsInit, FeedsType, Lines, NoLines
<1>3. Kept
  BY DEF FeedsInit, Kept
<1>4. ASSUME NEW r \in Followers PROVE Placed(r) /\ Waits(r) /\ Fits(r)
  BY <1>4 DEF FeedsInit, Placed, Waits, Fits, IdleReader, NoLines
<1> QED BY <1>2, <1>3, <1>4 DEF FeedsInv

\* What the types say of one reader.
LEMMA ReaderTypes ==
    ASSUME FeedsInv, NEW r \in Followers
    PROVE  /\ reader[r] \in Readers /\ cursor[r] \in Nat \cup {NoCursor} /\ numbering[r] \in Nat
           /\ answered[r] \in Nat /\ page[r] \in Lines /\ told[r] \in BOOLEAN
           /\ reader[r].answer.from \in Nat /\ reader[r].answer.to \in Nat
           /\ reader[r].base \in Nat /\ reader[r].baseline \in Nat /\ reader[r].next \in Nat \cup {NoCursor}
           /\ reader[r].gap \in BOOLEAN /\ reader[r].queue \in Seq(Nat)
           /\ feed \in {"logs", "console", "events"}
           /\ first \in Nat /\ first >= 1 /\ last \in Nat /\ base \in Nat
BY DEF FeedsInv, FeedsType, Readers, Lines

\* What is below the end of the buffer stays below it while the end grows.
LEMMA EndGrows ==
    ASSUME NEW b \in Nat, NEW l \in Nat, NEW c \in Nat, NEW m \in Nat, b + l <= c + m
    PROVE  /\ \A x \in Nat : (x <= b + l => x <= c + m) /\ (x < b + l => x < c + m)
           /\ \A x, y \in Nat : x + y <= b + l => x + y <= c + m
OBVIOUS

LEMMA SameStart == \A b, x, y \in Nat : x <= y => b + x <= b + y
OBVIOUS

LEMMA OneMore ==
    \A b, l, f, m, g \in Nat : m = l + 1 /\ f <= g /\ g <= m =>
        b + m = b + l + 1 /\ b + g - 1 \in (b + f - 1)..(b + l)
OBVIOUS

\* A reader that does nothing keeps its place while the buffer moves on.
LEMMA Others ==
    ASSUME FeedsInv, NEW q \in Followers, UNCHANGED feed,
           first' \in Nat, last' \in Nat, base' \in Nat,
           base <= base', base + last <= base' + last', base + first <= base' + first',
           feed = "events" => last' = last /\ first <= first',
           cursor'[q] = cursor[q], numbering'[q] = numbering[q], reader'[q] = reader[q],
           answered'[q] = answered[q], page'[q] = page[q]
    PROVE  Placed(q)' /\ Waits(q)' /\ Fits(q)'
<1>0. base \in Nat /\ first \in Nat /\ last \in Nat
  BY ReaderTypes
<1>1. Placed(q) /\ Waits(q) /\ Fits(q)
  BY DEF FeedsInv
<1>2. /\ \A x \in Nat : (x <= base + last => x <= base' + last') /\ (x < base + first => x < base' + first')
      /\ \A x, y \in Nat : x + y <= base + last => x + y <= base' + last'
      /\ \A x, y \in Nat : x + y <= base + first => x + y <= base' + first'
  BY <1>0, EndGrows
<1>3. Placed(q)'
  <2>1. page[q].from \in Nat /\ page[q].to \in Nat
    BY ReaderTypes DEF Lines
  <2>2. numbering[q] <= base'
    <3>1. numbering[q] \in Nat /\ numbering[q] <= base
      BY <1>1, ReaderTypes DEF Placed
    <3> QED BY <1>0, <3>1
  <2>3. cursor[q] # NoCursor => numbering[q] + cursor[q] <= base' + last'
    <3> SUFFICES ASSUME cursor[q] # NoCursor PROVE numbering[q] + cursor[q] <= base' + last'
      OBVIOUS
    <3>1. cursor[q] \in Nat /\ numbering[q] \in Nat /\ numbering[q] + cursor[q] <= base + last
      BY <1>1, ReaderTypes DEF Placed
    <3> QED BY <1>2, <3>1
  <2>4. page[q] = NoLines \/ (1 <= page[q].from /\ page[q].from <= page[q].to /\ page[q].to <= base' + last')
    BY <1>1, <1>2, <2>1 DEF Placed
  <2> QED BY <2>2, <2>3, <2>4 DEF Placed
<1>4. Waits(q)'
  <2>1. CASE feed = "events"
    BY <1>1, <2>1, ReaderTypes DEF Waits
  <2>2. CASE feed # "events"
    BY <1>1, <2>2 DEF Waits
  <2> QED BY <2>1, <2>2
<1>5. Fits(q)'
  <2> SUFFICES ASSUME reader[q].at = "answered" PROVE Fits(q)'
    BY DEF Fits
  <2> DEFINE a == reader[q]
  <2>1. /\ a.base \in Nat /\ a.answer.from \in Nat /\ a.answer.to \in Nat /\ a.next \in Nat \cup {NoCursor}
        /\ numbering[q] \in Nat /\ answered[q] \in Nat /\ cursor[q] \in Nat \cup {NoCursor}
    BY ReaderTypes
  <2>2. /\ numbering[q] <= a.base /\ a.base <= base /\ 1 <= a.answer.from /\ a.base + a.answer.to <= base + last
        /\ a.next # NoCursor => a.base + a.next <= base + last
        /\ a.next = NoCursor => feed # "console" /\ cursor[q] = NoCursor
        /\ cursor[q] # NoCursor /\ numbering[q] = a.base => Continues(q)
    BY <1>1 DEF Fits
  <2>3. a.base <= base' /\ a.base + a.answer.to <= base' + last'
    <3>1. a.base <= base'
      BY <1>0, <2>1, <2>2
    <3> QED BY <1>2, <2>1, <2>2, <3>1
  <2>4. a.next # NoCursor => a.base + a.next <= base' + last'
    <3> SUFFICES ASSUME a.next # NoCursor PROVE a.base + a.next <= base' + last'
      OBVIOUS
    <3>1. a.next \in Nat
      BY <2>1
    <3> QED BY <1>2, <2>1, <2>2, <3>1
  <2>5. cursor[q] # NoCursor /\ numbering[q] = a.base => Continues(q)'
    <3> SUFFICES ASSUME cursor[q] # NoCursor, Continues(q) PROVE Continues(q)'
      BY <2>2
    <3>1. cursor[q] \in Nat
      BY <2>1
    <3>2. a.answer.from <= a.answer.to =>
            /\ cursor[q] < a.answer.from /\ a.next = a.answer.to /\ (a.gap <=> cursor[q] + 1 < a.answer.from)
            /\ a.gap => a.base + a.answer.from <= base' + first'
      <4>1. a.base + a.answer.from <= base + first => a.base + a.answer.from <= base' + first'
        BY <1>2, <2>1
      <4> QED BY <4>1 DEF Continues
    <3>3. answered[q] < base + first => answered[q] < base' + first'
      BY <1>2, <2>1
    <3> QED BY <3>2, <3>3 DEF Continues
  <2> QED BY <2>2, <2>3, <2>4, <2>5 DEF Fits
<1> QED BY <1>3, <1>4, <1>5

\* A reader's answer is made from the buffer as it is.
LEMMA AnswerMade ==
    ASSUME FeedsInv, NEW r \in Followers, NEW p \in Lines, NEW gap \in BOOLEAN, NEW next \in Nat \cup {NoCursor},
           Answers(r, p, gap, next), reader[r].at # "answered",
           UNCHANGED <<feed, first, last, base, cursor, numbering, page, told>>,
           1 <= p.from, p.to <= last, next # NoCursor => next <= last,
           next = NoCursor => feed # "console" /\ cursor[r] = NoCursor,
           cursor[r] # NoCursor /\ numbering[r] = base =>
              /\ p.from <= p.to => /\ cursor[r] < p.from /\ next = p.to /\ (gap <=> cursor[r] + 1 < p.from)
                                   /\ gap => p.from <= first
              /\ p.to < p.from => ~gap /\ next = cursor[r] /\ (last <= cursor[r] \/ last < first)
    PROVE  FeedsInv' /\ Feed!MakeAnswer(r)
<1> DEFINE a == [IdleReader EXCEPT !.at = "answered", !.answer = p, !.gap = gap, !.next = next, !.base = base]
<1>1. /\ a.at = "answered" /\ a.answer = p /\ a.gap = gap /\ a.next = next /\ a.base = base
      /\ a \in Readers
  <2>1. <<>> \in Seq(Nat)
    OBVIOUS
  <2> QED BY <2>1, ReaderTypes DEF IdleReader, Readers
<1>2. /\ reader' = [reader EXCEPT ![r] = a] /\ answered' = [answered EXCEPT ![r] = base + last]
  BY DEF Answers
<1> HIDE DEF a
<1>3. /\ reader \in [Followers -> Readers] /\ answered \in [Followers -> Nat] /\ base + last \in Nat
  BY ReaderTypes DEF FeedsInv, FeedsType
<1>4. /\ reader'[r] = a /\ answered'[r] = base + last
      /\ \A q \in Followers : q # r => reader'[q] = reader[q] /\ answered'[q] = answered[q]
      /\ reader' \in [Followers -> Readers] /\ answered' \in [Followers -> Nat]
  BY <1>1, <1>2, <1>3
<1>5. FeedsType' /\ Kept'
  BY <1>4 DEF FeedsInv, FeedsType, Kept
<1>6. Placed(r)' /\ Waits(r)'
  BY <1>1, <1>4 DEF FeedsInv, Placed, Waits
<1>7. Fits(r)'
  <2>1. cursor[r] # NoCursor /\ numbering[r] = base => Continues(r)'
    BY <1>1, <1>4, ReaderTypes DEF Continues, Lines
  <2>2. numbering[r] <= base
    BY DEF FeedsInv, Placed
  <2> QED BY <1>1, <1>4, <2>1, <2>2, ReaderTypes DEF Fits, Lines
<1>8. ASSUME NEW q \in Followers, q # r PROVE Placed(q)' /\ Waits(q)' /\ Fits(q)'
  <2>1. /\ cursor'[q] = cursor[q] /\ numbering'[q] = numbering[q] /\ page'[q] = page[q]
        /\ reader'[q] = reader[q] /\ answered'[q] = answered[q]
    BY <1>4, <1>8
  <2> QED BY <2>1, Others, ReaderTypes
<1>9. \A q \in Followers : FollowingOf(q)' = FollowingOf(q)
  <2> SUFFICES ASSUME NEW q \in Followers PROVE FollowingOf(q)' = FollowingOf(q)
    OBVIOUS
  <2>1. CASE q = r
    BY <1>1, <1>4, <2>1 DEF FollowingOf
  <2>2. CASE q # r
    BY <1>4, <2>2 DEF FollowingOf
  <2> QED BY <2>1, <2>2
<1>10. Feed!MakeAnswer(r)
  BY <1>2, <1>9 DEF Feed!MakeAnswer
<1> QED BY <1>5, <1>6, <1>7, <1>8, <1>10 DEF FeedsInv

\* DeviceLogSlot::snapshot: a page is cut off at its end, never at its start.
LEMMA LogAnswer ==
    ASSUME FeedsInv, NEW r \in Followers, feed = "logs", Reads(r)
    PROVE  FeedsInv' /\ Feed!MakeAnswer(r)
<1> DEFINE after == cursor[r]
           from == IF after = NoCursor THEN Greater(first, last + 1 - PageLines) ELSE Greater(first, after + 1)
           to == Smaller(last, from + PageLines - 1)
           gap == after # NoCursor /\ HasLines /\ after + 1 < first
           next == IF from <= to THEN to ELSE IF after = NoCursor /\ HasLines THEN last ELSE after
<1>1. /\ Answers(r, [from |-> from, to |-> to], gap, next) /\ reader[r].at = "idle"
      /\ UNCHANGED <<feed, first, last, base, cursor, numbering, page, told>>
  BY DEF Reads, LogSnapshot
<1>2. /\ first \in Nat /\ first >= 1 /\ last \in Nat /\ PageLines \in Nat /\ PageLines >= 1
      /\ after \in Nat \cup {NoCursor} /\ NoCursor \notin Nat
  BY ReaderTypes, FeedsAssumption
<1>3. from \in Nat /\ from >= 1 /\ from >= first
  BY <1>2 DEF Greater
<1>4. to \in Nat /\ to <= last /\ (from <= last => from <= to)
  BY <1>2, <1>3 DEF Smaller
<1>5. next \in Nat \cup {NoCursor} /\ gap \in BOOLEAN
  BY <1>2, <1>4
<1>6. after # NoCursor => after \in Nat /\ base = 0 /\ numbering[r] = 0 /\ after <= last
  <2> SUFFICES ASSUME after # NoCursor PROVE base = 0 /\ numbering[r] = 0 /\ after <= last /\ after \in Nat
    OBVIOUS
  <2>1. base = 0 /\ after \in Nat /\ numbering[r] \in Nat
    BY ReaderTypes, <1>2 DEF FeedsInv, Kept
  <2>2. numbering[r] <= base /\ numbering[r] + after <= base + last
    BY DEF FeedsInv, Placed
  <2> QED BY <1>2, <2>1, <2>2
<1>7. next # NoCursor => next <= last
  BY <1>2, <1>4, <1>6
<1>8. next = NoCursor => after = NoCursor
  BY <1>2, <1>4
<1>9. ASSUME after # NoCursor
      PROVE  /\ from <= to => after < from /\ next = to /\ (gap <=> after + 1 < from) /\ (gap => from <= first)
             /\ to < from => ~gap /\ next = after /\ (last <= after \/ last < first)
  <2>1. after \in Nat /\ from = Greater(first, after + 1)
    BY <1>6, <1>9
  <2>2. from <= to => from <= last
    BY <1>2, <1>3, <1>4
  <2>3. from <= to => after < from /\ next = to /\ (gap <=> after + 1 < from) /\ (gap => from <= first)
    BY <1>2, <1>9, <2>1, <2>2 DEF Greater, HasLines
  <2>4. to < from => last < from
    BY <1>2, <1>3, <1>4
  <2>5. to < from => ~gap /\ next = after /\ (last <= after \/ last < first)
    BY <1>2, <1>3, <1>4, <1>9, <2>1, <2>4 DEF Greater, HasLines
  <2> QED BY <2>3, <2>5
<1>10. [from |-> from, to |-> to] \in Lines
  BY <1>3, <1>4 DEF Lines
<1> DEFINE p == [from |-> from, to |-> to]
<1>11. p \in Lines /\ p.from = from /\ p.to = to /\ Answers(r, p, gap, next)
  BY <1>1, <1>10
<1> HIDE DEF from, to, gap, next, p
<1>12. 1 <= p.from /\ p.to <= last
  BY <1>3, <1>4, <1>11
<1>13. cursor[r] # NoCursor /\ numbering[r] = base =>
              /\ p.from <= p.to => /\ cursor[r] < p.from /\ next = p.to /\ (gap <=> cursor[r] + 1 < p.from)
                                   /\ gap => p.from <= first
              /\ p.to < p.from => ~gap /\ next = cursor[r] /\ (last <= cursor[r] \/ last < first)
  BY <1>9, <1>11
<1>14. next = NoCursor => feed # "console" /\ cursor[r] = NoCursor
  BY <1>8
<1> QED BY <1>1, <1>5, <1>7, <1>11, <1>12, <1>13, <1>14, AnswerMade

\* ConsoleState::snapshot: everything that is left, and a reset if it is not
\* everything that is new.
LEMMA ConsoleAnswer ==
    ASSUME FeedsInv, NEW r \in Followers, feed = "console", Reads(r)
    PROVE  FeedsInv' /\ Feed!MakeAnswer(r)
<1> DEFINE after == cursor[r]
           reset == after # NoCursor /\ HasLines /\ after + 1 < first
           from == IF after = NoCursor \/ reset THEN first ELSE Greater(first, after + 1)
           p == [from |-> from, to |-> last]
<1>1. /\ Answers(r, p, reset, last) /\ reader[r].at = "idle"
      /\ UNCHANGED <<feed, first, last, base, cursor, numbering, page, told>>
  BY DEF Reads, ConsoleSnapshot
<1>2. /\ first \in Nat /\ first >= 1 /\ last \in Nat /\ after \in Nat \cup {NoCursor} /\ NoCursor \notin Nat
  BY ReaderTypes, FeedsAssumption
<1>3. from \in Nat /\ from >= first
  BY <1>2 DEF Greater
<1>4. p \in Lines /\ p.from = from /\ p.to = last /\ reset \in BOOLEAN
  BY <1>2, <1>3 DEF Lines
<1>5. ASSUME after # NoCursor, numbering[r] = base
      PROVE  /\ from <= last => after < from /\ (reset <=> after + 1 < from) /\ (reset => from <= first)
             /\ last < from => ~reset /\ last = after
  <2>1. after \in Nat /\ after <= last
    <3>1. after \in Nat /\ numbering[r] \in Nat /\ base \in Nat /\ numbering[r] + after <= base + last
      BY <1>2, <1>5, ReaderTypes DEF FeedsInv, Placed
    <3> QED BY <1>2, <1>5, <3>1
  <2>2. first <= last + 1 /\ (first <= last \/ last = 0)
    BY DEF FeedsInv, Kept
  <2>3. from = IF reset THEN first ELSE Greater(first, after + 1)
    BY <1>5
  <2> QED BY <1>2, <1>5, <2>1, <2>2, <2>3 DEF Greater, HasLines
<1> HIDE DEF p, reset, from
<1>6. cursor[r] # NoCursor /\ numbering[r] = base =>
              /\ p.from <= p.to => /\ cursor[r] < p.from /\ last = p.to /\ (reset <=> cursor[r] + 1 < p.from)
                                   /\ reset => p.from <= first
              /\ p.to < p.from => ~reset /\ last = cursor[r] /\ (last <= cursor[r] \/ last < first)
  BY <1>2, <1>4, <1>5
<1>7. 1 <= p.from /\ p.to <= last /\ last \in Nat \cup {NoCursor} /\ last # NoCursor /\ last <= last
  BY <1>2, <1>3, <1>4
<1> QED BY <1>1, <1>4, <1>6, <1>7, AnswerMade

\* What a reader of events knows: numbers never restart, and the baseline is
\* its cursor.
LEMMA Awake ==
    ASSUME FeedsInv, NEW r \in Followers, feed = "events", reader[r].at \in {"based", "subscribed", "waiting"}
    PROVE  /\ base = 0 /\ numbering[r] = 0 /\ cursor[r] = reader[r].baseline
           /\ cursor[r] # NoCursor /\ reader[r].baseline <= last
<1>1. base = 0 /\ numbering[r] <= base /\ numbering[r] \in Nat /\ cursor[r] = reader[r].baseline /\ reader[r].baseline \in Nat
  BY ReaderTypes DEF FeedsInv, Kept, Placed, Waits
<1>2. numbering[r] = 0 /\ cursor[r] # NoCursor
  BY <1>1, FeedsAssumption
<1>3. numbering[r] + cursor[r] <= base + last
  BY <1>2 DEF FeedsInv, Placed
<1> QED BY <1>1, <1>2, <1>3, ReaderTypes

\* An event that is answered is the only one there is, or an older one.
LEMMA EventAnswered ==
    ASSUME FeedsInv, NEW r \in Followers, feed = "events", reader[r].at \in {"based", "subscribed", "waiting"},
           NEW n \in Nat, reader[r].baseline < n, n <= last, EventAnswer(r, n),
           UNCHANGED <<feed, first, last, base, cursor, numbering, page, told>>
    PROVE  FeedsInv' /\ Feed!MakeAnswer(r)
<1> DEFINE p == [from |-> n, to |-> n]
           gap == n > reader[r].baseline + 1
<1>1. last <= first /\ first \in Nat /\ last \in Nat /\ reader[r].baseline \in Nat
  BY ReaderTypes DEF FeedsInv, Kept
<1>2. p \in Lines /\ p.from = n /\ p.to = n /\ gap \in BOOLEAN /\ Answers(r, p, gap, n)
  BY DEF Lines, EventAnswer
<1>3. cursor[r] = reader[r].baseline /\ cursor[r] # NoCursor /\ n # NoCursor
  BY Awake, FeedsAssumption
<1>4. 1 <= n /\ n <= last /\ n <= first /\ (gap <=> cursor[r] + 1 < n) /\ cursor[r] < n /\ ~(n < n)
  BY <1>1, <1>3
<1> HIDE DEF p, gap
<1> QED BY <1>2, <1>3, <1>4, AnswerMade

LEMMA ChecksKeeps ==
    ASSUME FeedsInv, NEW r \in Followers, ChecksLatest(r), HasLines, last > reader[r].baseline
    PROVE  FeedsInv' /\ Feed!MakeAnswer(r)
<1>1. feed = "events" /\ reader[r].at = "subscribed" /\ EventAnswer(r, last)
  BY DEF ChecksLatest
<1>2. last \in Nat /\ reader[r].baseline \in Nat
  BY ReaderTypes
<1>3. reader[r].baseline < last /\ last <= last
  BY <1>2
<1>4. UNCHANGED <<feed, first, last, base, cursor, numbering, page, told>>
  BY DEF ChecksLatest
<1> QED BY <1>1, <1>2, <1>3, <1>4, EventAnswered

LEMMA ExpiresKeeps ==
    ASSUME FeedsInv, NEW r \in Followers, WaitExpires(r)
    PROVE  FeedsInv' /\ Feed!MakeAnswer(r)
<1> DEFINE known == reader[r].baseline
<1>1. /\ feed = "events" /\ reader[r].at = "waiting" /\ reader[r].queue = <<>> /\ Answers(r, NoLines, FALSE, known)
      /\ UNCHANGED <<feed, first, last, base, cursor, numbering, page, told>>
  BY DEF WaitExpires
<1>2. cursor[r] = known /\ cursor[r] # NoCursor /\ known <= last /\ known \in Nat
  BY <1>1, Awake, ReaderTypes
<1>3. last <= known \/ last < first
  BY <1>1 DEF FeedsInv, Waits
<1>4. NoLines \in Lines /\ NoLines.from = 1 /\ NoLines.to = 0 /\ 1 <= NoLines.from /\ NoLines.to <= last
      /\ ~(NoLines.from <= NoLines.to)
  BY ReaderTypes DEF NoLines, Lines
<1> QED BY <1>1, <1>2, <1>3, <1>4, AnswerMade

----------------------------------------------------------------------------
(* The producers.                                                          *)

\* The end of the buffer moves on, and no reader does.
LEMMA BufferMoves ==
    ASSUME FeedsInv, UNCHANGED <<feed, base, cursor, numbering, reader, answered, page, told>>,
           first' \in Nat \ {0}, last' \in Nat, first <= first', last <= last', Kept',
           feed = "events" => last' = last
    PROVE  FeedsInv'
<1>1. FeedsType'
  BY DEF FeedsInv, FeedsType
<1>2. base \in Nat /\ first \in Nat /\ last \in Nat
  BY DEF FeedsInv, FeedsType
<1>3. base' = base /\ base <= base' /\ base' \in Nat
  BY <1>2
<1>4. base + last <= base' + last' /\ base + first <= base' + first'
  <2>1. base + last <= base + last' /\ base + first <= base + first'
    BY <1>2, SameStart
  <2> QED BY <1>3, <2>1
<1>5. ASSUME NEW q \in Followers PROVE Placed(q)' /\ Waits(q)' /\ Fits(q)'
  BY <1>2, <1>3, <1>4, Others
<1> QED BY <1>1, <1>5 DEF FeedsInv

\* A line more: an abstract line, and those it displaced are forgotten.
LEMMA ProducesLine ==
    ASSUME FeedsInv, UNCHANGED <<base, cursor, numbering, answered, page, told>>,
           \A r \in Followers : reader'[r].at = "answered" <=> reader[r].at = "answered",
           \A r \in Followers : reader[r].at = "answered" => reader'[r] = reader[r],
           last' = last + 1, first' \in Nat, first <= first', first' <= last'
    PROVE  Feed!PublishLine
<1>1. base \in Nat /\ first \in Nat /\ first >= 1 /\ last \in Nat
  BY DEF FeedsInv, FeedsType
<1>2. base' + last' = base + last + 1 /\ base' + first' - 1 \in (base + first - 1)..(base + last)
  <2>1. base + last' = base + last + 1 /\ base + first' - 1 \in (base + first - 1)..(base + last)
    <3> DEFINE m == last'
               g == first'
    <3>1. m \in Nat /\ g \in Nat /\ m = last + 1 /\ first <= g /\ g <= m
      BY <1>1
    <3> HIDE DEF m, g
    <3>2. base + m = base + last + 1 /\ base + g - 1 \in (base + first - 1)..(base + last)
      BY <1>1, <3>1, OneMore
    <3> QED BY <3>2 DEF m, g
  <2>2. base' = base
    OBVIOUS
  <2> QED BY <2>1, <2>2
<1>3. \A r \in Followers : FollowingOf(r)' = FollowingOf(r)
  BY DEF FollowingOf
<1> QED BY <1>2, <1>3 DEF Feed!PublishLine

\* The queue of one that waits takes the event, or drops its oldest.
LEMMA EventQueued ==
    ASSUME FeedsInv, PublishEvent, NEW r \in Followers, reader[r].at \in {"subscribed", "waiting"}
    PROVE  /\ reader'[r] \in Readers /\ reader'[r].at = reader[r].at /\ reader'[r].baseline = reader[r].baseline
           /\ reader'[r].queue # <<>>
           /\ \A i \in 1..Len(reader'[r].queue) : reader[r].baseline < reader'[r].queue[i] /\ reader'[r].queue[i] <= last'
<1> DEFINE q == reader[r].queue
           known == reader[r].baseline
<1>1. /\ feed = "events" /\ last' = last + 1 /\ last \in Nat /\ known \in Nat /\ known <= last
      /\ q \in Seq(Nat) /\ Len(q) \in Nat
  <2>1. feed = "events" /\ last' = last + 1
    BY DEF PublishEvent
  <2>2. known <= last
    BY <2>1, Awake
  <2>3. q \in Seq(Nat) /\ last \in Nat /\ known \in Nat
    BY ReaderTypes
  <2>4. Len(q) \in Nat
    BY <2>3
  <2> QED BY <2>1, <2>2, <2>3, <2>4
<1>2. \A i \in 1..Len(q) : q[i] \in Nat /\ known < q[i] /\ q[i] <= last
  <2>1. \A i \in 1..Len(q) : q[i] \in Nat
    BY <1>1
  <2> QED BY <2>1 DEF FeedsInv, Waits
<1>3. PICK kept \in Seq(Nat) : /\ kept = q \/ (q # <<>> /\ kept = Tail(q))
                               /\ \/ reader'[r] = [reader[r] EXCEPT !.queue = Append(kept, last')]
                                  \/ reader'[r] = [reader[r] EXCEPT !.queue = Append(kept, last'), !.lagged = TRUE]
  <2>1. CASE Len(q) < QueueEvents
    BY <1>1, <2>1 DEF PublishEvent
  <2>2. CASE ~(Len(q) < QueueEvents)
    <3>1. q # <<>>
      BY <1>1, <2>2, FeedsAssumption
    <3>2. Tail(q) \in Seq(Nat)
      BY <1>1, <3>1
    <3> QED BY <1>1, <2>2, <3>1, <3>2 DEF PublishEvent
  <2> QED BY <2>1, <2>2
<1>4. Len(kept) \in Nat /\ \A i \in 1..Len(kept) : known < kept[i] /\ kept[i] <= last /\ kept[i] \in Nat
  <2>1. CASE kept = q
    BY <1>1, <1>2, <2>1
  <2>2. CASE q # <<>> /\ kept = Tail(q)
    <3>1. Len(kept) = Len(q) - 1 /\ \A i \in 1..Len(kept) : kept[i] = q[i + 1]
      BY <1>1, <2>2
    <3>2. \A i \in 1..Len(kept) : i + 1 \in 1..Len(q)
      BY <1>1, <3>1
    <3>3. Len(q) # 0
      BY <1>1, <2>2
    <3>4. Len(kept) \in Nat
      BY <1>1, <3>1, <3>3
    <3>5. \A i \in 1..Len(kept) : kept[i] \in Nat /\ known < kept[i] /\ kept[i] <= last
      BY <1>2, <3>1, <3>2
    <3> QED BY <3>4, <3>5
  <2> QED BY <1>3, <2>1, <2>2
<1> DEFINE new == Append(kept, last')
<1>5. new \in Seq(Nat) /\ new # <<>> /\ Len(new) = Len(kept) + 1
  BY <1>1
<1>6. \A i \in 1..Len(new) : known < new[i] /\ new[i] <= last'
  <2> SUFFICES ASSUME NEW i \in 1..Len(new) PROVE known < new[i] /\ new[i] <= last'
    OBVIOUS
  <2>1. CASE i = Len(kept) + 1
    <3>1. new[i] = last'
      BY <2>1, <1>4
    <3> QED BY <1>1, <3>1
  <2>2. CASE i # Len(kept) + 1
    <3>1. i \in 1..Len(kept)
      BY <1>4, <1>5, <2>2
    <3>2. new[i] = kept[i]
      BY <3>1
    <3> QED BY <1>1, <1>4, <3>1, <3>2
  <2> QED BY <2>1, <2>2
<1>7. /\ reader'[r].queue = new /\ reader'[r].at = reader[r].at /\ reader'[r].baseline = known
      /\ reader'[r] \in Readers
  <2> HIDE DEF new
  <2>1. reader[r] \in Readers
    BY ReaderTypes
  <2>2. reader'[r] = [reader[r] EXCEPT !.queue = new] \/ reader'[r] = [reader[r] EXCEPT !.queue = new, !.lagged = TRUE]
    BY <1>3 DEF new
  <2> QED BY <1>5, <2>1, <2>2 DEF Readers
<1> QED BY <1>5, <1>6, <1>7

LEMMA ProducesKeeps ==
    ASSUME FeedsInv, Produces
    PROVE  FeedsInv' /\ Feed!PublishLine
<1>1. /\ base \in Nat /\ first \in Nat /\ first >= 1 /\ last \in Nat /\ first <= last + 1
      /\ UNCHANGED <<feed, base, cursor, numbering, answered, page, told>>
  BY DEF FeedsInv, FeedsType, Kept, Produces
<1>2. KeptLines \in Nat /\ KeptLines >= 1
  BY FeedsAssumption
<1>3. CASE PublishLog
  <2>1. last' = last + 1 /\ first' = Greater(first, last' + 1 - KeptLines) /\ UNCHANGED reader /\ feed = "logs"
    BY <1>3 DEF PublishLog
  <2>2. first' \in Nat /\ first' >= 1 /\ first <= first' /\ first' <= last' /\ last <= last' /\ last' \in Nat
    BY <1>1, <1>2, <2>1 DEF Greater
  <2>3. Kept'
    BY <1>1, <2>1, <2>2 DEF FeedsInv, Kept
  <2>4. FeedsInv'
    BY <1>1, <2>1, <2>2, <2>3, BufferMoves
  <2> QED BY <1>1, <2>1, <2>2, <2>4, ProducesLine
<1>4. CASE PushLine
  <2>1. last' = last + 1 /\ first' \in Greater(first, last' + 1 - KeptLines)..last' /\ UNCHANGED reader /\ feed = "console"
    BY <1>4 DEF PushLine
  <2>2. first' \in Nat /\ first' >= 1 /\ first <= first' /\ first' <= last' /\ last <= last' /\ last' \in Nat
    BY <1>1, <1>2, <2>1 DEF Greater
  <2>3. Kept'
    BY <1>1, <2>1, <2>2 DEF FeedsInv, Kept
  <2>4. FeedsInv'
    BY <1>1, <2>1, <2>2, <2>3, BufferMoves
  <2> QED BY <1>1, <2>1, <2>2, <2>4, ProducesLine
<1>5. CASE PublishEvent
  <2>1. /\ feed = "events" /\ last' = last + 1 /\ first' = last'
        /\ \A r \in Followers : reader[r].at \notin {"subscribed", "waiting"} => reader'[r] = reader[r]
    BY <1>5 DEF PublishEvent
  <2>2. first' \in Nat \ {0} /\ last' \in Nat /\ base' \in Nat /\ first <= first' /\ first' <= last'
    BY <1>1, <2>1
  <2>3. Kept'
    BY <1>1, <2>1, <2>2 DEF FeedsInv, Kept
  <2>4. \A r \in Followers : reader'[r] \in Readers /\ reader'[r].at = reader[r].at
    BY <1>5, <2>1, EventQueued, ReaderTypes
  <2>5. FeedsType'
    <3>1. reader' = [r \in Followers |-> reader'[r]]
      BY <1>5 DEF PublishEvent
    <3>2. reader' \in [Followers -> Readers]
      BY <2>4, <3>1
    <3> QED BY <1>1, <2>2, <3>2 DEF FeedsInv, FeedsType
  <2>6. ASSUME NEW r \in Followers PROVE Placed(r)' /\ Waits(r)' /\ Fits(r)'
    <3>1. Placed(r) /\ Waits(r) /\ Fits(r)
      BY DEF FeedsInv
    <3>2. base + last <= base' + last' /\ base + first <= base' + first'
      BY <1>1, <2>1, <2>2
    <3>3. /\ \A x \in Nat : (x <= base + last => x <= base' + last') /\ (x < base + first => x < base' + first')
          /\ \A x, y \in Nat : x + y <= base + last => x + y <= base' + last'
          /\ \A x, y \in Nat : x + y <= base + first => x + y <= base' + first'
      BY <1>1, <2>2, <3>2, EndGrows
    <3>4. Placed(r)'
      <4>1. page[r].from \in Nat /\ page[r].to \in Nat /\ numbering[r] \in Nat /\ cursor[r] \in Nat \cup {NoCursor}
        BY ReaderTypes DEF Lines
      <4>2. cursor[r] # NoCursor => numbering[r] + cursor[r] <= base' + last'
        BY <3>1, <3>3, <4>1 DEF Placed
      <4>3. page[r].to <= base + last => page[r].to <= base' + last'
        BY <3>3, <4>1
      <4> QED BY <1>1, <3>1, <4>2, <4>3 DEF Placed
    <3>5. CASE reader[r].at \in {"subscribed", "waiting"}
      <4>1. Waits(r)'
        BY <1>1, <1>5, <2>1, <3>1, <3>5, EventQueued DEF Waits
      <4>2. Fits(r)'
        BY <2>4, <3>5 DEF Fits
      <4> QED BY <3>4, <4>1, <4>2
    <3>6. CASE reader[r].at \notin {"subscribed", "waiting"}
      <4>1. reader'[r] = reader[r]
        BY <2>1, <3>6
      <4>2. Waits(r)'
        BY <1>1, <3>1, <3>6, <4>1 DEF Waits
      <4>3. Fits(r)'
        <5> SUFFICES ASSUME reader[r].at = "answered" PROVE Fits(r)'
          BY <4>1 DEF Fits
        <5>1. /\ reader[r].base \in Nat /\ reader[r].answer.from \in Nat /\ reader[r].answer.to \in Nat
              /\ reader[r].next \in Nat \cup {NoCursor} /\ answered[r] \in Nat
          BY ReaderTypes
        <5>2. Continues(r) => Continues(r)'
          BY <1>1, <3>3, <4>1, <5>1 DEF Continues
        <5> QED BY <1>1, <3>1, <3>3, <4>1, <5>1, <5>2 DEF Fits
      <4> QED BY <3>4, <4>2, <4>3
    <3> QED BY <3>5, <3>6
  <2>7. FeedsInv'
    BY <2>3, <2>5, <2>6 DEF FeedsInv
  <2>8. \A r \in Followers : reader[r].at = "answered" => reader'[r] = reader[r]
    BY <2>1
  <2> QED BY <1>1, <2>1, <2>2, <2>4, <2>7, <2>8, ProducesLine
<1> QED BY <1>3, <1>4, <1>5 DEF Produces

\* Clearing forgets every line and disturbs no reader.
LEMMA ClearsKeeps == ASSUME FeedsInv, Clears PROVE FeedsInv' /\ Feed!ForgetLines
<1>1. /\ first \in Nat /\ last \in Nat /\ base \in Nat /\ first <= last + 1 /\ first' = last + 1 /\ feed # "console"
      /\ UNCHANGED <<feed, last, base, cursor, numbering, reader, answered, page, told>>
  BY DEF FeedsInv, FeedsType, Kept, Clears
<1>2. first' \in Nat \ {0} /\ first <= first' /\ last' \in Nat /\ last <= last'
  BY <1>1
<1>3. Kept'
  BY <1>1 DEF FeedsInv, Kept
<1>4. FeedsInv'
  BY <1>1, <1>2, <1>3, BufferMoves
<1>5. base + first' - 1 = base + last
  BY <1>1
<1>6. \A r \in Followers : FollowingOf(r)' = FollowingOf(r)
  BY <1>1 DEF FollowingOf
<1>7. base' + first' - 1 = base + last
  BY <1>1, <1>5
<1> QED BY <1>1, <1>4, <1>6, <1>7 DEF Feed!ForgetLines

----------------------------------------------------------------------------
(* The readers.                                                            *)

\* A step of one reader.
LEMMA OneMoves ==
    ASSUME FeedsInv, NEW r \in Followers, UNCHANGED <<feed, first, last, base, answered>>,
           FeedsType', Placed(r)', Waits(r)', Fits(r)',
           \A q \in Followers : q # r => /\ cursor'[q] = cursor[q] /\ numbering'[q] = numbering[q]
                                         /\ reader'[q] = reader[q] /\ page'[q] = page[q]
    PROVE  FeedsInv'
<1>1. ASSUME NEW q \in Followers, q # r PROVE Placed(q)' /\ Waits(q)' /\ Fits(q)'
  BY <1>1, Others, ReaderTypes
<1>2. Kept'
  BY DEF FeedsInv, Kept
<1> QED BY <1>1, <1>2 DEF FeedsInv

\* A step that moves no cursor and makes no answer is not seen.
LEMMA StillUnseen ==
    ASSUME UNCHANGED <<first, last, base, cursor, numbering, answered, page, told>>,
           \A r \in Followers : FollowingOf(r)' = FollowingOf(r)
    PROVE  UNCHANGED Feed!feedVars
BY DEF Feed!feedVars

\* A reader that is not about to get an answer steps on, unseen.
LEMMA StepsOn ==
    ASSUME FeedsInv, NEW r \in Followers, NEW a \in Readers, reader' = [reader EXCEPT ![r] = a],
           reader[r].at # "answered", a.at # "answered", Waits(r)',
           UNCHANGED <<feed, first, last, base, cursor, numbering, answered, page, told>>
    PROVE  FeedsInv' /\ UNCHANGED Feed!feedVars
<1>1. reader \in [Followers -> Readers]
  BY DEF FeedsInv, FeedsType
<1>2. /\ reader' \in [Followers -> Readers] /\ reader'[r] = a
      /\ \A q \in Followers : q # r => reader'[q] = reader[q]
  BY <1>1
<1>3. FeedsType'
  BY <1>2 DEF FeedsInv, FeedsType
<1>4. Placed(r)' /\ Fits(r)'
  BY <1>2 DEF FeedsInv, Placed, Fits
<1>5. FeedsInv'
  BY <1>2, <1>3, <1>4, OneMoves
<1>6. \A q \in Followers : FollowingOf(q)' = FollowingOf(q)
  <2> SUFFICES ASSUME NEW q \in Followers PROVE FollowingOf(q)' = FollowingOf(q)
    OBVIOUS
  <2>1. CASE q = r
    BY <1>2, <2>1 DEF FollowingOf
  <2>2. CASE q # r
    BY <1>2, <2>2 DEF FollowingOf
  <2> QED BY <2>1, <2>2
<1> QED BY <1>5, <1>6, StillUnseen

LEMMA SubscribesKeeps ==
    ASSUME FeedsInv, NEW r \in Followers, Subscribes(r)
    PROVE  FeedsInv' /\ UNCHANGED Feed!feedVars
<1> DEFINE a == [reader[r] EXCEPT !.at = "subscribed"]
<1>1. /\ reader[r] \in Readers /\ reader \in [Followers -> Readers] /\ reader[r].at = "based" /\ feed = "events"
      /\ reader' = [reader EXCEPT ![r] = a]
      /\ UNCHANGED <<feed, first, last, base, cursor, numbering, answered, page, told>>
  BY ReaderTypes DEF Subscribes, FeedsInv, FeedsType
<1>2. a \in Readers /\ a.at = "subscribed" /\ a.baseline = reader[r].baseline /\ a.queue = reader[r].queue
  BY <1>1 DEF Readers
<1>3. reader[r].queue = <<>> /\ cursor[r] = reader[r].baseline
  BY <1>1 DEF FeedsInv, Waits
<1> HIDE DEF a
<1>4. reader'[r] = a
  BY <1>1
<1>5. Len(reader'[r].queue) = 0
  BY <1>2, <1>3, <1>4
<1>6. Waits(r)'
  BY <1>1, <1>2, <1>3, <1>4, <1>5 DEF Waits
<1> QED BY <1>1, <1>2, <1>6, StepsOn

\* Nothing new has arrived: the wait begins.
LEMMA WaitBegins ==
    ASSUME FeedsInv, NEW r \in Followers, ChecksLatest(r), ~(HasLines /\ last > reader[r].baseline)
    PROVE  FeedsInv' /\ UNCHANGED Feed!feedVars
<1> DEFINE a == [reader[r] EXCEPT !.at = "waiting"]
<1>1. /\ reader[r] \in Readers /\ reader \in [Followers -> Readers] /\ reader[r].at = "subscribed" /\ feed = "events"
      /\ reader' = [reader EXCEPT ![r] = a]
      /\ UNCHANGED <<feed, first, last, base, cursor, numbering, answered, page, told>>
  BY ReaderTypes DEF ChecksLatest, FeedsInv, FeedsType
<1>2. a \in Readers /\ a.at = "waiting" /\ a.baseline = reader[r].baseline /\ a.queue = reader[r].queue
  BY <1>1 DEF Readers
<1>3. last <= reader[r].baseline \/ last < first
  BY ReaderTypes DEF HasLines
<1> HIDE DEF a
<1>4. reader'[r] = a
  BY <1>1
<1>5. Waits(r)'
  BY <1>1, <1>2, <1>3, <1>4 DEF FeedsInv, Waits
<1> QED BY <1>1, <1>2, <1>5, StepsOn

\* A notice that events were dropped, or the oldest event of the queue.
LEMMA ReceivesKeeps ==
    ASSUME FeedsInv, NEW r \in Followers, ReceivesEvent(r)
    PROVE  FeedsInv' /\ (Feed!MakeAnswer(r) \/ UNCHANGED Feed!feedVars)
<1> DEFINE known == reader[r].baseline
           n == Head(reader[r].queue)
<1>1. /\ feed = "events" /\ reader[r].at = "waiting" /\ reader[r].queue # <<>> /\ reader[r] \in Readers
      /\ UNCHANGED <<feed, first, last, base, cursor, numbering, page, told>>
      /\ first \in Nat /\ last \in Nat /\ known \in Nat /\ reader[r].queue \in Seq(Nat)
      /\ reader \in [Followers -> Readers]
  BY ReaderTypes DEF ReceivesEvent, FeedsInv, FeedsType
<1>2. CASE reader[r].lagged /\ HasLines /\ last > known /\ EventAnswer(r, last)
  <2>1. known < last /\ last <= last
    BY <1>1, <1>2
  <2> QED BY <1>1, <1>2, <2>1, EventAnswered
<1>3. CASE ~reader[r].lagged /\ n > known /\ EventAnswer(r, n)
  <2>1. n = reader[r].queue[1] /\ Len(reader[r].queue) \in Nat /\ Len(reader[r].queue) # 0
    BY <1>1
  <2>2. 1 \in 1..Len(reader[r].queue)
    BY <2>1
  <2>3. n \in Nat
    BY <1>1
  <2>4. known < n /\ n <= last
    BY <1>1, <2>1, <2>2 DEF FeedsInv, Waits
  <2> HIDE DEF n
  <2> QED BY <1>1, <1>3, <2>3, <2>4, EventAnswered
<1>4. CASE reader' = [reader EXCEPT ![r].lagged = FALSE] /\ UNCHANGED answered
  <2> DEFINE a == [reader[r] EXCEPT !.lagged = FALSE]
  <2>1. /\ a \in Readers /\ a.at = reader[r].at /\ a.queue = reader[r].queue /\ a.baseline = reader[r].baseline
        /\ reader' = [reader EXCEPT ![r] = a]
    BY <1>1, <1>4 DEF Readers
  <2> HIDE DEF a
  <2>2. reader'[r] = a
    BY <1>1, <2>1
  <2>3. Waits(r)'
    BY <1>1, <2>1, <2>2 DEF FeedsInv, Waits
  <2> QED BY <1>1, <1>4, <2>1, <2>3, StepsOn
<1> QED BY <1>2, <1>3, <1>4 DEF ReceivesEvent

\* A reader without a cursor joins at the newest event.
LEMMA BaselineKeeps ==
    ASSUME FeedsInv, NEW r \in Followers, EventBaseline(r)
    PROVE  FeedsInv' /\ (Feed!JoinFeed(r) \/ UNCHANGED Feed!feedVars)
<1> DEFINE known == IF cursor[r] # NoCursor THEN cursor[r] ELSE IF HasLines THEN last ELSE 0
           a == [reader[r] EXCEPT !.at = "based", !.baseline = known]
<1>1. /\ feed = "events" /\ reader[r].at = "idle" /\ reader' = [reader EXCEPT ![r] = a]
      /\ cursor' = [cursor EXCEPT ![r] = known]
      /\ UNCHANGED <<feed, first, last, base, numbering, answered, page, told>>
      /\ reader \in [Followers -> Readers] /\ cursor \in [Followers -> Nat \cup {NoCursor}]
      /\ reader[r] \in Readers
  BY ReaderTypes DEF EventBaseline, FeedsInv, FeedsType
<1>2. /\ base = 0 /\ numbering[r] = 0 /\ last \in Nat
  <2>1. base = 0 /\ numbering[r] <= base /\ numbering[r] \in Nat /\ last \in Nat
    BY <1>1, ReaderTypes DEF FeedsInv, Kept, Placed
  <2> QED BY <2>1
<1>3. known \in Nat /\ known <= last /\ known # NoCursor
  <2>1. CASE cursor[r] # NoCursor
    <3>1. cursor[r] \in Nat /\ numbering[r] + cursor[r] <= base + last
      BY <2>1, ReaderTypes DEF FeedsInv, Placed
    <3> QED BY <1>2, <2>1, <3>1
  <2>2. CASE cursor[r] = NoCursor
    BY <1>2, <2>2, FeedsAssumption
  <2> QED BY <2>1, <2>2
<1>4. cursor[r] # NoCursor => known = cursor[r]
  OBVIOUS
<1>5. a \in Readers /\ a.at = "based" /\ a.baseline = known /\ a.queue = reader[r].queue
  <2> HIDE DEF known
  <2> QED BY <1>1, <1>3 DEF Readers
<1> HIDE DEF a, known
<1>6. /\ reader'[r] = a /\ cursor'[r] = known
      /\ reader' \in [Followers -> Readers] /\ cursor' \in [Followers -> Nat \cup {NoCursor}]
      /\ \A q \in Followers : q # r => reader'[q] = reader[q] /\ cursor'[q] = cursor[q]
  BY <1>1, <1>3, <1>5
<1>7. FeedsType'
  BY <1>1, <1>6 DEF FeedsInv, FeedsType
<1>8. Waits(r)' /\ Fits(r)'
  BY <1>1, <1>5, <1>6 DEF FeedsInv, Waits, Fits
<1>9. Placed(r)'
  <2>1. numbering[r] + known <= base + last
    BY <1>2, <1>3
  <2> QED BY <1>1, <1>6, <2>1 DEF FeedsInv, Placed
<1>10. FeedsInv'
  BY <1>1, <1>6, <1>7, <1>8, <1>9, OneMoves
<1>11. \A q \in Followers : q # r => FollowingOf(q)' = FollowingOf(q)
  BY <1>1, <1>6 DEF FollowingOf
<1>12. FollowingOf(r)' = "yes"
  BY <1>1, <1>2, <1>3, <1>6 DEF FollowingOf
<1>13. CASE cursor[r] # NoCursor
  <2>1. cursor' = cursor
    BY <1>1, <1>4, <1>13
  <2>2. FollowingOf(r) = "yes"
    BY <1>2, <1>13 DEF FollowingOf
  <2> QED BY <1>1, <1>10, <1>11, <1>12, <2>1, <2>2, StillUnseen
<1>14. CASE cursor[r] = NoCursor
  <2>1. FollowingOf(r) = "no"
    BY <1>1, <1>14 DEF FollowingOf
  <2>2. Feed!JoinFeed(r)
    <3> DEFINE following == [q \in Followers |-> FollowingOf(q)]
               at == [q \in Followers |-> IF cursor[q] = NoCursor THEN 0 ELSE numbering[q] + cursor[q]]
    <3>1. following' = [following EXCEPT ![r] = "yes"]
      BY <1>11, <1>12
    <3>2. at' = [at EXCEPT ![r] = known] /\ known \in 0..(base + last)
      <4>1. numbering[r] + known = known /\ known \in 0..(base + last)
        BY <1>2, <1>3
      <4>2. \A q \in Followers : q # r => at'[q] = at[q]
        BY <1>1, <1>6
      <4>3. at'[r] = known
        BY <1>1, <1>3, <1>6, <4>1
      <4> QED BY <4>1, <4>2, <4>3
    <3>3. PICK p \in Feed!Pages : page' = [page EXCEPT ![r] = p]
      <4>1. page[r] \in Feed!Pages
        <5>1. page[r] \in Lines /\ page[r].from \in Nat /\ page[r].to \in Nat
          BY ReaderTypes DEF Lines
        <5>2. CASE page[r] = NoLines
          BY <5>2 DEF NoLines, Feed!Pages, Feed!NoPage
        <5>3. CASE 1 <= page[r].from /\ page[r].from <= page[r].to /\ page[r].to <= base + last
          <6>1. page[r].from \in 1..(base + last) /\ page[r].to \in 1..(base + last)
            BY <1>2, <5>1, <5>3
          <6>2. page[r] \in [from : 1..(base + last), to : 1..(base + last)]
            BY <5>1, <6>1 DEF Lines
          <6> QED BY <5>3, <6>2 DEF Feed!Pages
        <5> QED BY <5>2, <5>3 DEF FeedsInv, Placed
      <4>2. page' = [page EXCEPT ![r] = page[r]]
        BY <1>1 DEF FeedsInv, FeedsType
      <4> QED BY <4>1, <4>2
    <3>4. told[r] \in BOOLEAN /\ told' = [told EXCEPT ![r] = told[r]]
      BY <1>1 DEF FeedsInv, FeedsType
    <3> QED BY <1>1, <2>1, <3>1, <3>2, <3>3, <3>4 DEF Feed!JoinFeed
  <2> QED BY <1>10, <2>2
<1> QED BY <1>13, <1>14

----------------------------------------------------------------------------
(* An answer arrives.                                                      *)

\* What is known of an answer on its way, and of its reader once it is there.
LEMMA AnswerFacts ==
    ASSUME FeedsInv, NEW r \in Followers, Arrives(r)
    PROVE  LET a == reader[r]
               p == page'[r]
           IN /\ a.at = "answered" /\ numbering[r] <= a.base /\ a.base <= base
              /\ a.base \in Nat /\ a.answer.from \in Nat /\ a.answer.to \in Nat /\ a.next \in Nat \cup {NoCursor}
              /\ a.next # NoCursor => a.base + a.next <= base + last
              /\ a.next = NoCursor => feed # "console" /\ cursor[r] = NoCursor
              /\ cursor[r] # NoCursor /\ numbering[r] = a.base => Continues(r)
              /\ a.answer.to < a.answer.from => p = NoLines
              /\ a.answer.from <= a.answer.to =>
                    p.from = a.base + a.answer.from /\ p.to = a.base + a.answer.to
              /\ p \in Feed!Pages /\ p \in Lines
              /\ page' = [page EXCEPT ![r] = p] /\ told'[r] = a.gap /\ told' = [told EXCEPT ![r] = a.gap]
<1> DEFINE a == reader[r]
           from == a.answer.from
           to == a.answer.to
           p == IF from > to THEN NoLines ELSE [from |-> a.base + from, to |-> a.base + to]
<1>1. /\ a.at = "answered" /\ page' = [page EXCEPT ![r] = p] /\ told' = [told EXCEPT ![r] = a.gap]
      /\ page \in [Followers -> Lines] /\ told \in [Followers -> BOOLEAN]
  BY DEF Arrives, FeedsInv, FeedsType
<1>2. /\ a.base \in Nat /\ from \in Nat /\ to \in Nat /\ a.next \in Nat \cup {NoCursor}
      /\ base \in Nat /\ last \in Nat
  BY ReaderTypes
<1>3. Fits(r)
  BY DEF FeedsInv
<1>4. /\ numbering[r] <= a.base /\ a.base <= base /\ 1 <= from /\ a.base + to <= base + last
      /\ a.next # NoCursor => a.base + a.next <= base + last
      /\ a.next = NoCursor => feed # "console" /\ cursor[r] = NoCursor
      /\ cursor[r] # NoCursor /\ numbering[r] = a.base => Continues(r)
  BY <1>1, <1>3 DEF Fits
<1>5. page'[r] = p /\ told'[r] = a.gap
  BY <1>1
<1>6. /\ to < from => p = NoLines
      /\ from <= to => p = [from |-> a.base + from, to |-> a.base + to]
  BY <1>2
<1>7. from <= to => a.base + from \in 1..(base + last) /\ a.base + to \in 1..(base + last) /\ a.base + from <= a.base + to
                    /\ a.base + from \in Nat /\ a.base + to \in Nat
  BY <1>2, <1>4
<1>8. p \in Feed!Pages /\ p \in Lines
  <2>1. CASE to < from
    BY <1>6, <2>1 DEF NoLines, Lines, Feed!Pages, Feed!NoPage
  <2>2. CASE from <= to
    BY <1>6, <1>7, <2>2 DEF Lines, Feed!Pages
  <2> QED BY <1>2, <2>1, <2>2
<1> HIDE DEF p
<1>9. from <= to => p.from = a.base + from /\ p.to = a.base + to
  BY <1>6
<1> QED BY <1>1, <1>2, <1>4, <1>5, <1>6, <1>8, <1>9

LEMMA ArrivesKeeps == ASSUME FeedsInv, NEW r \in Followers, Arrives(r) PROVE FeedsInv'
<1> DEFINE a == reader[r]
<1>1. /\ cursor' = [cursor EXCEPT ![r] = a.next] /\ numbering' = [numbering EXCEPT ![r] = a.base]
      /\ reader' = [reader EXCEPT ![r] = IdleReader]
      /\ UNCHANGED <<feed, first, last, base, answered>>
  BY DEF Arrives
<1>2. IdleReader \in Readers /\ IdleReader.at = "idle" /\ IdleReader.queue = <<>>
  <2>1. <<>> \in Seq(Nat)
    OBVIOUS
  <2> QED BY <2>1 DEF IdleReader, Readers, Lines, NoLines
<1>3. /\ cursor' \in [Followers -> Nat \cup {NoCursor}] /\ numbering' \in [Followers -> Nat]
      /\ reader' \in [Followers -> Readers] /\ page' \in [Followers -> Lines] /\ told' \in [Followers -> BOOLEAN]
  <2>1. page' \in [Followers -> Lines]
    BY AnswerFacts DEF FeedsInv, FeedsType
  <2>2. told' \in [Followers -> BOOLEAN]
    BY AnswerFacts, ReaderTypes DEF FeedsInv, FeedsType
  <2> QED BY <1>1, <1>2, <2>1, <2>2, ReaderTypes DEF FeedsInv, FeedsType
<1>4. FeedsType'
  BY <1>1, <1>3 DEF FeedsInv, FeedsType
<1>5. /\ cursor'[r] = a.next /\ numbering'[r] = a.base /\ reader'[r] = IdleReader
      /\ \A q \in Followers : q # r => /\ cursor'[q] = cursor[q] /\ numbering'[q] = numbering[q]
                                       /\ reader'[q] = reader[q] /\ page'[q] = page[q]
  BY <1>1, AnswerFacts DEF FeedsInv, FeedsType
<1>6. Waits(r)' /\ Fits(r)'
  BY <1>2, <1>5 DEF Waits, Fits
<1>7. Placed(r)'
  <2>1. page'[r] = NoLines \/ (1 <= page'[r].from /\ page'[r].from <= page'[r].to /\ page'[r].to <= base + last)
    <3>1. page'[r] \in Feed!Pages
      BY AnswerFacts
    <3>2. page'[r] = NoLines \/ (page'[r].from \in 1..(base + last) /\ page'[r].to \in 1..(base + last) /\ page'[r].from <= page'[r].to)
      BY <3>1 DEF Feed!Pages, Feed!NoPage, NoLines
    <3> QED BY <3>2, ReaderTypes
  <2> QED BY <1>1, <1>5, <2>1, AnswerFacts DEF Placed
<1> QED BY <1>1, <1>4, <1>5, <1>6, <1>7, OneMoves

\* A reader of the present numbering follows.
LEMMA ArrivesFollowed ==
    ASSUME FeedsInv, NEW r \in Followers, Arrives(r), cursor[r] # NoCursor, numbering[r] = base
    PROVE  Feed!Follow(r)
<1> DEFINE a == reader[r]
           p == page'[r]
           following == [q \in Followers |-> FollowingOf(q)]
           at == [q \in Followers |-> IF cursor[q] = NoCursor THEN 0 ELSE numbering[q] + cursor[q]]
<1>1. /\ base \in Nat /\ first \in Nat /\ first >= 1 /\ last \in Nat /\ cursor[r] \in Nat /\ answered[r] \in Nat
  BY ReaderTypes
<1>2. a.base = base
  <2>1. a.base \in Nat /\ base <= a.base /\ a.base <= base
    BY AnswerFacts
  <2> QED BY <1>1, <2>1
<1>3. Continues(r) /\ a.next # NoCursor /\ a.next \in Nat
  BY <1>2, AnswerFacts
<1>4. /\ UNCHANGED <<first, last, base, answered>>
      /\ cursor'[r] = a.next /\ numbering'[r] = base
      /\ \A q \in Followers : q # r => /\ cursor'[q] = cursor[q] /\ numbering'[q] = numbering[q] /\ reader'[q] = reader[q]
  BY <1>2 DEF Arrives, FeedsInv, FeedsType
<1>5. following' = following /\ following[r] = "yes"
  <2>1. \A q \in Followers : FollowingOf(q)' = FollowingOf(q)
    <3> SUFFICES ASSUME NEW q \in Followers PROVE FollowingOf(q)' = FollowingOf(q)
      OBVIOUS
    <3>1. CASE q = r
      BY <1>3, <1>4, <3>1 DEF FollowingOf
    <3>2. CASE q # r
      BY <1>4, <3>2 DEF FollowingOf
    <3> QED BY <3>1, <3>2
  <2> QED BY <2>1 DEF FollowingOf
<1>6. at[r] = base + cursor[r] /\ at' = [at EXCEPT ![r] = base + a.next]
  <2>1. at[r] = base + cursor[r] /\ at'[r] = base + a.next
    BY <1>3, <1>4
  <2>2. \A q \in Followers : q # r => at'[q] = at[q]
    BY <1>4
  <2> QED BY <2>1, <2>2
<1>7. /\ p \in Feed!Pages /\ page' = [page EXCEPT ![r] = p] /\ told' = [told EXCEPT ![r] = a.gap]
      /\ a.answer.from \in Nat /\ a.answer.to \in Nat
  BY AnswerFacts
<1>8. CASE a.answer.from <= a.answer.to
  <2>1. p.from = base + a.answer.from /\ p.to = base + a.answer.to
    BY <1>2, <1>8, AnswerFacts
  <2>2. /\ cursor[r] < a.answer.from /\ a.next = a.answer.to /\ (a.gap <=> cursor[r] + 1 < a.answer.from)
        /\ a.gap => a.base + a.answer.from <= base + first
    BY <1>3, <1>8 DEF Continues
  <2>3. p # Feed!NoPage
    <3>1. p.from <= p.to
      BY <1>1, <1>7, <1>8, <2>1
    <3> QED BY <3>1 DEF Feed!NoPage
  <2>4. p.from > at[r] /\ (p.from > at[r] + 1 <=> a.gap)
    BY <1>1, <1>6, <1>7, <2>1, <2>2
  <2>5. a.gap => p.from - 1 <= base + first - 1
    BY <1>1, <1>2, <1>7, <2>1, <2>2
  <2>6. at' = [at EXCEPT ![r] = p.to]
    BY <1>6, <2>1, <2>2
  <2>7. a.gap \in BOOLEAN
    BY ReaderTypes
  <2>8. a.gap = (p # Feed!NoPage /\ p.from > at[r] + 1)
    BY <2>3, <2>4, <2>7
  <2> QED BY <1>4, <1>5, <1>7, <2>3, <2>4, <2>5, <2>6, <2>8 DEF Feed!Follow
<1>9. CASE a.answer.to < a.answer.from
  <2>1. p = Feed!NoPage
    BY <1>9, AnswerFacts DEF NoLines, Feed!NoPage
  <2>2. ~a.gap /\ a.next = cursor[r] /\ (answered[r] <= a.base + cursor[r] \/ answered[r] < base + first)
    BY <1>3, <1>9 DEF Continues
  <2>3. at' = at
    BY <1>6, <2>2
  <2>4. answered[r] <= at[r] \/ answered[r] <= base + first - 1
    BY <1>1, <1>2, <1>6, <2>2
  <2>5. a.gap = FALSE
    BY <2>2, ReaderTypes
  <2>6. a.gap = (p # Feed!NoPage /\ p.from > at[r] + 1)
    BY <2>1, <2>5
  <2> QED BY <1>4, <1>5, <1>7, <2>1, <2>3, <2>4, <2>6 DEF Feed!Follow
<1> QED BY <1>7, <1>8, <1>9

\* Any other reader joins, or stays lost.
LEMMA ArrivesJoined ==
    ASSUME FeedsInv, NEW r \in Followers, Arrives(r), cursor[r] = NoCursor \/ numbering[r] # base
    PROVE  Feed!JoinFeed(r)
<1> DEFINE a == reader[r]
           following == [q \in Followers |-> FollowingOf(q)]
           at == [q \in Followers |-> IF cursor[q] = NoCursor THEN 0 ELSE numbering[q] + cursor[q]]
           n == IF a.next = NoCursor THEN 0 ELSE a.base + a.next
           f == IF a.next = NoCursor THEN "no" ELSE IF a.base = base THEN "yes" ELSE "lost"
<1>1. /\ base \in Nat /\ last \in Nat /\ a.base \in Nat /\ a.next \in Nat \cup {NoCursor}
      /\ a.next # NoCursor => a.base + a.next <= base + last
      /\ numbering[r] <= a.base /\ a.base <= base
      /\ a.at = "answered" /\ numbering[r] \in Nat
      /\ a.next = NoCursor => base = 0 /\ cursor[r] = NoCursor
  BY AnswerFacts, ReaderTypes DEF FeedsInv, Kept
<1>2. /\ UNCHANGED <<first, last, base, answered>>
      /\ cursor'[r] = a.next /\ numbering'[r] = a.base /\ reader'[r] = IdleReader
      /\ \A q \in Followers : q # r => /\ cursor'[q] = cursor[q] /\ numbering'[q] = numbering[q] /\ reader'[q] = reader[q]
  BY DEF Arrives, FeedsInv, FeedsType
<1>3. IdleReader.at # "answered"
  BY DEF IdleReader
<1>4. FollowingOf(r)' = f
  BY <1>2, <1>3 DEF FollowingOf
<1>5. following' = [following EXCEPT ![r] = f]
  <2>1. \A q \in Followers : q # r => FollowingOf(q)' = FollowingOf(q)
    BY <1>2 DEF FollowingOf
  <2> QED BY <1>4, <2>1
<1>6. n \in 0..(base + last) /\ at' = [at EXCEPT ![r] = n]
  <2>1. n \in 0..(base + last)
    <3>1. CASE a.next = NoCursor
      BY <1>1, <3>1
    <3>2. CASE a.next # NoCursor
      BY <1>1, <3>2
    <3> QED BY <3>1, <3>2
  <2>2. at'[r] = n /\ \A q \in Followers : q # r => at'[q] = at[q]
    BY <1>2
  <2> QED BY <2>1, <2>2
<1>7. following[r] # "yes" /\ f \in {following[r], "yes"}
  <2>1. following[r] = FollowingOf(r)
    OBVIOUS
  <2>2. CASE cursor[r] = NoCursor /\ a.next = NoCursor
    <3>1. a.base = base
      BY <1>1, <2>2
    <3> QED BY <1>1, <2>1, <2>2, <3>1 DEF FollowingOf
  <2>3. CASE cursor[r] = NoCursor /\ a.next # NoCursor
    BY <1>1, <2>1, <2>3 DEF FollowingOf
  <2>4. CASE cursor[r] # NoCursor
    BY <1>1, <2>1, <2>4 DEF FollowingOf
  <2> QED BY <2>2, <2>3, <2>4
<1>8. /\ page'[r] \in Feed!Pages /\ page' = [page EXCEPT ![r] = page'[r]]
      /\ a.gap \in BOOLEAN /\ told' = [told EXCEPT ![r] = a.gap]
  BY AnswerFacts, ReaderTypes
<1> HIDE DEF f, n
<1> QED BY <1>2, <1>5, <1>6, <1>7, <1>8 DEF Feed!JoinFeed

\* An answer, or what was to become one, is lost: who has no cursor starts over.
LEMMA FailsKeeps ==
    ASSUME FeedsInv, NEW r \in Followers, RequestFails(r)
    PROVE  FeedsInv' /\ (Feed!LeaveFeed(r) \/ UNCHANGED Feed!feedVars)
<1>1. /\ reader' = [reader EXCEPT ![r] = IdleReader] /\ reader \in [Followers -> Readers]
      /\ UNCHANGED <<feed, first, last, base, cursor, numbering, answered, page, told>>
  BY DEF RequestFails, FeedsInv, FeedsType
<1>2. IdleReader \in Readers /\ IdleReader.at = "idle" /\ IdleReader.queue = <<>>
  <2>1. <<>> \in Seq(Nat)
    OBVIOUS
  <2> QED BY <2>1 DEF IdleReader, Readers, Lines, NoLines
<1>3. /\ reader' \in [Followers -> Readers] /\ reader'[r] = IdleReader
      /\ \A q \in Followers : q # r => reader'[q] = reader[q]
  BY <1>1, <1>2
<1>4. FeedsType'
  BY <1>1, <1>3 DEF FeedsInv, FeedsType
<1>5. Placed(r)' /\ Waits(r)' /\ Fits(r)'
  BY <1>1, <1>2, <1>3 DEF FeedsInv, Placed, Waits, Fits
<1>6. FeedsInv'
  BY <1>1, <1>3, <1>4, <1>5, OneMoves
<1>7. \A q \in Followers : q # r => FollowingOf(q)' = FollowingOf(q)
  BY <1>1, <1>3 DEF FollowingOf
<1>8. CASE cursor[r] # NoCursor
  <2>1. FollowingOf(r)' = FollowingOf(r)
    BY <1>1, <1>8 DEF FollowingOf
  <2> QED BY <1>1, <1>6, <1>7, <2>1, StillUnseen
<1>9. CASE cursor[r] = NoCursor
  <2> DEFINE following == [q \in Followers |-> FollowingOf(q)]
             at == [q \in Followers |-> IF cursor[q] = NoCursor THEN 0 ELSE numbering[q] + cursor[q]]
  <2>1. FollowingOf(r)' = "no"
    BY <1>1, <1>2, <1>3, <1>9 DEF FollowingOf
  <2>2. following' = [following EXCEPT ![r] = "no"]
    BY <1>7, <2>1
  <2>3. at' = [at EXCEPT ![r] = 0]
    BY <1>1, <1>9
  <2>4. Feed!LeaveFeed(r)
    BY <1>1, <2>2, <2>3 DEF Feed!LeaveFeed
  <2> QED BY <1>6, <2>4
<1> QED BY <1>8, <1>9

\* A page that cleared the logs starts over.
LEMMA ClearedKeeps ==
    ASSUME FeedsInv, NEW r \in Followers, PageCleared(r)
    PROVE  FeedsInv' /\ Feed!LeaveFeed(r)
<1>1. /\ reader' = [reader EXCEPT ![r] = IdleReader] /\ reader \in [Followers -> Readers]
      /\ cursor' = [cursor EXCEPT ![r] = NoCursor] /\ cursor \in [Followers -> Nat \cup {NoCursor}]
      /\ numbering' = [numbering EXCEPT ![r] = 0] /\ numbering \in [Followers -> Nat]
      /\ UNCHANGED <<feed, first, last, base, answered, page, told>>
  BY DEF PageCleared, FeedsInv, FeedsType
<1>2. IdleReader \in Readers /\ IdleReader.at = "idle" /\ IdleReader.queue = <<>>
  <2>1. <<>> \in Seq(Nat)
    OBVIOUS
  <2> QED BY <2>1 DEF IdleReader, Readers, Lines, NoLines
<1>3. /\ reader' \in [Followers -> Readers] /\ cursor' \in [Followers -> Nat \cup {NoCursor}]
      /\ numbering' \in [Followers -> Nat]
      /\ reader'[r] = IdleReader /\ cursor'[r] = NoCursor /\ numbering'[r] = 0
      /\ \A q \in Followers : q # r =>
            reader'[q] = reader[q] /\ cursor'[q] = cursor[q] /\ numbering'[q] = numbering[q] /\ page'[q] = page[q]
  BY <1>1, <1>2
<1>4. FeedsType'
  BY <1>1, <1>3 DEF FeedsInv, FeedsType
<1>5. Waits(r)' /\ Fits(r)'
  BY <1>2, <1>3 DEF Waits, Fits
<1>6. Placed(r)'
  <2>1. 0 <= base
    BY ReaderTypes
  <2> QED BY <1>1, <1>3, <2>1 DEF FeedsInv, Placed
<1>7. FeedsInv'
  BY <1>1, <1>3, <1>4, <1>5, <1>6, OneMoves
<1>8. FollowingOf(r)' = "no" /\ \A q \in Followers : q # r => FollowingOf(q)' = FollowingOf(q)
  BY <1>1, <1>2, <1>3 DEF FollowingOf
<1> DEFINE following == [q \in Followers |-> FollowingOf(q)]
           at == [q \in Followers |-> IF cursor[q] = NoCursor THEN 0 ELSE numbering[q] + cursor[q]]
<1>9. following' = [following EXCEPT ![r] = "no"] /\ at' = [at EXCEPT ![r] = 0]
  BY <1>3, <1>8
<1> QED BY <1>1, <1>7, <1>9 DEF Feed!LeaveFeed

----------------------------------------------------------------------------
(* Numbering restarts.                                                     *)

\* What a restart leaves behind: the same end, nothing kept.
LEMMA Restarted ==
    ASSUME FeedsInv, FreshConsole
    PROVE  /\ feed = "console" /\ feed' = feed /\ base \in Nat /\ last \in Nat
           /\ base' = base + last /\ last' = 0 /\ first' = 1 /\ base' \in Nat
           /\ base <= base' /\ base' + last' = base + last /\ base + first <= base' + first'
           /\ base' + first' - 1 = base + last
           /\ UNCHANGED <<answered, page, told>> /\ Kept'
<1>1. /\ feed = "console" /\ feed' = feed /\ base' = base + last /\ last' = 0 /\ first' = 1
      /\ UNCHANGED <<answered, page, told>>
  BY DEF FreshConsole
<1>2. base \in Nat /\ last \in Nat /\ first \in Nat /\ first <= last + 1
  BY DEF FeedsInv, FeedsType, Kept
<1> DEFINE b == base + last
<1>3. b \in Nat /\ base <= b /\ b + 0 = b /\ base + first <= b + 1 /\ b + 1 - 1 = b
  BY <1>2
<1> HIDE DEF b
<1>4. base' = b
  BY <1>1 DEF b
<1>5. base' + last' = b /\ base + first <= base' + first' /\ base' + first' - 1 = b /\ base <= base' /\ base' \in Nat
  BY <1>1, <1>3, <1>4
<1>6. Kept'
  BY <1>1 DEF Kept
<1> QED BY <1>1, <1>2, <1>5, <1>6 DEF b

\* A reader that takes no part in it is lost, unless it has no place yet.
LEMMA LeftBehind ==
    ASSUME FeedsInv, FreshConsole, NEW q \in Followers,
           cursor'[q] = cursor[q], numbering'[q] = numbering[q], reader'[q] = reader[q]
    PROVE  /\ Placed(q)' /\ Waits(q)' /\ Fits(q)'
           /\ FollowingOf(q)' \in {FollowingOf(q), "lost"}
<1>1. /\ feed = "console" /\ feed' = feed /\ base \in Nat /\ last \in Nat
      /\ first' \in Nat /\ last' \in Nat /\ base' \in Nat
      /\ base <= base' /\ base + last <= base' + last' /\ base + first <= base' + first'
      /\ answered' = answered /\ page' = page
  <2>1. base + last <= base + last /\ 0 \in Nat /\ 1 \in Nat
    BY ReaderTypes
  <2> QED BY <2>1, Restarted
<1>2. Placed(q)' /\ Waits(q)' /\ Fits(q)'
  BY <1>1, Others
<1>3. /\ numbering[q] \in Nat /\ numbering[q] <= base
      /\ reader[q].at = "answered" => reader[q].base <= base /\ reader[q].base \in Nat
  BY ReaderTypes DEF FeedsInv, Placed, Fits
<1>4. numbering[q] # base => numbering[q] # base'
  BY <1>1, <1>3
<1>5. reader[q].at = "answered" /\ reader[q].base # base => reader[q].base # base'
  BY <1>1, <1>3
<1>6. FollowingOf(q)' \in {FollowingOf(q), "lost"}
  <2>1. CASE cursor[q] = NoCursor
    BY <1>5, <2>1 DEF FollowingOf
  <2>2. CASE cursor[q] # NoCursor
    BY <1>4, <2>2 DEF FollowingOf
  <2> QED BY <2>1, <2>2
<1> QED BY <1>2, <1>6

LEMMA ClearConsoleKeeps ==
    ASSUME FeedsInv, ClearConsole
    PROVE  FeedsInv' /\ Feed!RestartFeed
<1>1. FreshConsole /\ UNCHANGED <<cursor, numbering, reader>>
  BY DEF ClearConsole
<1>2. ASSUME NEW q \in Followers
      PROVE  Placed(q)' /\ Waits(q)' /\ Fits(q)' /\ FollowingOf(q)' \in {FollowingOf(q), "lost"}
  BY <1>1, LeftBehind
<1>3. FeedsType'
  BY <1>1, Restarted DEF FeedsInv, FeedsType
<1>4. FeedsInv'
  BY <1>1, <1>2, <1>3, Restarted DEF FeedsInv
<1> DEFINE following == [q \in Followers |-> FollowingOf(q)]
           at == [q \in Followers |-> IF cursor[q] = NoCursor THEN 0 ELSE numbering[q] + cursor[q]]
           gone == {q \in Followers : FollowingOf(q)' = "lost"}
           back == {}
<1>5. following' = [q \in Followers |-> IF q \in gone THEN "lost" ELSE IF q \in back THEN "yes" ELSE following[q]]
  BY <1>2
<1>6. at' = [q \in Followers |-> IF q \in back \ gone THEN base + last ELSE at[q]]
  BY <1>1
<1>7. gone \in SUBSET Followers /\ back \in SUBSET Followers
  OBVIOUS
<1> HIDE DEF gone, back
<1> QED BY <1>1, <1>4, <1>5, <1>6, <1>7, Restarted DEF Feed!RestartFeed

LEMMA StartConsoleKeeps ==
    ASSUME FeedsInv, NEW r \in Followers, StartConsole(r)
    PROVE  FeedsInv' /\ Feed!RestartFeed
<1>1. /\ FreshConsole
      /\ cursor' = [cursor EXCEPT ![r] = 0] /\ cursor \in [Followers -> Nat \cup {NoCursor}]
      /\ numbering' = [numbering EXCEPT ![r] = base'] /\ numbering \in [Followers -> Nat]
      /\ reader' = [reader EXCEPT ![r] = IdleReader] /\ reader \in [Followers -> Readers]
  BY DEF StartConsole, FeedsInv, FeedsType
<1>2. IdleReader \in Readers /\ IdleReader.at = "idle" /\ IdleReader.queue = <<>>
  <2>1. <<>> \in Seq(Nat)
    OBVIOUS
  <2> QED BY <2>1 DEF IdleReader, Readers, Lines, NoLines
<1>3. base' \in Nat /\ 0 \in Nat /\ 0 # NoCursor
  BY <1>1, Restarted, FeedsAssumption
<1>4. /\ cursor' \in [Followers -> Nat \cup {NoCursor}] /\ numbering' \in [Followers -> Nat]
      /\ reader' \in [Followers -> Readers]
      /\ cursor'[r] = 0 /\ numbering'[r] = base' /\ reader'[r] = IdleReader
      /\ \A q \in Followers : q # r => cursor'[q] = cursor[q] /\ numbering'[q] = numbering[q] /\ reader'[q] = reader[q]
  BY <1>1, <1>2, <1>3
<1>5. FeedsType'
  BY <1>1, <1>4, Restarted DEF FeedsInv, FeedsType
<1>6. ASSUME NEW q \in Followers, q # r
      PROVE  Placed(q)' /\ Waits(q)' /\ Fits(q)' /\ FollowingOf(q)' \in {FollowingOf(q), "lost"}
  BY <1>1, <1>4, <1>6, LeftBehind
<1>7. Waits(r)' /\ Fits(r)'
  BY <1>2, <1>4 DEF Waits, Fits
<1>8. base' <= base' /\ base' + 0 = base'
  <2>1. \A b \in Nat : b <= b /\ b + 0 = b
    OBVIOUS
  <2> QED BY <1>3, <2>1
<1>9. Placed(r)'
  <2>1. page'[r] = NoLines \/ (1 <= page'[r].from /\ page'[r].from <= page'[r].to /\ page'[r].to <= base' + last')
    BY <1>1, Restarted DEF FeedsInv, Placed
  <2>2. numbering'[r] <= base' /\ numbering'[r] + cursor'[r] <= base' + last'
    BY <1>1, <1>4, <1>8, Restarted
  <2> QED BY <2>1, <2>2 DEF Placed
<1>10. FeedsInv'
  BY <1>1, <1>5, <1>6, <1>7, <1>9, Restarted DEF FeedsInv
<1> DEFINE following == [q \in Followers |-> FollowingOf(q)]
           at == [q \in Followers |-> IF cursor[q] = NoCursor THEN 0 ELSE numbering[q] + cursor[q]]
           gone == {q \in Followers : FollowingOf(q)' = "lost"}
           back == {r}
<1>11. FollowingOf(r)' = "yes"
  BY <1>3, <1>4 DEF FollowingOf
<1>12. following' = [q \in Followers |-> IF q \in gone THEN "lost" ELSE IF q \in back THEN "yes" ELSE following[q]]
  BY <1>6, <1>11
<1>13. at'[r] = base + last
  BY <1>1, <1>3, <1>4, <1>8, Restarted
<1>14. at' = [q \in Followers |-> IF q \in back \ gone THEN base + last ELSE at[q]]
  BY <1>4, <1>11, <1>13
<1>15. gone \in SUBSET Followers /\ back \in SUBSET Followers
  OBVIOUS
<1> HIDE DEF gone, back
<1> QED BY <1>1, <1>10, <1>12, <1>14, <1>15, Restarted DEF Feed!RestartFeed

----------------------------------------------------------------------------

\* Every step keeps the invariant, and is a step of the abstract feed or is
\* not seen there.
LEMMA FeedsStep ==
    ASSUME FeedsInv, [FeedsNext]_feedsVars
    PROVE  FeedsInv' /\ [Feed!FeedNext]_(Feed!feedVars)
<1>1. CASE Produces
  BY <1>1, ProducesKeeps DEF Feed!FeedNext
<1>2. CASE Clears
  BY <1>2, ClearsKeeps DEF Feed!FeedNext
<1>3. CASE ClearConsole
  BY <1>3, ClearConsoleKeeps DEF Feed!FeedNext
<1>4. CASE ConsoleEnds \/ UNCHANGED feedsVars
  <2>1. UNCHANGED <<feed, first, last, base, cursor, numbering, reader, answered, page, told>>
    BY <1>4 DEF ConsoleEnds, feedsVars
  <2>2. /\ first' \in Nat \ {0} /\ last' \in Nat /\ first <= first' /\ last <= last' /\ Kept'
    <3>1. first \in Nat \ {0} /\ last \in Nat /\ first <= first /\ last <= last
      BY ReaderTypes DEF FeedsInv, FeedsType
    <3> QED BY <2>1, <3>1 DEF FeedsInv, Kept
  <2>3. FeedsInv'
    BY <2>1, <2>2, BufferMoves
  <2>4. \A q \in Followers : FollowingOf(q)' = FollowingOf(q)
    BY <2>1 DEF FollowingOf
  <2>5. UNCHANGED Feed!feedVars
    BY <2>1, <2>4, StillUnseen
  <2> QED BY <2>3, <2>5
<1>5. ASSUME NEW r \in Followers,
             \/ PageCleared(r) \/ StartConsole(r) \/ Reads(r) \/ Arrives(r) \/ RequestFails(r)
             \/ EventBaseline(r) \/ Subscribes(r) \/ ChecksLatest(r) \/ ReceivesEvent(r) \/ WaitExpires(r)
      PROVE  FeedsInv' /\ [Feed!FeedNext]_(Feed!feedVars)
  <2>1. CASE PageCleared(r)
    BY <2>1, ClearedKeeps DEF Feed!FeedNext
  <2>2. CASE StartConsole(r)
    BY <2>2, StartConsoleKeeps DEF Feed!FeedNext
  <2>3. CASE Reads(r)
    <3>1. feed = "logs" \/ feed = "console"
      BY <2>3 DEF Reads
    <3> QED BY <2>3, <3>1, LogAnswer, ConsoleAnswer DEF Feed!FeedNext
  <2>4. CASE Arrives(r)
    <3>1. FeedsInv'
      BY <2>4, ArrivesKeeps
    <3>2. Feed!Follow(r) \/ Feed!JoinFeed(r)
      BY <2>4, ArrivesFollowed, ArrivesJoined
    <3> QED BY <3>1, <3>2 DEF Feed!FeedNext
  <2>5. CASE RequestFails(r)
    BY <2>5, FailsKeeps DEF Feed!FeedNext
  <2>6. CASE EventBaseline(r)
    BY <2>6, BaselineKeeps DEF Feed!FeedNext
  <2>7. CASE Subscribes(r)
    BY <2>7, SubscribesKeeps
  <2>8. CASE ChecksLatest(r)
    BY <2>8, ChecksKeeps, WaitBegins DEF Feed!FeedNext
  <2>9. CASE ReceivesEvent(r)
    BY <2>9, ReceivesKeeps DEF Feed!FeedNext
  <2>10. CASE WaitExpires(r)
    BY <2>10, ExpiresKeeps DEF Feed!FeedNext
  <2> QED BY <1>5, <2>1, <2>2, <2>3, <2>4, <2>5, <2>6, <2>7, <2>8, <2>9, <2>10
<1> QED BY <1>1, <1>2, <1>3, <1>4, <1>5 DEF FeedsNext

LEMMA FeedStarts == FeedsInit => Feed!FeedInit
<1> SUFFICES ASSUME FeedsInit PROVE Feed!FeedInit
  OBVIOUS
<1>1. base + last = 0 /\ base + first - 1 = 0
  BY DEF FeedsInit
<1>2. \A r \in Followers : FollowingOf(r) = "no" /\ cursor[r] = NoCursor
  BY DEF FeedsInit, FollowingOf, IdleReader
<1>3. page = [r \in Followers |-> Feed!NoPage]
  BY DEF FeedsInit, NoLines, Feed!NoPage
<1>4. answered = [r \in Followers |-> 0] /\ told = [r \in Followers |-> FALSE]
  BY DEF FeedsInit
<1> QED BY <1>1, <1>2, <1>3, <1>4 DEF Feed!FeedInit

\* Device logs, the console of an application and device events (console.rs,
\* and the slots for logs and events) are bounded feeds: a reader misses no
\* line and gets none twice unless it is told of the gap, whatever is dropped,
\* cleared, published or lost while it reads, for any number of readers and
\* any size of the buffers.
THEOREM FeedsKeepPromise == FeedsSpec => FeedPromise
<1>1. FeedsInit => FeedsInv /\ Feed!FeedInit
  BY FeedsInitially, FeedStarts
<1>2. FeedsInv /\ [FeedsNext]_feedsVars => FeedsInv' /\ [Feed!FeedNext]_(Feed!feedVars)
  BY FeedsStep
<1> QED BY <1>1, <1>2, PTL DEF FeedsSpec, FeedPromise, Feed!FeedSpec

-----------------------------------------------------------------------------
(***************************************************************************)
(* Performance.  What the source samples is on the device, and what is on  *)
(* the device is sampled or gone; a snapshot newer than the baseline of a  *)
(* call was taken after the call began; and the bytes that an update may   *)
(* still count, those above the baseline of their connection, were not     *)
(* counted before: they are kept as a set, one element for each byte.      *)
(***************************************************************************)
PerformanceSpec == PerformanceInit /\ [][PerformanceNext(Viewers)]_performanceVars

ViewerRecords == [at : {"idle", "waiting", "answered"}, baseline : Nat, since : Nat, fresh : BOOLEAN]
FlowRecords == [seen : BOOLEAN, sized : BOOLEAN, bytes : Nat]

SampleType ==
    /\ captured \in Nat /\ samples \in Nat /\ captured <= samples
    /\ viewer \in [Viewers -> ViewerRecords]
    /\ flows \in [Flows -> FlowRecords] /\ real \in [Flows -> Nat]
    /\ {window, counted, moved} \subseteq Nat

DeviceAccounted ==
    /\ onDevice \subseteq sampled \cup lost /\ sampled \subseteq onDevice
    /\ sampled # {} => phase = "streaming"

\* What a call learns from a snapshot that is newer than its baseline.
Newer(v) ==
    /\ viewer[v].since <= samples
    /\ viewer[v].at = "waiting" => captured \in {0, viewer[v].baseline} \/ captured > viewer[v].since
    /\ viewer[v].fresh => viewer[v].at = "answered" /\ samples > viewer[v].since

Uncounted == {x \in Flows \X Nat : flows[x[1]].sized /\ flows[x[1]].bytes < x[2] /\ x[2] <= real[x[1]]}
BytesOnce == IsFiniteSet(Uncounted) /\ Cardinality(Uncounted) + counted + window <= moved

PerformanceInv == SampleType /\ DeviceAccounted /\ (\A v \in Viewers : Newer(v)) /\ BytesOnce

LEMMA UncountedFacts ==
    \A c, i : <<c, i>> \in Uncounted <=>
        c \in Flows /\ i \in Nat /\ flows[c].sized /\ flows[c].bytes < i /\ i <= real[c]
BY DEF Uncounted

\* The bytes left to count become fewer.
LEMMA FewerUncounted ==
    ASSUME SampleType, BytesOnce, SampleType', Uncounted' \subseteq Uncounted,
           counted' + window' <= counted + window, moved' = moved
    PROVE  BytesOnce'
<1>1. PICK P : P = Uncounted
  OBVIOUS
<1>2. PICK Q \in SUBSET P : Q = Uncounted'
  BY <1>1
<1>3. IsFiniteSet(P) /\ Cardinality(P) + counted + window <= moved
  BY <1>1 DEF BytesOnce
<1>4. IsFiniteSet(Q) /\ Cardinality(Q) <= Cardinality(P)
  BY <1>2, <1>3, FS_Subset
<1>5. Cardinality(P) \in Nat /\ Cardinality(Q) \in Nat
  BY <1>3, <1>4, FS_CardinalityType
<1>6. Cardinality(Q) + counted' + window' <= moved'
  BY <1>3, <1>4, <1>5 DEF SampleType
<1> QED BY <1>2, <1>4, <1>6 DEF BytesOnce

\* A byte moves: one more is left to count.
LEMMA MoveStep ==
    ASSUME SampleType, BytesOnce, NEW c \in Flows, Moves(c)
    PROVE  BytesOnce' /\ SampleType'
<1>1. moved' = moved + 1 /\ real' = [real EXCEPT ![c] = @ + 1] /\ UNCHANGED <<flows, window, counted, captured, samples, viewer>>
  BY DEF Moves, sampleVars
<1>2. SampleType'
  BY <1>1 DEF SampleType
<1>3. PICK P : P = Uncounted
  OBVIOUS
<1>4. PICK x : x = <<c, real[c] + 1>>
  OBVIOUS
<1>5. Uncounted' \subseteq P \cup {x}
  <2>1. ASSUME NEW y \in Uncounted' PROVE y \in P \cup {x}
    <3>1. /\ y[1] \in Flows /\ y[2] \in Nat /\ y = <<y[1], y[2]>> /\ flows[y[1]].sized
          /\ flows[y[1]].bytes < y[2] /\ y[2] <= real'[y[1]]
      BY <1>1, <2>1 DEF Uncounted
    <3>2. CASE y[1] = c /\ y[2] = real[c] + 1
      BY <1>4, <3>1, <3>2
    <3>3. CASE y[1] = c /\ y[2] # real[c] + 1
      <4>1. y[2] <= real[c]
        BY <1>1, <3>1, <3>3 DEF SampleType
      <4> QED BY <1>3, <2>1, <3>1, <3>3, <4>1, UncountedFacts
    <3>4. CASE y[1] # c
      <4>1. real'[y[1]] = real[y[1]]
        BY <1>1, <3>1, <3>4 DEF SampleType
      <4> QED BY <1>3, <3>1, <4>1, UncountedFacts
    <3> QED BY <3>2, <3>3, <3>4
  <2> QED BY <2>1
<1>6. PICK Q \in SUBSET (P \cup {x}) : Q = Uncounted'
  BY <1>5
<1>7. IsFiniteSet(P) /\ Cardinality(P) + counted + window <= moved
  BY <1>3 DEF BytesOnce
<1>8. IsFiniteSet(P \cup {x}) /\ Cardinality(P \cup {x}) <= Cardinality(P) + 1
      /\ Cardinality(P) \in Nat
  <2>1. IsFiniteSet(P \cup {x})
        /\ Cardinality(P \cup {x}) = IF x \in P THEN Cardinality(P) ELSE Cardinality(P) + 1
    BY <1>7, FS_AddElement
  <2>2. Cardinality(P) \in Nat
    BY <1>7, FS_CardinalityType
  <2> QED BY <2>1, <2>2
<1>9. IsFiniteSet(Q) /\ Cardinality(Q) <= Cardinality(P \cup {x})
  BY <1>8, FS_Subset
<1>10. Cardinality(Q) \in Nat /\ Cardinality(P \cup {x}) \in Nat
  BY <1>8, <1>9, FS_CardinalityType
<1>11. Cardinality(Q) + counted' + window' <= moved'
  BY <1>1, <1>7, <1>8, <1>9, <1>10 DEF SampleType
<1> QED BY <1>2, <1>6, <1>9, <1>11 DEF BytesOnce

\* An update counts what was left to count of its connection.
LEMMA UpdateStep ==
    ASSUME SampleType, BytesOnce, NEW c \in Flows, UpdatesFlow(c)
    PROVE  BytesOnce' /\ SampleType'
<1> DEFINE grown == flows[c].sized /\ real[c] > flows[c].bytes
<1>1. /\ flows' = [flows EXCEPT ![c] = [seen |-> TRUE, sized |-> TRUE, bytes |-> real[c]]]
      /\ window' = window + IF grown THEN real[c] - flows[c].bytes ELSE 0
      /\ UNCHANGED <<counted, real, moved, captured, samples, viewer>>
  BY DEF UpdatesFlow, sampleVars
<1>2. /\ flows[c] \in FlowRecords /\ flows[c].bytes \in Nat /\ real[c] \in Nat
      /\ {window, counted, moved} \subseteq Nat
  BY DEF SampleType, FlowRecords
<1>3. window' \in Nat /\ flows' \in [Flows -> FlowRecords]
  BY <1>1, <1>2 DEF SampleType, FlowRecords
<1>4. SampleType'
  BY <1>1, <1>3 DEF SampleType
<1>5. ASSUME NEW y \in Uncounted' PROVE y \in Uncounted /\ y[1] # c
  <2>1. /\ y[1] \in Flows /\ y[2] \in Nat /\ y = <<y[1], y[2]>> /\ flows'[y[1]].sized
        /\ flows'[y[1]].bytes < y[2] /\ y[2] <= real[y[1]]
    BY <1>1, <1>5 DEF Uncounted
  <2>2. y[1] # c
    <3>1. SUFFICES ASSUME y[1] = c PROVE FALSE
      OBVIOUS
    <3>2. flows'[c].bytes = real[c]
      BY <1>1 DEF SampleType
    <3> QED BY <1>2, <2>1, <3>1, <3>2
  <2>3. flows'[y[1]] = flows[y[1]]
    BY <1>1, <2>1, <2>2 DEF SampleType
  <2> QED BY <2>1, <2>2, <2>3, UncountedFacts
<1>6. CASE ~grown
  BY <1>1, <1>2, <1>3, <1>4, <1>5, <1>6, FewerUncounted
<1>7. CASE grown
  <2>1. PICK P : P = Uncounted
    OBVIOUS
  <2>2. PICK lo \in Nat, hi \in Nat : lo = flows[c].bytes + 1 /\ hi = real[c]
    BY <1>2
  <2> DEFINE own == {c} \X (lo .. hi)
             f == [i \in lo .. hi |-> <<c, i>>]
  <2>3. own \subseteq P
    <3>1. ASSUME NEW i \in lo .. hi PROVE <<c, i>> \in P
      BY <1>2, <1>7, <2>1, <2>2, UncountedFacts
    <3> QED BY <3>1
  <2>4. IsFiniteSet(lo .. hi) /\ Cardinality(lo .. hi) = real[c] - flows[c].bytes
    <3>1. lo \in Int /\ hi \in Int
      BY <2>2
    <3>2. IsFiniteSet(lo .. hi) /\ Cardinality(lo .. hi) = IF lo > hi THEN 0 ELSE hi - lo + 1
      BY <3>1, FS_Interval
    <3>3. lo <= hi /\ hi - lo + 1 = real[c] - flows[c].bytes
      BY <1>2, <1>7, <2>2
    <3> QED BY <2>2, <3>2, <3>3
  <2>5. f \in Bijection(lo .. hi, own)
    <3>1. f \in [lo .. hi -> own] /\ \A a, b \in lo .. hi : f[a] = f[b] => a = b
      OBVIOUS
    <3>2. \A x \in own : \E i \in lo .. hi : f[i] = x
      OBVIOUS
    <3> HIDE DEF f, own
    <3> QED BY <3>1, <3>2, Fun_IsBij
  <2> HIDE DEF f, own
  <2>6. ExistsBijection(lo .. hi, own)
    BY <2>5 DEF ExistsBijection
  <2>7. IsFiniteSet(own) /\ Cardinality(own) = real[c] - flows[c].bytes
    BY <2>4, <2>6, FS_Bijection
  <2>8. IsFiniteSet(P) /\ Cardinality(P) + counted + window <= moved /\ Cardinality(P) \in Nat
    BY <2>1, FS_CardinalityType DEF BytesOnce
  <2>9. P \cap own = own
    BY <2>3
  <2>10. IsFiniteSet(P \ own) /\ Cardinality(P \ own) = Cardinality(P) - (real[c] - flows[c].bytes)
    <3>1. IsFiniteSet(P \ own) /\ Cardinality(P \ own) = Cardinality(P) - Cardinality(P \cap own)
      BY <2>8, FS_Difference
    <3> QED BY <2>7, <2>9, <3>1
  <2>11. PICK Q \in SUBSET (P \ own) : Q = Uncounted'
    BY <1>5, <2>1 DEF own
  <2>12. IsFiniteSet(Q) /\ Cardinality(Q) <= Cardinality(P \ own)
    BY <2>10, FS_Subset
  <2>13. Cardinality(Q) \in Nat /\ Cardinality(P \ own) \in Nat
    BY <2>10, <2>12, FS_CardinalityType
  <2>14. Cardinality(Q) + counted' + window' <= moved'
    BY <1>1, <1>2, <1>7, <2>8, <2>10, <2>12, <2>13
  <2> QED BY <1>4, <2>11, <2>12, <2>14 DEF BytesOnce
<1> QED BY <1>6, <1>7
LEMMA PerformanceStep == ASSUME PerformanceInv, [PerformanceNext(Viewers)]_performanceVars PROVE PerformanceInv'
<1>0. SampleType /\ DeviceAccounted /\ (\A v \in Viewers : Newer(v)) /\ BytesOnce
  BY DEF PerformanceInv
<1>a. /\ captured \in Nat /\ samples \in Nat /\ captured <= samples /\ viewer \in [Viewers -> ViewerRecords]
      /\ \A v \in Viewers : viewer[v] \in ViewerRecords
  BY <1>0 DEF SampleType
\* Steps that leave what the bytes are counted with alone.
<1>1. ASSUME UNCHANGED networkVars, captured' \in Nat, samples' \in Nat, captured' <= samples',
             viewer' \in [Viewers -> ViewerRecords]
      PROVE  SampleType' /\ BytesOnce'
  <2>1. UNCHANGED <<flows, window, counted, real, moved>>
    BY <1>1 DEF networkVars
  <2>2. Uncounted' = Uncounted
    BY <2>1 DEF Uncounted
  <2> QED BY <1>0, <1>1, <2>1, <2>2 DEF SampleType, BytesOnce
\* Steps that take no sample and answer nobody.
<1>2. ASSUME UNCHANGED <<captured, samples, viewer, networkVars>>
      PROVE  SampleType' /\ BytesOnce' /\ \A v \in Viewers : Newer(v)'
  BY <1>0, <1>a, <1>1, <1>2 DEF Newer
\* A sample is newer than every call.
<1>3. ASSUME samples' = samples + 1, captured' \in {captured, samples'}, UNCHANGED viewer
      PROVE  /\ captured' \in Nat /\ samples' \in Nat /\ captured' <= samples' /\ viewer' \in [Viewers -> ViewerRecords]
             /\ \A v \in Viewers : Newer(v)'
  BY <1>0, <1>a, <1>3 DEF Newer, ViewerRecords
<1>4. ASSUME NEW enabled \in BOOLEAN, SetDemand(enabled) PROVE PerformanceInv'
  <2>1. captured' \in {captured, 0} /\ UNCHANGED <<samples, viewer, networkVars, phase, sampled, onDevice, lost>>
    BY <1>4 DEF SetDemand, sourceVars
  <2>2. SampleType' /\ BytesOnce'
    BY <1>a, <1>1, <2>1
  <2>3. \A v \in Viewers : Newer(v)'
    BY <1>0, <2>1 DEF Newer
  <2> QED BY <1>0, <2>1, <2>2, <2>3 DEF PerformanceInv, DeviceAccounted
<1>5. ASSUME NEW v \in Viewers, AcquireSource(v) PROVE PerformanceInv'
  <2> DEFINE rec == [at |-> "waiting", baseline |-> captured, since |-> samples, fresh |-> FALSE]
  <2>1. /\ viewer' = [viewer EXCEPT ![v] = rec]
        /\ UNCHANGED <<captured, samples, networkVars, phase, sampled, onDevice, lost>>
    BY <1>5 DEF AcquireSource, sourceVars
  <2>2. rec \in ViewerRecords
    BY <1>a DEF ViewerRecords
  <2>3. viewer' \in [Viewers -> ViewerRecords] /\ \A u \in Viewers : viewer'[u] = IF u = v THEN rec ELSE viewer[u]
    BY <1>a, <2>1, <2>2
  <2>4. SampleType' /\ BytesOnce'
    BY <1>a, <1>1, <2>1, <2>3
  <2>5. \A u \in Viewers : Newer(u)'
    BY <1>0, <1>a, <2>1, <2>3 DEF Newer
  <2> QED BY <1>0, <2>1, <2>4, <2>5 DEF PerformanceInv, DeviceAccounted
<1>6. ASSUME NEW v \in Viewers, SnapshotAnswered(v) PROVE PerformanceInv'
  <2> DEFINE fresh == captured # 0 /\ captured > viewer[v].baseline
             rec == [viewer[v] EXCEPT !.at = "answered", !.fresh = fresh]
  <2>1. /\ viewer[v].at = "waiting" /\ viewer' = [viewer EXCEPT ![v] = rec]
        /\ UNCHANGED <<captured, samples, networkVars, phase, sampled, onDevice, lost>>
    BY <1>6 DEF SnapshotAnswered, sourceVars
  <2>2. /\ rec \in ViewerRecords /\ rec.at = "answered" /\ rec.since = viewer[v].since /\ rec.fresh = fresh
        /\ viewer[v].baseline \in Nat /\ viewer[v].since \in Nat
    BY <1>a DEF ViewerRecords
  <2>3. fresh => samples > viewer[v].since
    BY <1>0, <1>a, <2>1, <2>2 DEF Newer
  <2> HIDE DEF rec, fresh
  <2>4. viewer' \in [Viewers -> ViewerRecords] /\ \A u \in Viewers : viewer'[u] = IF u = v THEN rec ELSE viewer[u]
    BY <1>a, <2>1, <2>2
  <2>5. SampleType' /\ BytesOnce'
    BY <1>a, <1>1, <2>1, <2>4
  <2>6. \A u \in Viewers : Newer(u)'
    BY <1>0, <2>1, <2>2, <2>3, <2>4 DEF Newer
  <2> QED BY <1>0, <2>1, <2>5, <2>6 DEF PerformanceInv, DeviceAccounted
\* The supervised loop.
<1>7. ASSUME Connects \/ FallsBack \/ Breaks \/ Resumes \/ EndsSource PROVE PerformanceInv'
  <2>1. UNCHANGED <<captured, samples, viewer, networkVars>>
    BY <1>7 DEF Connects, FallsBack, Breaks, Resumes, EndsSource, sampleVars
  <2>2. DeviceAccounted'
    BY <1>0, <1>7 DEF Connects, FallsBack, Breaks, Resumes, EndsSource, StopsSampling, DeviceAccounted
  <2> QED BY <1>2, <2>1, <2>2 DEF PerformanceInv
<1>8. ASSUME Opens PROVE PerformanceInv'
  <2>1. /\ phase = "connecting" /\ phase' = "streaming" /\ sampled' = Stream /\ onDevice' = onDevice \cup Stream
        /\ flows' = [c \in Flows |-> Unseen] /\ window' = 0
        /\ UNCHANGED <<lost, captured, samples, viewer, counted, real, moved>>
    BY <1>8 DEF Opens, sampleVars
  <2>2. flows' \in [Flows -> FlowRecords]
    BY <2>1 DEF Unseen, FlowRecords
  <2>3. SampleType'
    BY <1>0, <2>1, <2>2 DEF SampleType
  <2>4. Uncounted' \subseteq Uncounted
    BY <2>1 DEF Uncounted, Unseen
  <2>5. counted' + window' <= counted + window
    BY <1>0, <2>1 DEF SampleType
  <2>6. BytesOnce'
    BY <1>0, <2>1, <2>3, <2>4, <2>5, FewerUncounted
  <2>7. DeviceAccounted'
    BY <1>0, <2>1 DEF DeviceAccounted
  <2>8. \A v \in Viewers : Newer(v)'
    BY <1>0, <2>1 DEF Newer
  <2> QED BY <2>3, <2>6, <2>7, <2>8 DEF PerformanceInv
<1>9. ASSUME Notices PROVE PerformanceInv'
  <2>1. /\ UNCHANGED <<viewer, networkVars>>
        /\ UNCHANGED <<captured, samples>> \/ (samples' = samples + 1 /\ captured' = samples')
    BY <1>9 DEF Notices
  <2>2. SampleType' /\ BytesOnce' /\ \A v \in Viewers : Newer(v)'
    BY <1>1, <1>2, <1>3, <2>1
  <2>3. DeviceAccounted'
    BY <1>0, <1>9 DEF Notices, StopsSampling, DeviceAccounted
  <2> QED BY <2>2, <2>3 DEF PerformanceInv
\* Samples.
<1>10. ASSUME NEW processes \in SUBSET Pids, ObserveSystem(processes) \/ ObserveGraphics \/ ObserveActivity \/ LogArrives
       PROVE  PerformanceInv'
  <2>1. /\ samples' = samples + 1 /\ captured' \in {captured, samples'}
        /\ UNCHANGED <<viewer, networkVars, phase, sampled, onDevice, lost>>
    BY <1>10 DEF ObserveSystem, ObserveGraphics, ObserveActivity, LogArrives, NoSample, Observed, sourceVars
  <2>2. SampleType' /\ BytesOnce' /\ \A v \in Viewers : Newer(v)'
    BY <1>1, <1>3, <2>1
  <2> QED BY <1>0, <2>1, <2>2 DEF PerformanceInv, DeviceAccounted
<1>11. ASSUME EnergyTick PROVE PerformanceInv'
  <2>1. PICK targets \in EnergyTargets :
          LET removed == sampled \ targets
              added == targets \ sampled
          IN \E kept \in {removed, {}}, outcome \in {"ok", "failed", "unanswered", "sampleFails"} :
                LET started == IF outcome = "failed" THEN {} ELSE added
                    fails == (outcome \in {"failed", "unanswered"} /\ added # {}) \/ (outcome = "sampleFails" /\ targets # {})
                IN /\ onDevice' = (onDevice \ (removed \ kept)) \cup started
                   /\ IF fails
                      THEN phase' = "backoff" /\ sampled' = {}
                           /\ lost' = (lost \ (removed \ kept)) \cup kept \cup (sampled \cap targets) \cup started
                      ELSE sampled' = targets /\ lost' = (lost \ (targets \cup (removed \ kept))) \cup kept
                           /\ UNCHANGED phase
                   /\ IF fails \/ (targets = {} /\ sampled = {}) THEN UNCHANGED <<captured, samples>> ELSE Observed
    BY <1>11 DEF EnergyTick
  <2>2. phase = "streaming" /\ UNCHANGED <<viewer, networkVars>>
    BY <1>11 DEF EnergyTick
  <2>3. UNCHANGED <<captured, samples>> \/ (samples' = samples + 1 /\ captured' = samples')
    BY <2>1 DEF Observed
  <2>4. SampleType' /\ BytesOnce' /\ \A v \in Viewers : Newer(v)'
    BY <1>1, <1>2, <1>3, <2>2, <2>3
  <2>5. DeviceAccounted'
    BY <1>0, <2>1, <2>2, SMTT(30) DEF DeviceAccounted
  <2> QED BY <2>4, <2>5 DEF PerformanceInv
\* Bytes.
<1>12. ASSUME SamplesNetwork PROVE PerformanceInv'
  <2>1. /\ samples' = samples + 1 /\ captured' = samples'
        /\ UNCHANGED <<viewer, real, moved, phase, sampled, onDevice, lost>>
        /\ counted' = counted + window /\ window' = 0
    BY <1>12 DEF SamplesNetwork, Observed, sourceVars
  <2>2. PICK expired \in SUBSET Tracked : flows' = [c \in Flows |-> IF c \in expired THEN Unseen ELSE flows[c]]
    BY <1>12 DEF SamplesNetwork
  <2>3. flows' \in [Flows -> FlowRecords]
    BY <1>0, <2>2 DEF Unseen, FlowRecords, SampleType
  <2>4. /\ captured' \in Nat /\ samples' \in Nat /\ captured' <= samples' /\ viewer' \in [Viewers -> ViewerRecords]
        /\ \A v \in Viewers : Newer(v)'
    BY <1>3, <2>1
  <2>5. SampleType' /\ counted' + window' <= counted + window
    BY <1>0, <2>1, <2>3, <2>4 DEF SampleType
  <2>6. Uncounted' \subseteq Uncounted
    BY <2>1, <2>2 DEF Uncounted, Unseen
  <2>7. BytesOnce'
    BY <1>0, <2>1, <2>5, <2>6, FewerUncounted
  <2> QED BY <1>0, <2>1, <2>4, <2>5, <2>7 DEF PerformanceInv, DeviceAccounted
<1>13. ASSUME NEW c \in Flows, Moves(c) \/ UpdatesFlow(c) PROVE PerformanceInv'
  <2>1. UNCHANGED <<captured, samples, viewer, phase, sampled, onDevice, lost>>
    BY <1>13 DEF Moves, UpdatesFlow, sourceVars, sampleVars
  <2>2. SampleType' /\ BytesOnce'
    BY <1>0, <1>13, MoveStep, UpdateStep
  <2>3. \A v \in Viewers : Newer(v)'
    BY <1>0, <2>1 DEF Newer
  <2> QED BY <1>0, <2>1, <2>2, <2>3 DEF PerformanceInv, DeviceAccounted
<1>14. ASSUME NEW c \in Flows, ReusesNumber(c) \/ DetectsFlow(c) PROVE PerformanceInv'
  <2>1. /\ UNCHANGED <<captured, samples, viewer, phase, sampled, onDevice, lost, window, counted, moved>>
        /\ \/ real' = [real EXCEPT ![c] = 0] /\ flows' = flows
           \/ real' = real /\ flows' = [flows EXCEPT ![c].seen = TRUE]
    BY <1>14 DEF ReusesNumber, DetectsFlow, sourceVars, sampleVars
  <2>7. /\ flows \in [Flows -> FlowRecords] /\ flows[c] \in FlowRecords /\ real \in [Flows -> Nat]
    BY <1>0 DEF SampleType
  <2> DEFINE rec == [flows[c] EXCEPT !.seen = TRUE]
  <2>8. rec \in FlowRecords /\ rec.sized = flows[c].sized /\ rec.bytes = flows[c].bytes
    BY <2>7 DEF FlowRecords
  <2>9. flows' = flows \/ flows' = [flows EXCEPT ![c] = rec]
    BY <2>1
  <2> HIDE DEF rec
  <2>2. real' \in [Flows -> Nat] /\ flows' \in [Flows -> FlowRecords]
    BY <2>1, <2>7, <2>8, <2>9
  <2>3. SampleType'
    BY <1>0, <2>1, <2>2 DEF SampleType
  <2>4. ASSUME NEW y \in Uncounted' PROVE y \in Uncounted
    <3>1. /\ y \in Flows \X Nat /\ flows'[y[1]].sized /\ flows'[y[1]].bytes < y[2] /\ y[2] <= real'[y[1]]
          /\ y[1] \in Flows /\ y[2] \in Nat /\ flows[y[1]] \in FlowRecords
      BY <1>0, <2>4 DEF Uncounted, SampleType
    <3>2. flows'[y[1]].sized = flows[y[1]].sized /\ flows'[y[1]].bytes = flows[y[1]].bytes
      BY <2>7, <2>8, <2>9, <3>1
    <3>3. y[2] <= real[y[1]]
      BY <1>0, <2>1, <3>1 DEF SampleType
    <3> QED BY <3>1, <3>2, <3>3 DEF Uncounted
  <2>5. BytesOnce'
    <3>1. counted' + window' <= counted + window
      BY <1>0, <2>1 DEF SampleType
    <3> QED BY <1>0, <2>1, <2>3, <2>4, <3>1, FewerUncounted
  <2>6. \A v \in Viewers : Newer(v)'
    BY <1>0, <2>1 DEF Newer
  <2> QED BY <1>0, <2>1, <2>3, <2>5, <2>6 DEF PerformanceInv, DeviceAccounted
<1>15. CASE UNCHANGED performanceVars
  <2>1. UNCHANGED <<captured, samples, viewer, networkVars, phase, sampled, onDevice, lost>>
    BY <1>15 DEF performanceVars, sourceVars, sampleVars
  <2> QED BY <1>0, <1>2, <2>1 DEF PerformanceInv, DeviceAccounted
<1> QED BY <1>4, <1>5, <1>6, <1>7, <1>8, <1>9, <1>10, <1>11, <1>12, <1>13, <1>14, <1>15 DEF PerformanceNext

\* Everything the device samples is sampled for the source that streams, or
\* was lost to a failed call; a snapshot that performance_snapshot calls fresh
\* was taken during the call, through any number of resets of the demand; and
\* NetworkAccumulator counts no byte twice, through expired connections,
\* numbers used again and reconnections, for any number of connections.
THEOREM SamplesAccounted == PerformanceSpec => []SamplingAccounted
<1>1. PerformanceInit => PerformanceInv
  <2>1. SUFFICES ASSUME PerformanceInit PROVE PerformanceInv
    OBVIOUS
  <2>2. IdleViewer \in ViewerRecords /\ Unseen \in FlowRecords
    BY DEF IdleViewer, ViewerRecords, Unseen, FlowRecords
  <2>3. SampleType
    BY <2>1, <2>2 DEF PerformanceInit, SampleType
  <2>4. DeviceAccounted /\ \A v \in Viewers : Newer(v)
    BY <2>1 DEF PerformanceInit, DeviceAccounted, Newer, IdleViewer
  <2>5. Uncounted = {}
    BY <2>1 DEF PerformanceInit, Uncounted, Unseen
  <2>6. BytesOnce
    BY <2>1, <2>5, FS_EmptySet DEF PerformanceInit, BytesOnce
  <2> QED BY <2>3, <2>4, <2>6 DEF PerformanceInv
<1>2. PerformanceInv => SamplingAccounted
  <2>1. SUFFICES ASSUME PerformanceInv PROVE SamplingAccounted
    OBVIOUS
  <2>2. PICK P : P = Uncounted
    OBVIOUS
  <2>3. Cardinality(P) \in Nat /\ Cardinality(P) + counted + window <= moved
    BY <2>1, <2>2, FS_CardinalityType DEF PerformanceInv, BytesOnce
  <2>4. counted + window <= moved
    BY <2>1, <2>3 DEF PerformanceInv, SampleType
  <2> QED BY <2>1, <2>4 DEF PerformanceInv, DeviceAccounted, Newer, SamplingAccounted
<1>3. PerformanceInv /\ [PerformanceNext(Viewers)]_performanceVars => PerformanceInv'
  BY PerformanceStep
<1> QED BY <1>1, <1>2, <1>3, PTL DEF PerformanceSpec

-----------------------------------------------------------------------------
(***************************************************************************)
(* VideoFlow.  Whatever was published is remembered in the proof as h, the *)
(* unit of each sequence number: units next to each other in h can be      *)
(* decoded one after the other, unless a stream begins between them, and   *)
(* so can those in the queue.  The page takes a unit that is no key only   *)
(* with the number after the one it took last; so what the page feeds next *)
(* follows what it fed last, unless the decoder waits for a key.           *)
(***************************************************************************)
Joined(u, v) == u.key \/ Follows(u, v)

Packets == [frame : Frames, live : BOOLEAN]
Sendings == [step : {"idle", "chosen", "sending", "sent"}, frame : Frames \cup {NoFrame}, completes : BOOLEAN]

VideoType ==
    /\ stream \in 1..MaxStreams /\ sequence \in Nat /\ made \in [Sources -> Nat]
    /\ lockedSsrc \in Sources \cup {"none"}
    /\ hevc \in Seq(Units) /\ frames \in Seq(Frames) /\ wire \in Seq(Frames)
    /\ pendingPackets \in Seq(Packets)
    /\ sending \in Sendings /\ (sending.step # "idle" => sending.frame \in Frames)
    /\ tracker \in [stream : Nat, seq : Nat, waits : BOOLEAN]
    /\ decoderWaits \in BOOLEAN /\ resync \in BOOLEAN /\ wasDemanded \in BOOLEAN /\ awaitsIrap \in BOOLEAN

\* The history: its neighbours can be decoded one after the other.
Published(h) ==
    /\ h \in [1..sequence -> Units]
    /\ \A q \in 1..sequence : h[q].stream <= stream
    /\ \A q \in 1..(sequence - 1) : Joined(h[q + 1], h[q]) \/ h[q + 1].stream # h[q].stream

\* A frame carries the unit that the history has under its number.
In(n, h, f) == f.seq \in 1..n /\ f.unit = h[f.seq]
OnTheWay(h) ==
    /\ \A i \in 1..Len(frames) : In(sequence, h, frames[i])
    /\ \A i \in 1..Len(wire) : In(sequence, h, wire[i])
    /\ \A i \in 1..Len(pendingPackets) : In(sequence, h, pendingPackets[i].frame)
    /\ sending.step # "idle" => In(sequence, h, sending.frame)

\* The unit of this stream after which the next one is queued or published.
Newest(h, u) ==
    IF hevc # <<>> THEN u = hevc[Len(hevc)] ELSE sequence > 0 /\ u = h[sequence] /\ u.stream = stream

Queued(h) ==
    /\ \A i \in 1..Len(hevc) : hevc[i].stream = stream
    /\ \A i \in 1..(Len(hevc) - 1) : Joined(hevc[i + 1], hevc[i])
    /\ hevc # <<>> /\ sequence > 0 => Joined(hevc[1], h[sequence]) \/ h[sequence].stream # stream
    /\ ~dims /\ sequence > 0 => h[sequence].stream # stream
    /\ ~awaitsIrap /\ wasDemanded => \A u \in Units : Newest(h, u) => u.src = lockedSsrc /\ u.n = made[u.src]

\* The unit that the page has taken last, as long as nothing was dropped since.
Latest(u) ==
    IF pendingPackets # <<>> /\ pendingPackets[Len(pendingPackets)].live
    THEN u = pendingPackets[Len(pendingPackets)].frame.unit
    ELSE ~decoderWaits /\ u = fed

\* What waits for the decoder is in order, behind what it was fed last.
Fed ==
    /\ \A i, j \in 1..Len(pendingPackets) : i < j /\ pendingPackets[i].live => pendingPackets[j].live
    /\ \A i \in 1..(Len(pendingPackets) - 1) :
          pendingPackets[i].live => Joined(pendingPackets[i + 1].frame.unit, pendingPackets[i].frame.unit)
    /\ \A i \in 1..Len(pendingPackets) :
          pendingPackets[i].live /\ (i = 1 \/ ~pendingPackets[i - 1].live) =>
              decoderWaits \/ Joined(pendingPackets[i].frame.unit, fed)

\* The tracker counts on from the unit that the page has taken last.
TrackerAgrees(h) ==
    /\ tracker.stream # 0 /\ ~tracker.waits => tracker.seq \in 1..sequence /\ h[tracker.seq].stream = tracker.stream
    /\ \A u : Latest(u) => tracker.stream # 0 /\ ~tracker.waits /\ u = h[tracker.seq]

VideoHolds(h) == Published(h) /\ OnTheWay(h) /\ Queued(h) /\ Fed /\ TrackerAgrees(h)
VideoInv == VideoType /\ \E h : VideoHolds(h)

LEMMA TailIndices ==
    ASSUME NEW S, NEW q \in Seq(S), q # <<>>
    PROVE  /\ Tail(q) \in Seq(S) /\ Len(Tail(q)) = Len(q) - 1 /\ Len(q) \in Nat /\ Len(q) >= 1
           /\ Head(q) = q[1] /\ q[1] \in S
           /\ \A i \in 1..Len(Tail(q)) : Tail(q)[i] = q[i + 1]
OBVIOUS

LEMMA AppendIndices ==
    ASSUME NEW S, NEW q \in Seq(S), NEW x \in S
    PROVE  /\ Append(q, x) \in Seq(S) /\ Len(Append(q, x)) = Len(q) + 1 /\ Append(q, x) # <<>>
           /\ \A i \in 1..Len(q) : Append(q, x)[i] = q[i]
           /\ Append(q, x)[Len(q) + 1] = x /\ Len(q) \in Nat
OBVIOUS

\* Steps that leave parts of the system alone.
LEMMA QueuedKept ==
    ASSUME NEW h, Published(h), Queued(h), UNCHANGED <<hevc, stream, sequence, dims, awaitsIrap, wasDemanded, lockedSsrc, made>>
    PROVE  Published(h)' /\ Queued(h)'
BY DEF Published, Queued, Newest

LEMMA PageKept ==
    ASSUME NEW h, Fed, TrackerAgrees(h), UNCHANGED <<sequence, tracker, pendingPackets, decoderWaits, fed>>
    PROVE  Fed' /\ TrackerAgrees(h)'
BY DEF Fed, TrackerAgrees, Latest

\* The socket: whatever it drops, what goes on was published.
LEMMA SocketStep ==
    ASSUME VideoInv, TakeLagged \/ TakeFrame \/ Acquire \/ Sent \/ CompleteResync \/ TakeFeedback \/ OtherDemand
                     \/ \E active \in BOOLEAN : PageDemands(active)
    PROVE  VideoInv'
<1>0. VideoType /\ UNCHANGED <<hevc, stream, sequence, dims, awaitsIrap, wasDemanded, lockedSsrc, made>>
      /\ UNCHANGED <<tracker, pendingPackets, decoderWaits, fed>>
  BY DEF VideoInv, TakeLagged, TakeFrame, Acquire, Sent, CompleteResync, TakeFeedback, OtherDemand, PageDemands,
         ingestVars, publishVars, pageVars
<1>1. PICK h : VideoHolds(h)
  BY DEF VideoInv
<1>2. Published(h)' /\ Queued(h)' /\ Fed' /\ TrackerAgrees(h)'
  BY <1>0, <1>1, QueuedKept, PageKept DEF VideoHolds
<1>3. SUFFICES VideoType' /\ OnTheWay(h)'
  BY <1>2 DEF VideoInv, VideoHolds
<1>a. OnTheWay(h)
  BY <1>1 DEF VideoHolds
<1>4. ASSUME UNCHANGED <<frames, wire, sending>>, resync' \in BOOLEAN PROVE VideoType' /\ OnTheWay(h)'
  BY <1>0, <1>a, <1>4 DEF VideoType, OnTheWay, In
<1>5. CASE TakeFeedback \/ OtherDemand \/ \E active \in BOOLEAN : PageDemands(active)
  <2>1. UNCHANGED <<frames, wire, sending>> /\ resync' \in BOOLEAN
    BY <1>0, <1>5 DEF TakeFeedback, OtherDemand, PageDemands, VideoDemand, socketVars, VideoType
  <2> QED BY <1>4, <2>1
<1>6. CASE TakeLagged
  <2>1. frames' = <<>> /\ UNCHANGED <<wire, sending>> /\ resync' = TRUE
    BY <1>6 DEF TakeLagged
  <2>2. frames' \in Seq(Frames) /\ Len(frames') = 0
    BY <2>1
  <2>3. VideoType'
    BY <1>0, <2>1, <2>2 DEF VideoType
  <2>4. OnTheWay(h)'
    BY <1>0, <1>a, <2>1, <2>2 DEF OnTheWay, In
  <2> QED BY <2>3, <2>4
<1>7. CASE TakeFrame
  <2>1. frames # <<>> /\ frames' = Tail(frames) /\ wire' = wire
    BY <1>7 DEF TakeFrame
  <2>2. /\ frames' \in Seq(Frames) /\ Len(frames') = Len(frames) - 1 /\ Len(frames) \in Nat /\ Len(frames) >= 1
        /\ Head(frames) = frames[1] /\ frames[1] \in Frames
        /\ \A i \in 1..Len(frames') : frames'[i] = frames[i + 1]
    BY <1>0, <2>1, TailIndices DEF VideoType
  <2>3. In(sequence, h, Head(frames)) /\ \A i \in 1..Len(frames') : In(sequence, h, frames'[i])
    BY <1>a, <2>2 DEF OnTheWay
  <2>4. /\ sending' \in {sending, Unsent, [step |-> "chosen", frame |-> Head(frames), completes |-> resync']}
        /\ resync' \in BOOLEAN
    BY <1>0, <1>7 DEF TakeFrame, VideoType
  <2>5. Unsent \in Sendings /\ Unsent.step = "idle"
    BY DEF Unsent, Sendings
  <2>6. sending' \in Sendings /\ (sending'.step # "idle" => sending'.frame \in Frames)
    BY <1>0, <2>2, <2>4, <2>5 DEF VideoType, Sendings
  <2>7. sending'.step # "idle" => In(sequence, h, sending'.frame)
    BY <1>a, <2>3, <2>4, <2>5 DEF OnTheWay
  <2>8. VideoType'
    BY <1>0, <2>1, <2>2, <2>4, <2>6 DEF VideoType
  <2> QED BY <1>0, <1>a, <2>1, <2>3, <2>7, <2>8 DEF OnTheWay, In
<1>8. CASE Acquire \/ CompleteResync
  <2>1. /\ sending.step # "idle" /\ UNCHANGED <<frames, wire>> /\ resync' \in BOOLEAN
        /\ sending' \in {Unsent, [sending EXCEPT !.step = "sending"]}
    BY <1>0, <1>8 DEF Acquire, CompleteResync, VideoType
  <2> DEFINE rec == [sending EXCEPT !.step = "sending"]
  <2>a. rec \in Sendings /\ rec.frame = sending.frame /\ rec.step # "idle"
    BY <1>0 DEF VideoType, Sendings
  <2>b. Unsent \in Sendings /\ Unsent.step = "idle"
    BY DEF Unsent, Sendings
  <2>c. sending' = Unsent \/ sending' = rec
    BY <2>1
  <2> HIDE DEF rec
  <2>2. /\ sending' \in Sendings /\ (sending'.step # "idle" => sending'.frame \in Frames)
        /\ (sending'.step # "idle" => sending'.frame = sending.frame)
    BY <1>0, <2>1, <2>a, <2>b, <2>c DEF VideoType
  <2>3. VideoType'
    BY <1>0, <2>1, <2>2 DEF VideoType
  <2> QED BY <1>0, <1>a, <2>1, <2>2, <2>3 DEF OnTheWay, In
<1>9. CASE Sent
  <2>1. /\ sending.step # "idle" /\ frames' = frames /\ resync' = resync
        /\ sending' \in {Unsent, [sending EXCEPT !.step = "sent"]} /\ wire' = Append(wire, sending.frame)
    BY <1>9 DEF Sent
  <2> DEFINE rec == [sending EXCEPT !.step = "sent"]
  <2>a. rec \in Sendings /\ rec.frame = sending.frame /\ rec.step # "idle"
    BY <1>0 DEF VideoType, Sendings
  <2>b. Unsent \in Sendings /\ Unsent.step = "idle"
    BY DEF Unsent, Sendings
  <2>c. sending' = Unsent \/ sending' = rec
    BY <2>1
  <2> HIDE DEF rec
  <2>2. /\ sending' \in Sendings /\ (sending'.step # "idle" => sending'.frame \in Frames)
        /\ (sending'.step # "idle" => sending'.frame = sending.frame)
    BY <1>0, <2>1, <2>a, <2>b, <2>c DEF VideoType
  <2>3. /\ wire' \in Seq(Frames) /\ Len(wire') = Len(wire) + 1 /\ Len(wire) \in Nat
        /\ \A i \in 1..Len(wire) : wire'[i] = wire[i]
        /\ wire'[Len(wire) + 1] = sending.frame
    BY <1>0, <2>1, AppendIndices DEF VideoType
  <2>4. \A i \in 1..Len(wire') : In(sequence, h, wire'[i])
    BY <1>a, <2>1, <2>3 DEF OnTheWay
  <2>5. VideoType'
    BY <1>0, <2>1, <2>2, <2>3 DEF VideoType
  <2> QED BY <1>0, <1>a, <2>1, <2>2, <2>4, <2>5 DEF OnTheWay, In
<1> QED BY <1>5, <1>6, <1>7, <1>8, <1>9

\* A reset decoder was fed no unit.
LEMMA UnitsAreUnits == \A u \in Units : u # NoUnit /\ u.stream \in Nat /\ u.stream # 0
<1> SUFFICES ASSUME NEW u \in Units PROVE u # NoUnit /\ u.stream \in Nat /\ u.stream # 0
  OBVIOUS
<1>0. MaxStreams \in Nat
  BY VideoBoundsAssumption
<1>1. u.stream \in 1..MaxStreams
  BY DEF Units
<1>2. u.stream \in Nat /\ u.stream # 0
  BY <1>0, <1>1
<1>3. NoUnit.stream = 0
  BY DEF NoUnit
<1> QED BY <1>2, <1>3

\* The queue after a unit of source s that is pushed, a unit that is not, and
\* a queue that is emptied.
LEMMA ReceiveStep ==
    ASSUME VideoInv, NEW s \in Sources, NEW key \in BOOLEAN, Receive(s, key)
    PROVE  VideoInv'
<1>1. PICK h : VideoHolds(h)
  BY DEF VideoInv
<1>2. VideoType /\ Published(h) /\ OnTheWay(h) /\ Queued(h) /\ Fed /\ TrackerAgrees(h)
  BY <1>1 DEF VideoInv, VideoHolds
<1>3. /\ UNCHANGED <<stream, sequence, dims, frames, wire, sending, resync>>
      /\ UNCHANGED <<tracker, pendingPackets, decoderWaits, fed>>
      /\ made' = [made EXCEPT ![s] = @ + 1] /\ wasDemanded' = Demanded /\ made[s] < MaxUnits
  BY DEF Receive, publishVars, socketVars, pageVars
<1>4. OnTheWay(h)' /\ Published(h)' /\ Fed' /\ TrackerAgrees(h)'
  BY <1>2, <1>3, PageKept DEF OnTheWay, In, Published
<1> DEFINE u == [stream |-> stream, src |-> s, n |-> made[s] + 1, key |-> key]
           foreign == lockedSsrc \notin {"none", s}
<1>5. PICK takeover \in BOOLEAN :
        LET forced == Demanded # wasDemanded \/ (foreign /\ takeover)
            q == IF forced THEN <<>> ELSE hevc
            waits == forced \/ awaitsIrap
            pushed == IF Demanded /\ ~(foreign /\ ~takeover) THEN Push(q, waits, u) ELSE <<q, waits>>
        IN /\ takeover => foreign
           /\ lockedSsrc' = IF foreign /\ ~takeover THEN lockedSsrc ELSE s
           /\ hevc' = pushed[1] /\ awaitsIrap' = pushed[2]
  BY DEF Receive
<1> DEFINE forced == Demanded # wasDemanded \/ (foreign /\ takeover)
           q == IF forced THEN <<>> ELSE hevc
           waits == forced \/ awaitsIrap
           taken == Demanded /\ ~(foreign /\ ~takeover)
<1>6. /\ takeover => foreign
      /\ lockedSsrc' = IF foreign /\ ~takeover THEN lockedSsrc ELSE s
  BY <1>5
<1>7. IF taken THEN hevc' = Push(q, waits, u)[1] /\ awaitsIrap' = Push(q, waits, u)[2]
      ELSE hevc' = q /\ awaitsIrap' = waits
  BY <1>5
<1>8. \/ hevc' = q /\ awaitsIrap' = waits /\ (taken => waits /\ ~key)
      \/ taken /\ key /\ hevc' = <<u>> /\ awaitsIrap' = FALSE
      \/ taken /\ hevc' = <<>> /\ awaitsIrap' = TRUE
      \/ taken /\ (waits => key) /\ hevc' = Append(q, u) /\ awaitsIrap' = FALSE
  <2>1. u.key = key
    OBVIOUS
  <2> HIDE DEF u, q, waits, taken
  <2> QED BY <1>7, <2>1 DEF Push
<1>9. u \in Units /\ u.src = s /\ u.n = made[s] + 1 /\ u.key = key /\ u.stream = stream
  <2>1. MaxUnits \in Nat /\ made[s] \in Nat /\ stream \in 1..MaxStreams
    BY <1>2, VideoBoundsAssumption DEF VideoType
  <2> QED BY <1>3, <2>1 DEF Units
<1>10. /\ made' \in [Sources -> Nat] /\ made'[s] = made[s] + 1
       /\ \A r \in Sources : r # s => made'[r] = made[r]
  BY <1>2, <1>3 DEF VideoType
<1>11. lockedSsrc' \in Sources \cup {"none"} /\ wasDemanded' \in BOOLEAN
  BY <1>2, <1>3, <1>6 DEF VideoType, Demanded
<1>12. lockedSsrc # "none" \/ ~(\E v \in Units : v.src = lockedSsrc)
  BY VideoBoundsAssumption DEF Units
<1>13. taken => lockedSsrc' = s
  BY <1>6
<1>14. awaitsIrap' \in BOOLEAN /\ wasDemanded \in BOOLEAN /\ Demanded \in BOOLEAN
  BY <1>2, <1>8 DEF VideoType, Demanded
<1> HIDE DEF u
<1>20. ASSUME taken, ~waits, NEW v \in Units, Newest(h, v) PROVE Joined(u, v)
  <2>a. ~forced
    BY <1>20
  <2>b. ~awaitsIrap
    BY <1>20
  <2>c. ~(foreign /\ takeover)
    BY <2>a
  <2>d. Demanded = wasDemanded
    BY <2>a
  <2>e. Demanded
    BY <1>20
  <2>1. ~awaitsIrap /\ wasDemanded /\ ~(foreign /\ takeover) /\ ~forced
    BY <2>a, <2>b, <2>c, <2>d, <2>e
  <2>2. v.src = lockedSsrc /\ v.n = made[v.src]
    BY <1>2, <1>20, <2>1 DEF Queued
  <2>3. lockedSsrc = s
    BY <1>12, <1>20, <2>1, <2>2
  <2>4. v.stream = stream
    <3>1. CASE hevc = <<>>
      BY <1>20, <3>1 DEF Newest
    <3>2. CASE hevc # <<>>
      BY <1>2, <1>20, <3>2 DEF Newest, Queued, VideoType
    <3> QED BY <3>1, <3>2
  <2>5. v # NoUnit
    BY UnitsAreUnits
  <2> QED BY <1>9, <2>2, <2>3, <2>4, <2>5 DEF Joined, Follows
<1>21. ASSUME sequence > 0, h[sequence].stream = stream, hevc = <<>> PROVE h[sequence] \in Units /\ Newest(h, h[sequence])
  BY <1>2, <1>21 DEF Newest, Published, VideoType
<1>22. hevc # <<>> => hevc[Len(hevc)] \in Units /\ Newest(h, hevc[Len(hevc)])
  BY <1>2 DEF Newest, VideoType
<1>23. SUFFICES hevc' \in Seq(Units) /\ Queued(h)'
  BY <1>2, <1>3, <1>4, <1>10, <1>11, <1>14 DEF VideoType, VideoInv, VideoHolds
<1>24. CASE hevc' = <<>> /\ awaitsIrap' = TRUE
  BY <1>2, <1>3, <1>24 DEF Queued
<1>25. CASE taken /\ key /\ hevc' = <<u>> /\ awaitsIrap' = FALSE
  <2>1. hevc' \in Seq(Units) /\ Len(hevc') = 1 /\ hevc'[1] = u /\ hevc' # <<>>
    BY <1>9, <1>25
  <2>2. \A v \in Units : Newest(h, v)' => v = u
    BY <2>1 DEF Newest
  <2>3. lockedSsrc' = s
    BY <1>13, <1>25
  <2>4. /\ \A i \in 1..Len(hevc') : hevc'[i].stream = stream'
        /\ \A i \in 1..(Len(hevc') - 1) : Joined(hevc'[i + 1], hevc'[i])
        /\ Joined(hevc'[1], h[sequence'])
    <3>1. u.key
      BY <1>9, <1>25
    <3>2. Joined(u, h[sequence'])
      BY <3>1 DEF Joined
    <3> QED BY <1>3, <1>9, <2>1, <3>2
  <2>5. ~dims' /\ sequence' > 0 => h[sequence'].stream # stream'
    BY <1>2, <1>3 DEF Queued
  <2>6. \A v \in Units : Newest(h, v)' => v.src = lockedSsrc' /\ v.n = made'[v.src]
    BY <1>9, <1>10, <2>2, <2>3
  <2> QED BY <2>1, <2>4, <2>5, <2>6 DEF Queued
<1>26. CASE hevc' = q /\ awaitsIrap' = waits /\ (taken => waits /\ ~key) /\ ~forced
  <2>a. ~(foreign /\ takeover)
    BY <1>26
  <2>b. Demanded = wasDemanded
    BY <1>26
  <2>c. q = hevc
    BY <1>26
  <2>d. waits = awaitsIrap
    <3>1. awaitsIrap \in BOOLEAN
      BY <1>2 DEF VideoType
    <3>2. ~forced
      BY <1>26
    <3> QED BY <3>1, <3>2
  <2>1. hevc' = hevc /\ awaitsIrap' = awaitsIrap /\ wasDemanded' = wasDemanded
    BY <1>3, <1>26, <2>b, <2>c, <2>d
  <2>2. ~awaitsIrap /\ wasDemanded => foreign /\ lockedSsrc' = lockedSsrc
    <3> SUFFICES ASSUME ~awaitsIrap, wasDemanded PROVE foreign /\ ~takeover
      BY <1>6
    <3>1. ~taken
      BY <1>26, <2>d
    <3> QED BY <2>a, <2>b, <3>1
  <2>3. \A v : Newest(h, v)' <=> Newest(h, v)
    BY <1>3, <2>1 DEF Newest
  <2>4. ~awaitsIrap' /\ wasDemanded' => \A v \in Units : Newest(h, v)' => v.src = lockedSsrc' /\ v.n = made'[v.src]
    <3> SUFFICES ASSUME ~awaitsIrap, wasDemanded, NEW v \in Units, Newest(h, v)
                 PROVE  v.src = lockedSsrc' /\ v.n = made'[v.src]
      BY <2>1, <2>3
    <3>1. v.src = lockedSsrc /\ v.n = made[v.src] /\ v.src \in Sources
      BY <1>2 DEF Queued, Units
    <3> QED BY <1>10, <2>2, <3>1
  <2> QED BY <1>2, <1>3, <2>1, <2>4 DEF Queued, VideoType
<1>27. CASE taken /\ (waits => key) /\ hevc' = Append(q, u) /\ awaitsIrap' = FALSE
  <2>1. q \in Seq(Units)
    BY <1>2 DEF VideoType
  <2>2. q # <<>> => q = hevc
    OBVIOUS
  <2>3. Joined(u, hevc[Len(hevc)]) \/ q = <<>>
    BY <1>9, <1>20, <1>22, <1>27, <2>2 DEF Joined
  <2>4. q = <<>> /\ sequence > 0 => Joined(u, h[sequence]) \/ h[sequence].stream # stream
    <3>1. CASE key
      BY <1>9, <3>1 DEF Joined
    <3>2. CASE ~key
      <4>1. ~waits /\ q = hevc
        BY <1>27, <3>2
      <4> QED BY <1>20, <1>21, <1>27, <4>1
    <3> QED BY <3>1, <3>2
  <2>5. \A i \in 1..Len(q) : q[i].stream = stream
    <3>1. CASE q = hevc
      BY <1>2, <3>1 DEF Queued
    <3>2. CASE q = <<>>
      BY <3>2
    <3> QED BY <2>2, <3>1, <3>2
  <2>6. \A i \in 1..(Len(q) - 1) : Joined(q[i + 1], q[i])
    <3>1. CASE q = hevc
      BY <1>2, <3>1 DEF Queued
    <3>2. CASE q = <<>>
      BY <3>2
    <3> QED BY <2>2, <3>1, <3>2
  <2>7. q # <<>> /\ sequence > 0 => Joined(q[1], h[sequence]) \/ h[sequence].stream # stream
    BY <1>2, <2>2 DEF Queued
  <2> HIDE DEF q
  <2>8. /\ hevc' \in Seq(Units) /\ Len(hevc') = Len(q) + 1 /\ hevc' # <<>> /\ Len(q) \in Nat
        /\ \A i \in 1..Len(q) : hevc'[i] = q[i]
        /\ hevc'[Len(q) + 1] = u
    BY <1>9, <1>27, <2>1, AppendIndices
  <2>9. \A i \in 1..Len(hevc') : hevc'[i].stream = stream
    BY <1>9, <2>5, <2>8
  <2>10. \A i \in 1..(Len(hevc') - 1) : Joined(hevc'[i + 1], hevc'[i])
    <3> SUFFICES ASSUME NEW i \in 1..Len(q) PROVE Joined(hevc'[i + 1], hevc'[i])
      BY <2>8
    <3>1. CASE i = Len(q)
      <4>1. q # <<>>
        BY <2>1
      <4> QED BY <2>2, <2>3, <2>8, <3>1, <4>1
    <3>2. CASE i < Len(q)
      BY <2>6, <2>8, <3>2
    <3> QED BY <2>8, <3>1, <3>2
  <2>11. sequence > 0 => Joined(hevc'[1], h[sequence]) \/ h[sequence].stream # stream
    <3>1. CASE q = <<>>
      BY <2>4, <2>8, <3>1
    <3>2. CASE q # <<>>
      BY <2>1, <2>7, <2>8, <3>2
    <3> QED BY <3>1, <3>2
  <2>12. \A v \in Units : Newest(h, v)' => v = u
    BY <2>8 DEF Newest
  <2> QED BY <1>2, <1>3, <1>9, <1>10, <1>13, <1>27, <2>8, <2>9, <2>10, <2>11, <2>12 DEF Queued
<1>28. CASE hevc' = q /\ awaitsIrap' = waits /\ (taken => waits /\ ~key) /\ forced
  BY <1>24, <1>28
<1> HIDE DEF q, waits, taken
<1> QED BY <1>8, <1>24, <1>25, <1>26, <1>27, <1>28

\* A published unit is one more in the history, whatever the channel drops.
LEMMA PublishStep ==
    ASSUME VideoInv, PublishUnit
    PROVE  VideoInv'
<1>1. PICK h : VideoHolds(h)
  BY DEF VideoInv
<1>2. VideoType /\ Published(h) /\ OnTheWay(h) /\ Queued(h) /\ Fed /\ TrackerAgrees(h)
  BY <1>1 DEF VideoInv, VideoHolds
<1>3. /\ UNCHANGED <<made, lockedSsrc, wasDemanded, awaitsIrap, stream, wire, sending, resync>>
      /\ UNCHANGED <<tracker, pendingPackets, decoderWaits, fed>>
      /\ hevc # <<>> /\ hevc' = Tail(hevc)
  BY DEF PublishUnit, socketVars, pageVars
<1>4. /\ hevc' \in Seq(Units) /\ Len(hevc') = Len(hevc) - 1 /\ Len(hevc) \in Nat /\ Len(hevc) >= 1
      /\ Head(hevc) = hevc[1] /\ hevc[1] \in Units
      /\ \A i \in 1..Len(hevc') : hevc'[i] = hevc[i + 1]
  BY <1>2, <1>3, TailIndices DEF VideoType
<1>5. PICK readable \in BOOLEAN :
        /\ dims' = (dims \/ readable)
        /\ IF dims \/ readable
           THEN /\ sequence' = sequence + 1
                /\ LET f == [seq |-> sequence + 1, unit |-> Head(hevc)]
                   IN IF Len(frames) < ChannelCapacity
                      THEN frames' = Append(frames, f) /\ UNCHANGED framesLagged
                      ELSE frames' = Append(Tail(frames), f) /\ framesLagged' = TRUE
           ELSE UNCHANGED <<sequence, frames, framesLagged>>
  BY DEF PublishUnit
<1>6. hevc' # <<>> => Len(hevc') >= 1 /\ hevc'[Len(hevc')] = hevc[Len(hevc)]
  BY <1>4
<1>7. /\ \A i \in 1..Len(hevc') : hevc'[i].stream = stream
      /\ \A i \in 1..(Len(hevc') - 1) : Joined(hevc'[i + 1], hevc'[i])
  <2>1. \A i \in 1..Len(hevc') : hevc'[i].stream = stream
    BY <1>2, <1>4 DEF Queued
  <2>2. ASSUME NEW i \in 1..(Len(hevc') - 1) PROVE Joined(hevc'[i + 1], hevc'[i])
    <3>1. i + 1 \in 1..(Len(hevc) - 1) /\ i \in 1..Len(hevc') /\ i + 1 \in 1..Len(hevc')
      BY <1>4
    <3>2. Joined(hevc[(i + 1) + 1], hevc[i + 1])
      BY <1>2, <3>1 DEF Queued
    <3> QED BY <1>4, <3>1, <3>2
  <2> QED BY <2>1, <2>2
<1>8. hevc[1].stream = stream
  BY <1>2, <1>4 DEF Queued
<1>9. CASE ~(dims \/ readable)
  <2>1. UNCHANGED <<sequence, frames>> /\ ~dims /\ ~dims'
    BY <1>5, <1>9
  <2>2. sequence > 0 => h[sequence].stream # stream
    BY <1>2, <2>1 DEF Queued
  <2>3. VideoType'
    BY <1>2, <1>3, <1>4, <2>1 DEF VideoType
  <2>4. Published(h)' /\ OnTheWay(h)' /\ Fed' /\ TrackerAgrees(h)'
    BY <1>2, <1>3, <2>1, PageKept DEF Published, OnTheWay, In
  <2>5. \A v : Newest(h, v)' => Newest(h, v)
    BY <1>3, <1>6, <2>1, <2>2 DEF Newest
  <2>6. Queued(h)'
    BY <1>2, <1>3, <1>7, <2>1, <2>2, <2>5 DEF Queued
  <2> QED BY <2>3, <2>4, <2>6 DEF VideoInv, VideoHolds
<1>10. CASE dims \/ readable
  <2>e. PICK f : f = [seq |-> sequence + 1, unit |-> hevc[1]]
    OBVIOUS
  <2>g. PICK g : g = [q \in 1..(sequence + 1) |-> IF q <= sequence THEN h[q] ELSE hevc[1]]
    OBVIOUS
  <2>1. /\ sequence' = sequence + 1 /\ dims'
        /\ frames' = Append(frames, f) \/ (frames' = Append(Tail(frames), f) /\ Len(frames) >= 1)
    <3>1. ChannelCapacity \in Nat /\ ChannelCapacity >= 1 /\ Len(frames) \in Nat
      BY <1>2, VideoBoundsAssumption DEF VideoType
    <3>2. f = [seq |-> sequence + 1, unit |-> Head(hevc)]
      BY <1>4, <2>e
    <3>3. sequence' = sequence + 1 /\ dims'
      BY <1>5, <1>10
    <3>4. frames' = Append(frames, f) \/ (frames' = Append(Tail(frames), f) /\ ~(Len(frames) < ChannelCapacity))
      BY <1>5, <1>10, <3>2
    <3> QED BY <3>1, <3>3, <3>4
  <2>2. sequence \in Nat /\ stream \in Nat
    BY <1>2 DEF VideoType
  <2>3. /\ g \in [1..(sequence + 1) -> Units]
        /\ \A q \in 1..sequence : g[q] = h[q]
        /\ g[sequence + 1] = hevc[1]
    BY <1>2, <1>4, <2>2, <2>g DEF Published
  <2>4. f \in Frames /\ f.seq = sequence + 1 /\ f.unit = hevc[1]
    BY <1>4, <2>2, <2>e DEF Frames
  <2>5. In(sequence', g, f) /\ \A x : In(sequence, h, x) => In(sequence', g, x)
    <3>1. In(sequence', g, f)
      BY <2>1, <2>2, <2>3, <2>4 DEF In
    <3>2. ASSUME NEW x, In(sequence, h, x) PROVE In(sequence', g, x)
      BY <2>1, <2>2, <2>3, <3>2 DEF In
    <3> QED BY <3>1, <3>2
  <2>6. frames' \in Seq(Frames) /\ \A i \in 1..Len(frames') : In(sequence', g, frames'[i])
    <3>1. CASE frames' = Append(frames, f)
      <4>1. /\ frames' \in Seq(Frames) /\ Len(frames') = Len(frames) + 1 /\ Len(frames) \in Nat
            /\ \A i \in 1..Len(frames) : frames'[i] = frames[i]
            /\ frames'[Len(frames) + 1] = f
        BY <1>2, <2>4, <3>1, AppendIndices DEF VideoType
      <4>2. \A i \in 1..Len(frames) : In(sequence', g, frames[i])
        BY <1>2, <2>5 DEF OnTheWay
      <4> QED BY <2>5, <4>1, <4>2
    <3>2. CASE frames' = Append(Tail(frames), f) /\ Len(frames) >= 1
      <4>0. frames # <<>> /\ frames \in Seq(Frames)
        BY <1>2, <3>2 DEF VideoType
      <4>a. /\ Tail(frames) \in Seq(Frames) /\ Len(Tail(frames)) = Len(frames) - 1 /\ Len(frames) \in Nat
            /\ \A i \in 1..Len(Tail(frames)) : Tail(frames)[i] = frames[i + 1]
        BY <4>0, TailIndices
      <4>1. /\ frames' \in Seq(Frames) /\ Len(frames') = Len(Tail(frames)) + 1
            /\ \A i \in 1..Len(Tail(frames)) : frames'[i] = Tail(frames)[i]
            /\ frames'[Len(Tail(frames)) + 1] = f
        BY <2>4, <3>2, <4>a, AppendIndices
      <4>2. \A i \in 1..Len(frames) : In(sequence', g, frames[i])
        BY <1>2, <2>5 DEF OnTheWay
      <4>3. ASSUME NEW i \in 1..Len(frames') PROVE In(sequence', g, frames'[i])
        <5>1. CASE i = Len(Tail(frames)) + 1
          BY <2>5, <4>1, <5>1
        <5>2. CASE i # Len(Tail(frames)) + 1
          <6>1. i \in 1..Len(Tail(frames)) /\ i + 1 \in 1..Len(frames)
            <7>1. Len(frames') = Len(frames) /\ Len(Tail(frames)) = Len(frames) - 1 /\ Len(frames) \in Nat
              BY <4>a, <4>1
            <7> QED BY <5>2, <7>1
          <6> QED BY <4>a, <4>1, <4>2, <6>1
        <5> QED BY <5>1, <5>2
      <4> QED BY <4>1, <4>3
    <3> QED BY <2>1, <3>1, <3>2
  <2>7. VideoType'
    BY <1>2, <1>3, <1>4, <2>1, <2>2, <2>6 DEF VideoType
  <2>8. Published(g)'
    <3>1. \A q \in 1..(sequence + 1) : g[q].stream <= stream
      BY <1>2, <1>8, <2>2, <2>3 DEF Published
    <3>2. ASSUME NEW q \in 1..sequence PROVE Joined(g[q + 1], g[q]) \/ g[q + 1].stream # g[q].stream
      <4>1. CASE q = sequence
        <5>1. sequence > 0
          BY <4>1, <2>2
        <5>2. Joined(hevc[1], h[sequence]) \/ h[sequence].stream # stream
          BY <1>2, <1>3, <5>1 DEF Queued
        <5> QED BY <1>8, <2>2, <2>3, <4>1, <5>2
      <4>2. CASE q # sequence
        <5>1. q \in 1..(sequence - 1) /\ q + 1 \in 1..sequence
          BY <2>2, <4>2
        <5>2. Joined(h[q + 1], h[q]) \/ h[q + 1].stream # h[q].stream
          BY <1>2, <5>1 DEF Published
        <5> QED BY <2>3, <5>1, <5>2
      <4> QED BY <4>1, <4>2
    <3>3. stream' = stream /\ sequence' = sequence + 1 /\ sequence' - 1 = sequence
      BY <1>3, <2>1, <2>2
    <3>4. g \in [1..sequence' -> Units]
      BY <2>3, <3>3
    <3>5. \A q \in 1..sequence' : g[q].stream <= stream'
      BY <3>1, <3>3
    <3>6. \A q \in 1..(sequence' - 1) : Joined(g[q + 1], g[q]) \/ g[q + 1].stream # g[q].stream
      BY <3>2, <3>3
    <3> QED BY <3>4, <3>5, <3>6 DEF Published
  <2>9. OnTheWay(g)'
    BY <1>2, <1>3, <2>5, <2>6 DEF OnTheWay
  <2>10. Queued(g)'
    <3>1. hevc' # <<>> => Joined(hevc'[1], g[sequence'])
      <4> SUFFICES ASSUME hevc' # <<>> PROVE Joined(hevc'[1], g[sequence + 1])
        BY <2>1
      <4>1. 1 \in 1..(Len(hevc) - 1) /\ hevc'[1] = hevc[1 + 1]
        BY <1>4, <1>6
      <4>2. Joined(hevc[1 + 1], hevc[1])
        BY <1>2, <4>1 DEF Queued
      <4> QED BY <2>3, <4>1, <4>2
    <3>2. \A v : Newest(g, v)' => Newest(h, v)
      <4> SUFFICES ASSUME NEW v, Newest(g, v)' PROVE v = hevc[Len(hevc)]
        BY <1>3 DEF Newest
      <4>1. CASE hevc' # <<>>
        BY <1>6, <4>1 DEF Newest
      <4>2. CASE hevc' = <<>>
        <5>1. Len(hevc) = 1
          BY <1>4, <4>2
        <5> QED BY <2>1, <2>3, <4>2, <5>1 DEF Newest
      <4> QED BY <4>1, <4>2
    <3> QED BY <1>2, <1>3, <1>7, <2>1, <3>1, <3>2 DEF Queued
  <2>11. Fed'
    BY <1>2, <1>3 DEF Fed
  <2>12. TrackerAgrees(g)'
    <3>1. \A v : Latest(v)' <=> Latest(v)
      BY <1>3 DEF Latest
    <3>2. tracker.stream # 0 /\ ~tracker.waits => tracker.seq \in 1..sequence /\ h[tracker.seq].stream = tracker.stream
      BY <1>2 DEF TrackerAgrees
    <3> QED BY <1>2, <1>3, <2>1, <2>2, <2>3, <3>1, <3>2 DEF TrackerAgrees
  <2> QED BY <2>7, <2>8, <2>9, <2>10, <2>11, <2>12 DEF VideoInv, VideoHolds
<1> QED BY <1>9, <1>10

\* A stream begins: nothing of it is queued or published yet.
LEMMA BeginStreamStep ==
    ASSUME VideoInv, BeginStream
    PROVE  VideoInv'
<1>1. PICK h : VideoHolds(h)
  BY DEF VideoInv
<1>2. VideoType /\ Published(h) /\ OnTheWay(h) /\ Queued(h) /\ Fed /\ TrackerAgrees(h)
  BY <1>1 DEF VideoInv, VideoHolds
<1>3. /\ UNCHANGED <<made, sequence, frames, wire, sending, resync, tracker, pendingPackets, decoderWaits, fed>>
      /\ stream < MaxStreams /\ stream' = stream + 1
      /\ lockedSsrc' = "none" /\ wasDemanded' = FALSE /\ hevc' = <<>> /\ awaitsIrap' = FALSE
  BY DEF BeginStream, socketVars, pageVars
<1>4. MaxStreams \in Nat /\ stream' \in 1..MaxStreams /\ stream \in Nat /\ sequence \in Nat
  BY <1>2, <1>3, VideoBoundsAssumption DEF VideoType
<1>5. VideoType'
  <2>1. hevc' \in Seq(Units)
    BY <1>3
  <2> QED BY <1>2, <1>3, <1>4, <2>1 DEF VideoType
<1>6. \A q \in 1..sequence : h[q].stream <= stream /\ h[q].stream \in Nat
  BY <1>2, UnitsAreUnits DEF Published
<1>7. Published(h)'
  BY <1>2, <1>3, <1>4, <1>6 DEF Published
<1>8. OnTheWay(h)' /\ Fed' /\ TrackerAgrees(h)'
  BY <1>2, <1>3, PageKept DEF OnTheWay, In
<1>9. Queued(h)'
  <2>1. sequence > 0 => h[sequence].stream # stream + 1
    BY <1>4, <1>6
  <2> QED BY <1>3, <2>1 DEF Queued
<1> QED BY <1>5, <1>7, <1>8, <1>9 DEF VideoInv, VideoHolds

\* What the tracker says of a frame.
LEMMA Inspected ==
    ASSUME VideoType, NEW f \in Frames, NEW d, d = Inspect(f)
    PROVE  /\ d.accept \in BOOLEAN /\ d.reset \in BOOLEAN
           /\ d.next \in [stream : Nat, seq : Nat, waits : BOOLEAN] /\ d.next.stream = f.unit.stream
           /\ d.accept => d.next.seq = f.seq /\ ~d.next.waits
           /\ ~d.accept => d.next.waits
           /\ ~d.accept /\ ~d.reset => tracker.stream = 0 \/ tracker.waits
           /\ d.accept /\ ~d.reset /\ ~f.unit.key =>
                 tracker.stream = 0 \/ (tracker.stream = f.unit.stream /\ (tracker.seq = 0 \/ f.seq = tracker.seq + 1))
<1> DEFINE fresh == tracker.stream # f.unit.stream
           seq == IF fresh THEN 0 ELSE tracker.seq
           waits == (IF fresh THEN ~f.unit.key ELSE tracker.waits) /\ ~f.unit.key
           broken == ~waits /\ seq # 0 /\ f.seq # seq + 1 /\ ~f.unit.key
           kept == [stream |-> f.unit.stream, seq |-> seq, waits |-> TRUE]
           advanced == [stream |-> f.unit.stream, seq |-> f.seq, waits |-> FALSE]
<1>1. d = [accept |-> ~waits /\ ~broken, reset |-> (fresh /\ tracker.stream # 0) \/ broken,
           next |-> IF waits \/ broken THEN kept ELSE advanced]
  BY DEF Inspect
<1>2. f.unit \in Units /\ f.seq \in Nat /\ f.unit.stream \in Nat /\ f.unit.key \in BOOLEAN
  BY UnitsAreUnits DEF Frames, Units
<1>3. tracker.stream \in Nat /\ tracker.seq \in Nat /\ tracker.waits \in BOOLEAN
  BY DEF VideoType
<1>4. seq \in Nat /\ waits \in BOOLEAN /\ broken \in BOOLEAN /\ fresh \in BOOLEAN
  BY <1>2, <1>3
<1>5. /\ kept \in [stream : Nat, seq : Nat, waits : BOOLEAN] /\ kept.stream = f.unit.stream /\ kept.waits
      /\ advanced \in [stream : Nat, seq : Nat, waits : BOOLEAN] /\ advanced.stream = f.unit.stream
      /\ advanced.seq = f.seq /\ ~advanced.waits
  BY <1>2, <1>4
<1> HIDE DEF fresh, seq, waits, broken, kept, advanced
<1>6. d.accept = (~waits /\ ~broken) /\ d.reset = ((fresh /\ tracker.stream # 0) \/ broken)
  BY <1>1
<1>a. d.next = IF waits \/ broken THEN kept ELSE advanced
  BY <1>1
<1>7. d.accept \in BOOLEAN /\ d.reset \in BOOLEAN /\ d.next = IF d.accept THEN advanced ELSE kept
  BY <1>4, <1>6, <1>a
<1>8. ~d.accept /\ ~d.reset => tracker.stream = 0 \/ tracker.waits
  BY <1>3, <1>4, <1>6 DEF waits, broken, fresh
<1>9. d.accept /\ ~d.reset /\ ~f.unit.key =>
         tracker.stream = 0 \/ (tracker.stream = f.unit.stream /\ (tracker.seq = 0 \/ f.seq = tracker.seq + 1))
  BY <1>3, <1>4, <1>6 DEF waits, broken, fresh, seq
<1> QED BY <1>5, <1>7, <1>8, <1>9

\* The packets of an old decoder generation.
LEMMA StaledPackets ==
    ASSUME NEW q \in Seq(Packets), NEW r, r = [i \in DOMAIN q |-> [q[i] EXCEPT !.live = FALSE]]
    PROVE  /\ r \in Seq(Packets) /\ Len(r) = Len(q) /\ Len(q) \in Nat
           /\ \A i \in 1..Len(q) : r[i].frame = q[i].frame /\ ~r[i].live
<1>1. \A i \in 1..Len(q) : /\ [q[i] EXCEPT !.live = FALSE] \in Packets /\ [q[i] EXCEPT !.live = FALSE].frame = q[i].frame
                           /\ ~[q[i] EXCEPT !.live = FALSE].live
  <2>1. \A p \in Packets : /\ [p EXCEPT !.live = FALSE] \in Packets /\ [p EXCEPT !.live = FALSE].frame = p.frame
                           /\ ~[p EXCEPT !.live = FALSE].live
    BY DEF Packets
  <2>2. \A i \in 1..Len(q) : q[i] \in Packets
    OBVIOUS
  <2> QED BY <2>1, <2>2
<1>2. DOMAIN q = 1..Len(q) /\ Len(q) \in Nat
  OBVIOUS
<1>3. r \in [1..Len(q) -> Packets]
  BY <1>1, <1>2
<1>4. r \in Seq(Packets) /\ Len(r) = Len(q)
  BY <1>2, <1>3
<1>5. \A i \in 1..Len(q) : r[i] = [q[i] EXCEPT !.live = FALSE]
  BY <1>2
<1> QED BY <1>1, <1>2, <1>4, <1>5

\* A page that was just reset: nothing that it holds will be fed.
LEMMA ResetPage ==
    ASSUME VideoType, decoderWaits', \A i \in 1..Len(pendingPackets') : ~pendingPackets'[i].live,
           pendingPackets' \in Seq(Packets)
    PROVE  Fed' /\ \A u : ~Latest(u)'
<1>1. pendingPackets' # <<>> => Len(pendingPackets') \in 1..Len(pendingPackets')
  OBVIOUS
<1>2. \A u : ~Latest(u)'
  BY <1>1 DEF Latest
<1>3. Fed'
  <2>1. \A i, j \in 1..Len(pendingPackets') : i < j /\ pendingPackets'[i].live => pendingPackets'[j].live
    OBVIOUS
  <2>2. \A i \in 1..(Len(pendingPackets') - 1) :
           pendingPackets'[i].live => Joined(pendingPackets'[i + 1].frame.unit, pendingPackets'[i].frame.unit)
    <3>1. \A i \in 1..(Len(pendingPackets') - 1) : i \in 1..Len(pendingPackets')
      OBVIOUS
    <3> QED BY <3>1
  <2> QED BY <2>1, <2>2 DEF Fed
<1> QED BY <1>2, <1>3

\* A frame that the page takes without a reset follows the one it took last.
LEMMA TakenFollows ==
    ASSUME VideoType, NEW h, Published(h), TrackerAgrees(h), NEW f \in Frames, In(sequence, h, f),
           Inspect(f).accept, ~Inspect(f).reset, NEW u, Latest(u)
    PROVE  Joined(f.unit, u)
<1>1. CASE f.unit.key
  BY <1>1 DEF Joined
<1>2. CASE ~f.unit.key
  <2>1. tracker.stream # 0 /\ ~tracker.waits /\ u = h[tracker.seq]
    BY DEF TrackerAgrees
  <2>2. tracker.seq \in 1..sequence /\ h[tracker.seq].stream = tracker.stream /\ sequence \in Nat
    BY <2>1 DEF TrackerAgrees, VideoType
  <2>3. tracker.stream = f.unit.stream /\ f.seq = tracker.seq + 1
    <3>1. PICK d : d = Inspect(f)
      OBVIOUS
    <3>2. d.accept /\ ~d.reset
      BY <3>1
    <3>3. d.accept /\ ~d.reset /\ ~f.unit.key =>
             tracker.stream = 0 \/ (tracker.stream = f.unit.stream /\ (tracker.seq = 0 \/ f.seq = tracker.seq + 1))
      BY <3>1, Inspected
    <3> QED BY <1>2, <2>1, <2>2, <3>2, <3>3
  <2>4. f.seq \in 1..sequence /\ f.unit = h[f.seq]
    BY DEF In
  <2>5. tracker.seq \in 1..(sequence - 1)
    BY <2>2, <2>3, <2>4
  <2>6. Joined(h[tracker.seq + 1], h[tracker.seq]) \/ h[tracker.seq + 1].stream # h[tracker.seq].stream
    BY <2>5 DEF Published
  <2> QED BY <2>1, <2>2, <2>3, <2>4, <2>6
<1> QED BY <1>1, <1>2

\* The page takes a frame: refused, refused with a reset, taken with a reset
\* that empties the queue, taken after one, taken.
LEMMA PageReceivesStep ==
    ASSUME VideoInv, PageReceives
    PROVE  VideoInv'
<1>1. PICK h : VideoHolds(h)
  BY DEF VideoInv
<1>2. VideoType /\ Published(h) /\ OnTheWay(h) /\ Queued(h) /\ Fed /\ TrackerAgrees(h)
  BY <1>1 DEF VideoInv, VideoHolds
<1>3. /\ UNCHANGED <<made, lockedSsrc, wasDemanded, hevc, awaitsIrap, dims, stream, sequence, frames, sending, resync>>
      /\ wire # <<>> /\ wire' = Tail(wire)
  BY DEF PageReceives, ingestVars, publishVars, socketVars
<1>4. PICK f : f = Head(wire)
  OBVIOUS
<1>5. PICK d : d = Inspect(f)
  OBVIOUS
<1>6. PICK packets : packets = IF d.reset THEN Stale ELSE pendingPackets
  OBVIOUS
<1>7. PICK old : old = [i \in DOMAIN packets |-> [packets[i] EXCEPT !.live = FALSE]]
  OBVIOUS
<1>8. PICK new : new = [frame |-> f, live |-> TRUE]
  OBVIOUS
<1> DEFINE full == Len(packets) >= MaxPending
           resets == d.reset \/ (d.accept /\ full)
<1>9. /\ tracker' = d.next
      /\ pendingPackets' = IF ~d.accept THEN packets ELSE IF full THEN old ELSE Append(packets, new)
      /\ decoderWaits' = (decoderWaits \/ resets)
      /\ fed' = IF resets THEN NoUnit ELSE fed
  BY <1>4, <1>5, <1>6, <1>7, <1>8 DEF PageReceives
<1>10. /\ wire' \in Seq(Frames) /\ Len(wire') = Len(wire) - 1 /\ Len(wire) \in Nat /\ Len(wire) >= 1
       /\ f = wire[1] /\ f \in Frames
       /\ \A i \in 1..Len(wire') : wire'[i] = wire[i + 1]
  BY <1>2, <1>3, <1>4, TailIndices DEF VideoType
<1>11. In(sequence, h, f) /\ \A i \in 1..Len(wire') : In(sequence, h, wire'[i])
  BY <1>2, <1>10 DEF OnTheWay
<1>12. /\ d.accept \in BOOLEAN /\ d.reset \in BOOLEAN
       /\ d.next \in [stream : Nat, seq : Nat, waits : BOOLEAN] /\ d.next.stream = f.unit.stream
       /\ d.accept => d.next.seq = f.seq /\ ~d.next.waits
       /\ ~d.accept => d.next.waits
       /\ ~d.accept /\ ~d.reset => tracker.stream = 0 \/ tracker.waits
  BY <1>2, <1>5, <1>10, Inspected
<1>13. pendingPackets \in Seq(Packets) /\ Len(pendingPackets) \in Nat
  BY <1>2 DEF VideoType
<1>14. /\ packets \in Seq(Packets) /\ Len(packets) = Len(pendingPackets)
       /\ \A i \in 1..Len(packets) : packets[i].frame = pendingPackets[i].frame /\ (d.reset => ~packets[i].live)
       /\ ~d.reset => packets = pendingPackets
  <2>1. CASE d.reset
    <3>1. packets = [i \in DOMAIN pendingPackets |-> [pendingPackets[i] EXCEPT !.live = FALSE]]
      BY <1>6, <2>1 DEF Stale
    <3> QED BY <1>13, <2>1, <3>1, StaledPackets
  <2>2. CASE ~d.reset
    BY <1>6, <1>13, <2>2
  <2> QED BY <2>1, <2>2
<1>15. /\ old \in Seq(Packets) /\ Len(old) = Len(packets)
       /\ \A i \in 1..Len(old) : old[i].frame = packets[i].frame /\ ~old[i].live
  BY <1>7, <1>14, StaledPackets
<1>16. new \in Packets /\ new.frame = f /\ new.live
  BY <1>8, <1>10 DEF Packets
<1>17. /\ Append(packets, new) \in Seq(Packets) /\ Len(Append(packets, new)) = Len(packets) + 1
       /\ \A i \in 1..Len(packets) : Append(packets, new)[i] = packets[i]
       /\ Append(packets, new)[Len(packets) + 1] = new
  BY <1>14, <1>16, AppendIndices
<1>18. \A i \in 1..Len(pendingPackets) : In(sequence, h, pendingPackets[i].frame)
  BY <1>2 DEF OnTheWay
<1>19. /\ pendingPackets' \in Seq(Packets)
       /\ \A i \in 1..Len(pendingPackets') : In(sequence, h, pendingPackets'[i].frame)
  <2>1. CASE pendingPackets' = packets
    BY <1>14, <1>18, <2>1
  <2>2. CASE pendingPackets' = old
    BY <1>14, <1>15, <1>18, <2>2
  <2>3. CASE pendingPackets' = Append(packets, new)
    <3> SUFFICES ASSUME NEW i \in 1..(Len(packets) + 1)
                 PROVE  In(sequence, h, pendingPackets'[i].frame)
      BY <1>17, <2>3
    <3>1. CASE i \in 1..Len(packets)
      BY <1>14, <1>17, <1>18, <2>3, <3>1
    <3>2. CASE i = Len(packets) + 1
      BY <1>11, <1>16, <1>17, <2>3, <3>2
    <3> QED BY <1>13, <1>14, <3>1, <3>2
  <2> QED BY <1>9, <2>1, <2>2, <2>3
<1>20. tracker' \in [stream : Nat, seq : Nat, waits : BOOLEAN] /\ decoderWaits' \in BOOLEAN
  BY <1>2, <1>9, <1>12 DEF VideoType
<1>21. VideoType'
  BY <1>2, <1>3, <1>10, <1>19, <1>20 DEF VideoType
<1>22. Published(h)' /\ Queued(h)'
  BY <1>2, <1>3, QueuedKept
<1>23. OnTheWay(h)'
  BY <1>2, <1>3, <1>11, <1>19 DEF OnTheWay
<1>24. tracker'.stream # 0 /\ ~tracker'.waits => tracker'.seq \in 1..sequence' /\ h[tracker'.seq].stream = tracker'.stream
  <2>1. f.seq \in 1..sequence /\ f.unit = h[f.seq]
    BY <1>11 DEF In
  <2> QED BY <1>3, <1>9, <1>12, <2>1
<1>25. SUFFICES Fed' /\ \A u : Latest(u)' => tracker'.stream # 0 /\ ~tracker'.waits /\ u = h[tracker'.seq]
  BY <1>21, <1>22, <1>23, <1>24 DEF VideoInv, VideoHolds, TrackerAgrees
<1>26. d.accept => tracker'.stream # 0 /\ ~tracker'.waits /\ f.unit = h[tracker'.seq]
  <2>1. f.unit = h[f.seq] /\ f.unit \in Units
    BY <1>10, <1>11 DEF In, Frames
  <2> QED BY <1>9, <1>12, <2>1, UnitsAreUnits
<1>27. CASE ~d.accept /\ ~d.reset
  <2>1. UNCHANGED <<pendingPackets, decoderWaits, fed>>
    BY <1>2, <1>9, <1>14, <1>27 DEF VideoType
  <2>2. \A u : Latest(u)' <=> Latest(u)
    BY <2>1 DEF Latest
  <2>3. \A u : ~Latest(u)
    BY <1>2, <1>12, <1>27 DEF TrackerAgrees
  <2>4. Fed'
    BY <1>2, <2>1 DEF Fed
  <2> QED BY <2>2, <2>3, <2>4
<1>28. CASE ~d.accept /\ d.reset
  <2>1. decoderWaits' /\ pendingPackets' = packets
    BY <1>9, <1>28
  <2>2. \A i \in 1..Len(pendingPackets') : ~pendingPackets'[i].live
    BY <1>14, <1>28, <2>1
  <2> QED BY <1>2, <1>19, <2>1, <2>2, ResetPage
<1>29. CASE d.accept /\ full
  <2>1. decoderWaits' /\ pendingPackets' = old
    BY <1>9, <1>29
  <2>2. \A i \in 1..Len(pendingPackets') : ~pendingPackets'[i].live
    BY <1>15, <2>1
  <2> QED BY <1>2, <1>19, <2>1, <2>2, ResetPage
<1>30. CASE d.accept /\ ~full
  <2> DEFINE n == Len(pendingPackets)
  <2>1. /\ Len(pendingPackets') = n + 1 /\ n \in Nat
        /\ \A i \in 1..n : pendingPackets'[i] = packets[i]
        /\ pendingPackets'[n + 1].frame.unit = f.unit /\ pendingPackets'[n + 1].live
        /\ pendingPackets' # <<>>
    BY <1>9, <1>13, <1>14, <1>16, <1>17, <1>30
  <2>2. \A u : Latest(u)' => u = f.unit
    BY <2>1 DEF Latest
  <2>3. SUFFICES Fed'
    BY <1>26, <1>30, <2>2
  <2> HIDE DEF n
  <2>4. CASE d.reset
    <3>1. decoderWaits' /\ \A i \in 1..n : ~pendingPackets'[i].live
      BY <1>9, <1>14, <2>1, <2>4 DEF n
    <3>2. \A i, j \in 1..(n + 1) : i < j /\ pendingPackets'[i].live => pendingPackets'[j].live
      BY <2>1, <3>1
    <3> QED BY <2>1, <3>1, <3>2 DEF Fed
  <2>5. CASE ~d.reset
    <3>1. /\ \A i \in 1..n : pendingPackets'[i] = pendingPackets[i]
          /\ fed' = fed /\ (decoderWaits' <=> decoderWaits)
      BY <1>2, <1>9, <1>14, <1>30, <2>1, <2>5 DEF VideoType
    <3>2. \A u : Latest(u) => Joined(f.unit, u)
      BY <1>2, <1>5, <1>10, <1>11, <1>30, <2>5, TakenFollows
    <3>3. ASSUME NEW i \in 1..(n + 1), NEW j \in 1..(n + 1), i < j, pendingPackets'[i].live
          PROVE  pendingPackets'[j].live
      <4>1. CASE j = n + 1
        BY <2>1, <4>1
      <4>2. CASE j # n + 1
        <5>1. i \in 1..n /\ j \in 1..n
          BY <2>1, <3>3, <4>2
        <5> QED BY <1>2, <3>1, <3>3, <5>1 DEF Fed, n
      <4> QED BY <4>1, <4>2
    <3>4. ASSUME NEW i \in 1..n, pendingPackets'[i].live
          PROVE  Joined(pendingPackets'[i + 1].frame.unit, pendingPackets'[i].frame.unit)
      <4>1. CASE i = n
        <5>1. Latest(pendingPackets[n].frame.unit)
          BY <2>1, <3>1, <3>4, <4>1 DEF Latest, n
        <5> QED BY <2>1, <3>1, <3>2, <4>1, <5>1
      <4>2. CASE i # n
        <5>1. i \in 1..(n - 1) /\ i + 1 \in 1..n
          BY <2>1, <4>2
        <5>2. Joined(pendingPackets[i + 1].frame.unit, pendingPackets[i].frame.unit)
          BY <1>2, <3>1, <3>4, <5>1 DEF Fed, n
        <5> QED BY <3>1, <5>1, <5>2
      <4> QED BY <4>1, <4>2
    <3>5. ASSUME NEW i \in 1..(n + 1), pendingPackets'[i].live, i = 1 \/ ~pendingPackets'[i - 1].live
          PROVE  decoderWaits' \/ Joined(pendingPackets'[i].frame.unit, fed')
      <4>1. CASE i = n + 1
        <5>1. n = 0 \/ ~pendingPackets[n].live
          BY <2>1, <3>1, <3>5, <4>1
        <5>2. decoderWaits \/ Latest(fed)
          BY <5>1 DEF Latest, n
        <5> QED BY <2>1, <3>1, <3>2, <4>1, <5>2
      <4>2. CASE i # n + 1
        <5>1. i \in 1..n /\ (i = 1 \/ i - 1 \in 1..n)
          BY <2>1, <4>2
        <5>2. pendingPackets[i].live /\ (i = 1 \/ ~pendingPackets[i - 1].live)
          BY <3>1, <3>5, <5>1
        <5>3. decoderWaits \/ Joined(pendingPackets[i].frame.unit, fed)
          BY <1>2, <5>1, <5>2 DEF Fed, n
        <5> QED BY <3>1, <5>1, <5>3
      <4> QED BY <4>1, <4>2
    <3>6. Len(pendingPackets') = n + 1 /\ Len(pendingPackets') - 1 = n
      BY <2>1
    <3> QED BY <3>3, <3>4, <3>5, <3>6 DEF Fed
  <2> QED BY <1>12, <2>4, <2>5
<1> QED BY <1>12, <1>27, <1>28, <1>29, <1>30

\* The decoder is fed in the order of the queue; what it was fed last is what
\* the next live packet follows.
LEMMA DecodeStep ==
    ASSUME VideoInv, Decode
    PROVE  /\ VideoInv'
           /\ fed' # fed => fed'.key \/ Follows(fed', fed)
<1>1. PICK h : VideoHolds(h)
  BY DEF VideoInv
<1>2. VideoType /\ Published(h) /\ OnTheWay(h) /\ Queued(h) /\ Fed /\ TrackerAgrees(h)
  BY <1>1 DEF VideoInv, VideoHolds
<1>3. /\ UNCHANGED <<made, lockedSsrc, wasDemanded, hevc, awaitsIrap, dims, stream, sequence>>
      /\ UNCHANGED <<frames, sending, resync, wire, tracker>>
      /\ pendingPackets # <<>> /\ pendingPackets' = Tail(pendingPackets)
  BY DEF Decode, ingestVars, publishVars, socketVars
<1> DEFINE n == Len(pendingPackets')
<1>4. /\ pendingPackets' \in Seq(Packets) /\ n = Len(pendingPackets) - 1 /\ Len(pendingPackets) = n + 1 /\ n \in Nat
      /\ Head(pendingPackets) = pendingPackets[1] /\ pendingPackets[1] \in Packets
      /\ \A i \in 1..n : pendingPackets'[i] = pendingPackets[i + 1]
  <2>1. pendingPackets \in Seq(Packets)
    BY <1>2 DEF VideoType
  <2>2. /\ pendingPackets' \in Seq(Packets) /\ Len(pendingPackets') = Len(pendingPackets) - 1
        /\ Len(pendingPackets) \in Nat /\ Len(pendingPackets) >= 1
        /\ Head(pendingPackets) = pendingPackets[1] /\ pendingPackets[1] \in Packets
        /\ \A i \in 1..Len(pendingPackets') : pendingPackets'[i] = pendingPackets[i + 1]
    BY <1>3, <2>1, TailIndices
  <2> QED BY <2>2
<1>5. PICK p : p = pendingPackets[1]
  OBVIOUS
<1>6. \/ ~p.live /\ decoderWaits' = decoderWaits /\ fed' = fed
      \/ p.live /\ decoderWaits /\ ~p.frame.unit.key /\ decoderWaits' = decoderWaits /\ fed' = fed
      \/ p.live /\ (decoderWaits => p.frame.unit.key) /\ decoderWaits' = FALSE /\ fed' = p.frame.unit
  BY <1>4, <1>5 DEF Decode
<1>7. pendingPackets' # <<>> => n \in 1..n /\ pendingPackets'[n] = pendingPackets[Len(pendingPackets)]
  BY <1>4
<1>8. pendingPackets' = <<>> => Len(pendingPackets) = 1
  BY <1>4
<1> HIDE DEF n
<1>9. /\ p.live => \A i \in 1..n : pendingPackets'[i].live
      /\ p.live => decoderWaits \/ Joined(p.frame.unit, fed)
      /\ p.live /\ n > 0 => Joined(pendingPackets'[1].frame.unit, p.frame.unit)
  <2>1. ASSUME p.live, NEW i \in 1..n PROVE pendingPackets'[i].live
    <3>1. 1 \in 1..Len(pendingPackets) /\ i + 1 \in 1..Len(pendingPackets) /\ 1 < i + 1
      BY <1>4
    <3> QED BY <1>2, <1>4, <1>5, <2>1, <3>1 DEF Fed
  <2>2. p.live => decoderWaits \/ Joined(p.frame.unit, fed)
    <3>1. 1 \in 1..Len(pendingPackets)
      BY <1>4
    <3> QED BY <1>2, <1>5, <3>1 DEF Fed
  <2>3. ASSUME p.live, n > 0 PROVE Joined(pendingPackets'[1].frame.unit, p.frame.unit)
    <3>1. 1 \in 1..(Len(pendingPackets) - 1) /\ pendingPackets'[1] = pendingPackets[1 + 1]
      BY <1>4, <2>3
    <3> QED BY <1>2, <1>5, <2>3, <3>1 DEF Fed
  <2> QED BY <2>1, <2>2, <2>3
<1>10. \A i, j \in 1..n : i < j /\ pendingPackets'[i].live => pendingPackets'[j].live
  <2> SUFFICES ASSUME NEW i \in 1..n, NEW j \in 1..n, i < j, pendingPackets'[i].live
               PROVE  pendingPackets'[j].live
    OBVIOUS
  <2>1. i + 1 \in 1..Len(pendingPackets) /\ j + 1 \in 1..Len(pendingPackets) /\ i + 1 < j + 1
    BY <1>4
  <2> QED BY <1>2, <1>4, <2>1 DEF Fed
<1>11. \A i \in 1..(n - 1) :
          pendingPackets'[i].live => Joined(pendingPackets'[i + 1].frame.unit, pendingPackets'[i].frame.unit)
  <2> SUFFICES ASSUME NEW i \in 1..(n - 1), pendingPackets'[i].live
               PROVE  Joined(pendingPackets'[i + 1].frame.unit, pendingPackets'[i].frame.unit)
    OBVIOUS
  <2>1. i + 1 \in 1..(Len(pendingPackets) - 1) /\ i \in 1..n /\ i + 1 \in 1..n
    BY <1>4
  <2>2. pendingPackets'[i + 1] = pendingPackets[(i + 1) + 1] /\ pendingPackets'[i] = pendingPackets[i + 1]
    BY <1>4, <2>1
  <2> QED BY <1>2, <2>1, <2>2 DEF Fed
<1>12. \A i \in 1..n : pendingPackets'[i].live /\ (i = 1 \/ ~pendingPackets'[i - 1].live) =>
                          decoderWaits' \/ Joined(pendingPackets'[i].frame.unit, fed')
  <2> SUFFICES ASSUME NEW i \in 1..n, pendingPackets'[i].live, i = 1 \/ ~pendingPackets'[i - 1].live
               PROVE  decoderWaits' \/ Joined(pendingPackets'[i].frame.unit, fed')
    OBVIOUS
  <2>1. i + 1 \in 1..Len(pendingPackets) /\ i + 1 # 1 /\ (i + 1) - 1 = i
        /\ pendingPackets'[i] = pendingPackets[i + 1]
        /\ (i # 1 => i - 1 \in 1..n /\ pendingPackets'[i - 1] = pendingPackets[(i - 1) + 1])
        /\ (i - 1) + 1 = i /\ n > 0
    BY <1>4
  <2>2. CASE ~p.live
    <3>1. ~pendingPackets[i].live
      BY <1>5, <2>1, <2>2
    <3>2. pendingPackets[i + 1].live /\ ~pendingPackets[(i + 1) - 1].live
      BY <2>1, <3>1
    <3>3. decoderWaits \/ Joined(pendingPackets[i + 1].frame.unit, fed)
      BY <1>2, <2>1, <3>2 DEF Fed
    <3> QED BY <1>6, <2>1, <2>2, <3>3
  <2>3. CASE p.live
    <3>1. i = 1
      BY <1>9, <2>1, <2>3
    <3> QED BY <1>6, <1>9, <2>1, <2>3, <3>1
  <2> QED BY <2>2, <2>3
<1>13. Fed'
  BY <1>10, <1>11, <1>12 DEF Fed, n
<1>14. \A u : Latest(u)' => Latest(u)
  <2> SUFFICES ASSUME NEW u, Latest(u)' PROVE Latest(u)
    OBVIOUS
  <2>1. CASE pendingPackets' # <<>> /\ pendingPackets'[n].live
    BY <1>3, <1>7, <2>1 DEF Latest, n
  <2>2. CASE pendingPackets' # <<>> /\ ~pendingPackets'[n].live
    <3>1. ~p.live
      BY <1>7, <1>9, <2>2
    <3>2. ~decoderWaits' /\ u = fed'
      BY <2>2 DEF Latest, n
    <3> QED BY <1>6, <1>7, <2>2, <3>1, <3>2 DEF Latest
  <2>3. CASE pendingPackets' = <<>>
    <3>1. Len(pendingPackets) = 1 /\ ~decoderWaits' /\ u = fed'
      BY <1>8, <2>3 DEF Latest
    <3> QED BY <1>3, <1>5, <1>6, <3>1 DEF Latest
  <2> QED BY <2>1, <2>2, <2>3
<1>15. TrackerAgrees(h)'
  BY <1>2, <1>3, <1>14 DEF TrackerAgrees
<1>16. Published(h)' /\ Queued(h)'
  BY <1>2, <1>3, QueuedKept
<1>17. OnTheWay(h)'
  <2>1. \A i \in 1..n : In(sequence, h, pendingPackets'[i].frame)
    <3> SUFFICES ASSUME NEW i \in 1..n PROVE In(sequence, h, pendingPackets'[i].frame)
      OBVIOUS
    <3>1. i + 1 \in 1..Len(pendingPackets) /\ pendingPackets'[i] = pendingPackets[i + 1]
      BY <1>4
    <3> QED BY <1>2, <3>1 DEF OnTheWay
  <2> QED BY <1>2, <1>3, <2>1 DEF OnTheWay, n
<1>18. decoderWaits' \in BOOLEAN
  BY <1>2, <1>6 DEF VideoType
<1>19. VideoType'
  BY <1>2, <1>3, <1>4, <1>18 DEF VideoType
<1>20. fed' # fed => fed'.key \/ Follows(fed', fed)
  BY <1>6, <1>9 DEF Joined
<1> QED BY <1>13, <1>15, <1>16, <1>17, <1>19, <1>20 DEF VideoInv, VideoHolds

\* A decoder that failed waits for a key; its packets stay.
LEMMA DecoderFailsStep ==
    ASSUME VideoInv, DecoderFails
    PROVE  VideoInv'
<1>1. PICK h : VideoHolds(h)
  BY DEF VideoInv
<1>2. VideoType /\ Published(h) /\ OnTheWay(h) /\ Queued(h) /\ Fed /\ TrackerAgrees(h)
  BY <1>1 DEF VideoInv, VideoHolds
<1>3. /\ UNCHANGED <<made, lockedSsrc, wasDemanded, hevc, awaitsIrap, dims, stream, sequence>>
      /\ UNCHANGED <<frames, sending, resync, wire, tracker, pendingPackets>>
      /\ decoderWaits' = TRUE
  BY DEF DecoderFails, ingestVars, publishVars, socketVars
<1>4. Published(h)' /\ Queued(h)'
  BY <1>2, <1>3, QueuedKept
<1>5. OnTheWay(h)'
  BY <1>2, <1>3 DEF OnTheWay
<1>6. Fed'
  BY <1>2, <1>3 DEF Fed
<1>7. \A u : Latest(u)' => Latest(u)
  BY <1>3 DEF Latest
<1>8. TrackerAgrees(h)'
  BY <1>2, <1>3, <1>7 DEF TrackerAgrees
<1>9. VideoType'
  BY <1>2, <1>3 DEF VideoType
<1> QED BY <1>4, <1>5, <1>6, <1>8, <1>9 DEF VideoInv, VideoHolds

\* Nothing is published at the start.
LEMMA VideoStart == VideoInit => VideoInv
<1> SUFFICES ASSUME VideoInit PROVE VideoInv
  OBVIOUS
<1>1. /\ made = [s \in Sources |-> 0] /\ lockedSsrc = "none" /\ wasDemanded = FALSE
      /\ hevc = <<>> /\ awaitsIrap = FALSE /\ dims = FALSE /\ stream = 1 /\ sequence = 0
      /\ frames = <<>> /\ resync = TRUE /\ sending = Unsent /\ wire = <<>>
      /\ tracker = NoTracker /\ pendingPackets = <<>> /\ decoderWaits = TRUE
  BY DEF VideoInit
<1>2. hevc \in Seq(Units) /\ frames \in Seq(Frames) /\ wire \in Seq(Frames) /\ pendingPackets \in Seq(Packets)
  BY <1>1
<1>3. tracker \in [stream : Nat, seq : Nat, waits : BOOLEAN] /\ tracker.stream = 0
  BY <1>1 DEF NoTracker
<1>4. sending \in Sendings /\ sending.step = "idle"
  BY <1>1 DEF Unsent, Sendings
<1>5. stream \in 1..MaxStreams
  BY <1>1, VideoBoundsAssumption
<1>6. made \in [Sources -> Nat]
  BY <1>1
<1>7. VideoType
  BY <1>1, <1>2, <1>3, <1>4, <1>5, <1>6 DEF VideoType
<1>8. PICK h : h = [q \in 1..sequence |-> q]
  OBVIOUS
<1>9. Published(h)
  <2>1. 1..sequence = {} /\ 1..(sequence - 1) = {}
    BY <1>1
  <2>2. h \in [1..sequence -> Units]
    BY <1>8, <2>1
  <2> QED BY <2>1, <2>2 DEF Published
<1>10. Len(frames) = 0 /\ Len(wire) = 0 /\ Len(pendingPackets) = 0 /\ Len(hevc) = 0
  BY <1>1
<1>11. OnTheWay(h)
  BY <1>4, <1>10 DEF OnTheWay
<1>12. Queued(h)
  BY <1>1, <1>10 DEF Queued
<1>13. Fed
  BY <1>10 DEF Fed
<1>14. TrackerAgrees(h)
  BY <1>1, <1>3 DEF TrackerAgrees, Latest
<1> QED BY <1>7, <1>9, <1>11, <1>12, <1>13, <1>14 DEF VideoInv, VideoHolds

\* The decoder is fed a unit that is no key only right after the unit that it
\* depends on, however many sources, streams, queues, channels and credits
\* there are.
THEOREM AlwaysDecodable == VideoSpec => Decodable
<1> DEFINE Right == fed' # fed /\ fed' # NoUnit => fed'.key \/ Follows(fed', fed)
<1>1. VideoInit => VideoInv
  BY VideoStart
<1>2. VideoInv /\ [VideoNext]_videoVars => VideoInv' /\ (UNCHANGED fed \/ Right)
  <2> SUFFICES ASSUME VideoInv, [VideoNext]_videoVars PROVE VideoInv' /\ (UNCHANGED fed \/ Right)
    OBVIOUS
  <2>1. CASE \E s \in Sources, key \in BOOLEAN : Receive(s, key)
    BY <2>1, ReceiveStep DEF Receive, pageVars
  <2>2. CASE PublishUnit
    BY <2>2, PublishStep DEF PublishUnit, pageVars
  <2>3. CASE BeginStream
    BY <2>3, BeginStreamStep DEF BeginStream, pageVars
  <2>4. CASE TakeLagged \/ TakeFrame \/ Acquire \/ Sent \/ CompleteResync \/ TakeFeedback \/ OtherDemand
             \/ \E active \in BOOLEAN : PageDemands(active)
    <3>1. UNCHANGED fed
      BY <2>4 DEF TakeLagged, TakeFrame, Acquire, Sent, CompleteResync, TakeFeedback, OtherDemand, PageDemands, pageVars
    <3> QED BY <2>4, <3>1, SocketStep
  <2>5. CASE PageReceives
    <3>1. fed' = NoUnit \/ UNCHANGED fed
      BY <2>5 DEF PageReceives
    <3> QED BY <2>5, <3>1, PageReceivesStep
  <2>6. CASE Decode
    BY <2>6, DecodeStep
  <2>7. CASE DecoderFails
    <3>1. fed' = NoUnit
      BY <2>7 DEF DecoderFails
    <3> QED BY <2>7, <3>1, DecoderFailsStep
  <2>8. CASE UNCHANGED videoVars
    <3>1. /\ UNCHANGED <<made, lockedSsrc, wasDemanded, hevc, awaitsIrap, dims, stream, sequence>>
          /\ UNCHANGED <<frames, sending, resync, wire, tracker, pendingPackets, decoderWaits, fed>>
      BY <2>8 DEF videoVars
    <3>2. PICK h : VideoHolds(h)
      BY DEF VideoInv
    <3>3. VideoType'
      BY <3>1 DEF VideoInv, VideoType
    <3>4. OnTheWay(h)' /\ Published(h)' /\ Queued(h)' /\ Fed' /\ TrackerAgrees(h)'
      BY <3>1, <3>2, QueuedKept, PageKept DEF VideoHolds, OnTheWay
    <3> QED BY <3>1, <3>3, <3>4 DEF VideoInv, VideoHolds
  <2> QED BY <2>1, <2>2, <2>3, <2>4, <2>5, <2>6, <2>7, <2>8 DEF VideoNext
<1>3. VideoInv /\ [VideoNext]_videoVars => [Right]_videoVars
  <2>1. UNCHANGED fed => Right
    OBVIOUS
  <2> QED BY <1>2, <2>1
<1> QED BY <1>1, <1>2, <1>3, PTL DEF VideoSpec, Decodable
=============================================================================
