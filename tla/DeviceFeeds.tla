----------------------------- MODULE DeviceFeeds ----------------------------
(***************************************************************************)
(* The feeds of a device and their readers: device logs, which a page      *)
(* polls and the MCP server reads; the console of an application, whose    *)
(* numbering restarts with every start; and device events, for which MCP   *)
(* calls wait.  `feed` is the one a behaviour is about.  Numbers are the   *)
(* code's; `base` counts the lines of earlier numberings.                  *)
(***************************************************************************)
EXTENDS Naturals, Sequences, FiniteSets

CONSTANTS
    Followers,   \* pages and MCP calls that read
    KeptLines,   \* lines a buffer keeps (1000)
    PageLines,   \* lines of a page of logs (500)
    QueueEvents, \* events a receiver keeps (16)
    MaxLines,    \* bound: lines published
    MaxStarts,   \* bound: starts, stops with clear and resets
    NoCursor     \* no cursor

ASSUME FeedsAssumption ==
    /\ {KeptLines, PageLines, QueueEvents} \subseteq Nat \ {0} /\ {MaxLines, MaxStarts} \subseteq Nat
    /\ NoCursor \notin Nat

VARIABLES
    feed,       \* "logs", "console" or "events"
    first,      \* the oldest line kept; first > last when none is
    last,       \* the newest line
    base, clears,
    producing,  \* does anything come from the device? (console: is it running?)
    cursor,     \* cursor[r]: where r is, NoCursor before its first answer
    numbering,  \* numbering[r]: the base that cursor[r] belongs to
    reader,     \* reader[r]: the request of r
    answered, page, told

feedsVars == <<feed, first, last, base, clears, producing, cursor, numbering, reader, answered, page, told>>

NoLines == [from |-> 1, to |-> 0]
IdleReader == [at |-> "idle", answer |-> NoLines, gap |-> FALSE, next |-> NoCursor, base |-> 0,
               baseline |-> 0, queue |-> <<>>, lagged |-> FALSE]

FeedsInit ==
    /\ feed \in {"logs", "console", "events"}
    /\ first = 1 /\ last = 0 /\ base = 0 /\ clears = 0
    /\ producing = (feed # "console")
    /\ cursor = [r \in Followers |-> NoCursor] /\ numbering = [r \in Followers |-> 0]
    /\ reader = [r \in Followers |-> IdleReader]
    /\ answered = [r \in Followers |-> 0] /\ page = [r \in Followers |-> NoLines]
    /\ told = [r \in Followers |-> FALSE]

Smaller(a, b) == IF a < b THEN a ELSE b
Greater(a, b) == IF a > b THEN a ELSE b
HasLines == first <= last

----------------------------------------------------------------------------
(* The producers.                                                          *)

\* publish_structured: the oldest lines go when there are too many.
PublishLog ==
    /\ feed = "logs"
    /\ last' = last + 1 /\ first' = Greater(first, last' + 1 - KeptLines)
    /\ UNCHANGED reader

\* push_line: also when they are too long, the newest excepted.
PushLine ==
    /\ feed = "console" /\ producing
    /\ last' = last + 1 /\ first' \in Greater(first, last' + 1 - KeptLines)..last'
    /\ UNCHANGED reader

\* DeviceEventSlot::publish: only the latest is kept, receivers have a queue
\* each, which drops its oldest events.
PublishEvent ==
    /\ feed = "events"
    /\ last' = last + 1 /\ first' = last'
    /\ reader' = [r \in Followers |->
          IF reader[r].at \notin {"subscribed", "waiting"} THEN reader[r]
          ELSE IF Len(reader[r].queue) < QueueEvents THEN [reader[r] EXCEPT !.queue = Append(@, last')]
          ELSE [reader[r] EXCEPT !.queue = Append(Tail(@), last'), !.lagged = TRUE]]

Produces ==
    /\ base + last < MaxLines
    /\ PublishLog \/ PushLine \/ PublishEvent
    /\ UNCHANGED <<feed, base, clears, producing, cursor, numbering, answered, page, told>>

\* clear and reset of logs and events keep the numbering.
Clears ==
    /\ feed # "console" /\ clears < MaxStarts
    /\ first' = last + 1 /\ clears' = clears + 1
    /\ UNCHANGED <<feed, last, base, producing, cursor, numbering, reader, answered, page, told>>

\* The page that cleared the logs drops its cursor and what it is reading.
PageCleared(r) ==
    /\ feed = "logs" /\ clears > 0
    /\ cursor' = [cursor EXCEPT ![r] = NoCursor] /\ numbering' = [numbering EXCEPT ![r] = 0]
    /\ reader' = [reader EXCEPT ![r] = IdleReader]
    /\ UNCHANGED <<feed, first, last, base, clears, producing, answered, page, told>>

\* ConsoleState::default: numbering starts again.
FreshConsole ==
    /\ feed = "console" /\ clears < MaxStarts /\ clears' = clears + 1
    /\ base' = base + last /\ last' = 0 /\ first' = 1
    /\ UNCHANGED <<feed, answered, page, told>>

\* Start replaces the lines; the page that starts drops what it had before,
\* at once, whether the application is launched or not.
StartConsole(r) ==
    /\ FreshConsole
    /\ \E launched \in BOOLEAN : producing' = launched
    /\ cursor' = [cursor EXCEPT ![r] = 0] /\ numbering' = [numbering EXCEPT ![r] = base']
    /\ reader' = [reader EXCEPT ![r] = IdleReader]

\* Stop with clear, when a page closes; the end of the session.
ClearConsole ==
    /\ FreshConsole /\ producing' = FALSE
    /\ UNCHANGED <<cursor, numbering, reader>>

\* Stop without clear, the end of the application, a broken stream.
ConsoleEnds ==
    /\ feed = "console" /\ producing /\ producing' = FALSE
    /\ UNCHANGED <<feed, first, last, base, clears, cursor, numbering, reader, answered, page, told>>

----------------------------------------------------------------------------
(* The readers.                                                            *)

Answers(r, p, gap, next) ==
    /\ reader' = [reader EXCEPT ![r] = [IdleReader EXCEPT !.at = "answered", !.answer = p, !.gap = gap,
                                        !.next = next, !.base = base]]
    /\ answered' = [answered EXCEPT ![r] = base + last]

\* DeviceLogSlot::snapshot, and the cursor its reader takes from it.
LogSnapshot(r) ==
    LET after == cursor[r]
        from == IF after = NoCursor THEN Greater(first, last + 1 - PageLines) ELSE Greater(first, after + 1)
        to == Smaller(last, from + PageLines - 1)
    IN Answers(r, [from |-> from, to |-> to],
               after # NoCursor /\ HasLines /\ after + 1 < first,
               IF from <= to THEN to ELSE IF after = NoCursor /\ HasLines THEN last ELSE after)

MutantConsoleSnapshot(r) ==
    LET after == cursor[r]
        reset == after # NoCursor /\ HasLines /\ after < first
        from == IF after = NoCursor \/ reset THEN first ELSE Greater(first, after + 1)
    IN Answers(r, [from |-> from, to |-> last], reset, last)

\* ConsoleState::snapshot.
ConsoleSnapshot(r) ==
    LET after == cursor[r]
        reset == after # NoCursor /\ HasLines /\ after + 1 < first
        from == IF after = NoCursor \/ reset THEN first ELSE Greater(first, after + 1)
    IN Answers(r, [from |-> from, to |-> last], reset, last)

Reads(r) ==
    /\ reader[r].at = "idle"
    /\ \/ feed = "logs" /\ LogSnapshot(r)
       \/ feed = "console" /\ ConsoleSnapshot(r)
    /\ UNCHANGED <<feed, first, last, base, clears, producing, cursor, numbering, page, told>>

EventAnswer(r, n) == Answers(r, [from |-> n, to |-> n], n > reader[r].baseline + 1, n)

\* wait_for_device_event: a baseline, a subscription, then the event that is
\* already there, or the next one.
EventBaseline(r) ==
    /\ feed = "events" /\ reader[r].at = "idle"
    /\ LET baseline == IF cursor[r] # NoCursor THEN cursor[r] ELSE IF HasLines THEN last ELSE 0
       IN /\ reader' = [reader EXCEPT ![r].at = "based", ![r].baseline = baseline]
          /\ cursor' = [cursor EXCEPT ![r] = baseline]
    /\ UNCHANGED <<feed, first, last, base, clears, producing, numbering, answered, page, told>>

Subscribes(r) ==
    /\ feed = "events" /\ reader[r].at = "based"
    /\ reader' = [reader EXCEPT ![r].at = "subscribed"]
    /\ UNCHANGED <<feed, first, last, base, clears, producing, cursor, numbering, answered, page, told>>

ChecksLatest(r) ==
    /\ feed = "events" /\ reader[r].at = "subscribed"
    /\ \/ HasLines /\ last > reader[r].baseline /\ EventAnswer(r, last)
       \/ ~(HasLines /\ last > reader[r].baseline)
          /\ reader' = [reader EXCEPT ![r].at = "waiting"] /\ UNCHANGED answered
    /\ UNCHANGED <<feed, first, last, base, clears, producing, cursor, numbering, page, told>>

\* recv: an event, or the notice that some were dropped.  An event at or below
\* the baseline, which the code skips, is never queued.
ReceivesEvent(r) ==
    /\ feed = "events" /\ reader[r].at = "waiting" /\ reader[r].queue # <<>>
    /\ LET n == Head(reader[r].queue)
           known == reader[r].baseline
       IN \/ reader[r].lagged /\ HasLines /\ last > known /\ EventAnswer(r, last)
          \/ reader[r].lagged /\ ~(HasLines /\ last > known)
             /\ reader' = [reader EXCEPT ![r].lagged = FALSE] /\ UNCHANGED answered
          \/ ~reader[r].lagged /\ n > known /\ EventAnswer(r, n)
    /\ UNCHANGED <<feed, first, last, base, clears, producing, cursor, numbering, page, told>>

\* The wait ends; what has arrived by then is looked at first.
WaitExpires(r) ==
    /\ feed = "events" /\ reader[r].at = "waiting" /\ reader[r].queue = <<>>
    /\ Answers(r, NoLines, FALSE, reader[r].baseline)
    /\ UNCHANGED <<feed, first, last, base, clears, producing, cursor, numbering, page, told>>

\* The answer arrives, or not; pages are numbered for good here.
Arrives(r) ==
    LET a == reader[r]
    IN /\ a.at = "answered"
       /\ page' = [page EXCEPT ![r] = IF a.answer.from > a.answer.to THEN NoLines
                                      ELSE [from |-> a.base + a.answer.from, to |-> a.base + a.answer.to]]
       /\ told' = [told EXCEPT ![r] = a.gap]
       /\ cursor' = [cursor EXCEPT ![r] = a.next] /\ numbering' = [numbering EXCEPT ![r] = a.base]
       /\ reader' = [reader EXCEPT ![r] = IdleReader]
       /\ UNCHANGED <<feed, first, last, base, clears, producing, answered>>

RequestFails(r) ==
    /\ reader[r].at # "idle"
    /\ reader' = [reader EXCEPT ![r] = IdleReader]
    /\ UNCHANGED <<feed, first, last, base, clears, producing, cursor, numbering, answered, page, told>>

FeedsNext ==
    \/ Produces \/ Clears \/ ClearConsole \/ ConsoleEnds
    \/ \E r \in Followers :
          \/ PageCleared(r) \/ StartConsole(r) \/ Reads(r) \/ Arrives(r) \/ RequestFails(r)
          \/ EventBaseline(r) \/ Subscribes(r) \/ ChecksLatest(r) \/ ReceivesEvent(r) \/ WaitExpires(r)

----------------------------------------------------------------------------
\* Refinement: a reader is lost when what it has, or is about to get, is of an
\* earlier numbering.
FollowingOf(r) ==
    IF cursor[r] = NoCursor THEN IF reader[r].at = "answered" /\ reader[r].base # base THEN "lost" ELSE "no"
    ELSE IF numbering[r] = base THEN "yes" ELSE "lost"

Feed == INSTANCE BoundedFeed WITH
    published <- base + last,
    forgotten <- base + first - 1,
    following <- [r \in Followers |-> FollowingOf(r)],
    at <- [r \in Followers |-> IF cursor[r] = NoCursor THEN 0 ELSE numbering[r] + cursor[r]]

\* Every feed keeps the promise of a bounded feed: a reader misses no line and
\* gets none twice, whatever is dropped, cleared, published or lost on the way
\* while it reads, unless it is told of the gap ("race-free incremental
\* waiting", cursor_lagged, reset); only a console started by somebody else
\* may lose it.
FeedPromise == Feed!FeedSpec
=============================================================================
