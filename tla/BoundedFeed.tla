---------------------------- MODULE BoundedFeed ----------------------------
(***************************************************************************)
(* What a bounded feed promises to those who follow it with a cursor:      *)
(* every line once and in order, and a notice for each that was dropped    *)
(* before they read it.  Lines are numbered 1, 2, ... for good; a producer *)
(* that restarts its numbering loses its followers until they catch up.    *)
(***************************************************************************)
EXTENDS Naturals

CONSTANT Followers

VARIABLES
    published,   \* the newest line
    forgotten,   \* every line up to this one may be gone
    following,   \* following[r]: "no", "yes" or "lost"
    at,          \* at[r]: the last line that r has
    answered,    \* answered[r]: the newest line when the answer to r was made
    page,        \* page[r]: the lines of that answer, [from, to]
    told         \* told[r]: did it report a gap?

feedVars == <<published, forgotten, following, at, answered, page, told>>

NoPage == [from |-> 1, to |-> 0]
Pages == {NoPage} \cup {p \in [from : 1..published, to : 1..published] : p.from <= p.to}

FeedInit ==
    /\ published = 0 /\ forgotten = 0
    /\ following = [r \in Followers |-> "no"] /\ at = [r \in Followers |-> 0]
    /\ answered = [r \in Followers |-> 0] /\ page = [r \in Followers |-> NoPage]
    /\ told = [r \in Followers |-> FALSE]

\* A new line; older ones may go to make room for it.
PublishLine ==
    /\ published' = published + 1 /\ forgotten' \in forgotten..published
    /\ UNCHANGED <<following, at, answered, page, told>>

ForgetLines ==
    /\ forgotten' = published
    /\ UNCHANGED <<published, following, at, answered, page, told>>

\* Numbering starts again: who does not restart it is lost.
RestartFeed ==
    /\ forgotten' = published
    /\ \E lost, back \in SUBSET Followers :
          /\ following' = [r \in Followers |-> IF r \in lost THEN "lost" ELSE IF r \in back THEN "yes" ELSE following[r]]
          /\ at' = [r \in Followers |-> IF r \in back \ lost THEN published ELSE at[r]]
    /\ UNCHANGED <<published, answered, page, told>>

MakeAnswer(r) ==
    /\ answered' = [answered EXCEPT ![r] = published]
    /\ UNCHANGED <<published, forgotten, following, at, page, told>>

\* A follower's answer goes on where it stopped.  If it skips lines they are
\* gone and it says so; if it is empty there was nothing left to tell.
Follow(r) ==
    /\ following[r] = "yes"
    /\ \E p \in Pages :
          LET skips == p # NoPage /\ p.from > at[r] + 1
          IN /\ page' = [page EXCEPT ![r] = p] /\ told' = [told EXCEPT ![r] = skips]
             /\ p # NoPage => p.from > at[r] /\ at' = [at EXCEPT ![r] = p.to]
             /\ p = NoPage => (answered[r] <= at[r] \/ answered[r] <= forgotten) /\ UNCHANGED at
             /\ skips => p.from - 1 <= forgotten
    /\ UNCHANGED <<published, forgotten, following, answered>>

\* The first answer may start anywhere, and so may the first after a restart.
JoinFeed(r) ==
    /\ following[r] # "yes"
    /\ \E p \in Pages, gap \in BOOLEAN :
          page' = [page EXCEPT ![r] = p] /\ told' = [told EXCEPT ![r] = gap]
    /\ \E n \in 0..published : at' = [at EXCEPT ![r] = n]
    /\ \E f \in {following[r], "yes"} : following' = [following EXCEPT ![r] = f]
    /\ UNCHANGED <<published, forgotten, answered>>

LeaveFeed(r) ==
    /\ following' = [following EXCEPT ![r] = "no"] /\ at' = [at EXCEPT ![r] = 0]
    /\ UNCHANGED <<published, forgotten, answered, page, told>>

FeedNext ==
    \/ PublishLine \/ ForgetLines \/ RestartFeed
    \/ \E r \in Followers : MakeAnswer(r) \/ Follow(r) \/ JoinFeed(r) \/ LeaveFeed(r)

FeedSpec == FeedInit /\ [][FeedNext]_feedVars
=============================================================================
