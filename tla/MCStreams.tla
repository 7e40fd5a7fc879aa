----------------------------- MODULE MCStreams -----------------------------
(***************************************************************************)
(* The streams of a session side by side: `subject`, chosen at the start,  *)
(* is the one that moves; the others keep one initial state.               *)
(***************************************************************************)
EXTENDS VideoFlow, MediaRecovery, DeviceFeeds, Performance

VARIABLE subject

vars == <<videoVars, recoveryVars, feedsVars, performanceVars, subject>>

Init ==
    /\ VideoInit /\ RecoveryInit /\ FeedsInit /\ PerformanceInit
    /\ subject \in {"video", "recovery", "feeds", "performance"}
    /\ subject = "feeds" \/ feed = "logs"
    /\ subject = "performance" \/ source = "logs"

Next ==
    \/ subject = "video" /\ VideoNext
       /\ UNCHANGED <<recoveryVars, feedsVars, performanceVars, subject>>
    \/ subject = "recovery" /\ RecoveryNext
       /\ UNCHANGED <<videoVars, feedsVars, performanceVars, subject>>
    \/ subject = "feeds" /\ FeedsNext
       /\ UNCHANGED <<videoVars, recoveryVars, performanceVars, subject>>
    \/ subject = "performance" /\ PerformanceNext(IF source = "network" THEN {} ELSE Viewers)
       /\ UNCHANGED <<videoVars, recoveryVars, feedsVars, subject>>

Spec == Init /\ [][Next]_vars /\ (subject = "recovery" => RecoveryFairness)
============================================================================
