------------------------------ MODULE Clipboard -----------------------------
(***************************************************************************)
(* The pasteboard of a device and the clipboard of the host, kept in step  *)
(* by the clipboard task of a session, which also prepares the text of a   *)
(* paste.  Users copy on either side at any time; every call to the device *)
(* is an await.                                                            *)
(***************************************************************************)
EXTENDS Naturals, Sequences

CONSTANTS
    Texts, Images,  \* what can be copied
    Nothing,
    MaxCopies,      \* bound: copies by users
    MaxPastes,      \* bound: pastes
    MaxFaults       \* bound: calls that fail

ASSUME ClipboardAssumption ==
    /\ Texts \cap Images = {} /\ Nothing \notin Texts \cup Images
    /\ {MaxCopies, MaxPastes, MaxFaults} \subseteq Nat

VARIABLES
    hostClip, deviceClip,  \* what each side holds
    changeCount,           \* change_count of the device's pasteboard
    clipMode,              \* "connecting", "sync", "commands" or "detached"
    lastText, lastImage, lastChange,  \* ClipState; lastChange is 0 for None
    pushed,                \* snapshots the device has sent
    handling,              \* "idle", "pulled" or "counting": inside a handler
    pasteOrders,           \* commands of the bridge, and whether one is awaited
    paste,                 \* the paste_text under way
    pasted,                \* the last one that was sent
    writer,                \* who wrote the pasteboard last
    copies, pastes, clipFaults,
    skipped                \* did the sides stay different for a known reason?

clipState == <<lastText, lastImage, lastChange>>
pasteVars == <<pasteOrders, paste, pasted, pastes>>
clipVars == <<hostClip, deviceClip, changeCount, clipMode, clipState, pushed, handling, pasteVars, writer,
              copies, clipFaults, skipped>>

Contents == Texts \cup Images
NoPaste == [at |-> "none", text |-> Nothing]
NotPasted == [asked |-> Nothing, got |-> Nothing, by |-> "user"]

ClipboardInit ==
    /\ hostClip \in {Nothing} \cup Contents /\ deviceClip \in {Nothing} \cup Contents
    /\ changeCount = 1 /\ clipMode = "connecting"
    /\ lastText = Nothing /\ lastImage = Nothing /\ lastChange = 0
    /\ pushed = <<>> /\ handling = "idle"
    /\ pasteOrders = <<>> /\ paste = NoPaste /\ pasted = NotPasted /\ writer = "user"
    /\ copies = 0 /\ pastes = 0 /\ clipFaults = 0 /\ skipped = FALSE

\* A call fails.
Fault == clipFaults < MaxFaults /\ clipFaults' = clipFaults + 1
NoFault == UNCHANGED clipFaults

\* The pasteboard changes; the session may be told of it.
PasteboardChanges(c, by) ==
    /\ deviceClip' = c /\ changeCount' = changeCount + 1 /\ writer' = by
    /\ \/ UNCHANGED pushed
       \/ clipMode = "sync" /\ pushed = <<>> /\ pushed' = <<[content |-> c, at |-> changeCount']>>
PasteboardKept == UNCHANGED <<deviceClip, changeCount, writer>>

----------------------------------------------------------------------------
(* Users.                                                                  *)

CopiesOnDevice(c) ==
    /\ copies < MaxCopies /\ copies' = copies + 1
    /\ PasteboardChanges(c, "user")
    /\ UNCHANGED <<hostClip, clipMode, clipState, handling, pasteVars, clipFaults, skipped>>

CopiesOnHost(c) ==
    /\ copies < MaxCopies /\ copies' = copies + 1
    /\ hostClip' = c
    /\ UNCHANGED <<deviceClip, changeCount, clipMode, clipState, pushed, handling, pasteVars, writer, clipFaults, skipped>>

----------------------------------------------------------------------------
(* The session's task.                                                     *)

MutantRemembers(c) ==
    IF c \in Texts THEN lastText' = c /\ UNCHANGED lastImage ELSE lastImage' = c /\ UNCHANGED lastText

\* A content is known to both sides.
Remembers(c) ==
    /\ lastText' = IF c \in Texts THEN c ELSE Nothing
    /\ lastImage' = IF c \in Images THEN c ELSE Nothing

Known(c) == c = Nothing \/ c = lastText \/ c = lastImage

\* connect_device_clipboard and the beginning of run: with both sides there
\* the state is seeded with what they hold.
ConnectsClipboard ==
    /\ clipMode = "connecting"
    /\ \/ clipMode' \in {"commands", "detached"} /\ UNCHANGED <<clipState, skipped>> /\ NoFault
       \/ /\ clipMode' = "sync" /\ Remembers(hostClip) /\ lastChange' = changeCount
          /\ skipped' = (hostClip # deviceClip) /\ NoFault
       \/ /\ clipMode' = "sync" /\ Remembers(hostClip) /\ lastChange' = 0
          /\ skipped' = (hostClip # deviceClip) /\ Fault
    /\ UNCHANGED <<hostClip, deviceClip, changeCount, pushed, handling, pasteVars, writer, copies>>

\* apply_device_snapshot.
Apply(snapshot) ==
    IF snapshot.at = lastChange THEN UNCHANGED <<hostClip, clipState, skipped>> /\ NoFault
    ELSE /\ lastChange' = snapshot.at
         /\ \/ Known(snapshot.content) /\ UNCHANGED <<hostClip, lastText, lastImage>> /\ NoFault
               /\ skipped' = (skipped /\ snapshot.content = Nothing)
            \/ ~Known(snapshot.content) /\ hostClip' = snapshot.content /\ Remembers(snapshot.content)
               /\ skipped' = FALSE /\ NoFault
            \/ ~Known(snapshot.content) /\ UNCHANGED <<hostClip, lastText, lastImage>> /\ skipped' = TRUE /\ Fault

TakesPush ==
    /\ clipMode = "sync" /\ handling = "idle" /\ pushed # <<>>
    /\ UNCHANGED deviceClip /\ Apply(Head(pushed)) /\ pushed' = Tail(pushed)
    /\ UNCHANGED <<changeCount, clipMode, handling, pasteVars, writer, copies>>

\* The stream of pushes breaks: a new client, if there is one, only looks at
\* the count.
PushFails ==
    /\ clipMode = "sync" /\ handling = "idle" /\ Fault
    /\ \/ UNCHANGED <<lastChange, pushed, skipped>>
       \/ /\ pushed' = <<>> /\ lastChange' \in {changeCount, 0}
          /\ skipped' = (skipped \/ ~Known(deviceClip))
    /\ UNCHANGED <<hostClip, deviceClip, changeCount, clipMode, lastText, lastImage, handling, pasteVars, writer, copies>>

\* Every CLIPBOARD_POLL: what the device holds is looked at, then the host's.
PollsDevice ==
    /\ clipMode = "sync" /\ handling = "idle" /\ UNCHANGED deviceClip
    /\ Apply([content |-> deviceClip, at |-> changeCount]) /\ handling' = "pulled"
    /\ UNCHANGED <<changeCount, clipMode, pushed, pasteVars, writer, copies>>

PollFails ==
    /\ clipMode = "sync" /\ handling = "idle" /\ Fault
    /\ pushed' \in {pushed, <<>>}
    /\ UNCHANGED <<hostClip, deviceClip, changeCount, clipMode, clipState, handling, pasteVars, writer, copies, skipped>>

\* push_host_clipboard: the content goes to the device, then the new count is
\* asked for.  A call that fails may have had its effect.
PushesHost ==
    /\ handling = "pulled" /\ ~Known(hostClip) /\ UNCHANGED hostClip
    /\ \/ PasteboardChanges(hostClip, "sync") /\ Remembers(hostClip) /\ NoFault
          /\ handling' = "counting" /\ skipped' = FALSE
       \/ /\ Fault /\ handling' = "idle" /\ UNCHANGED <<lastText, lastImage, skipped>>
          /\ PasteboardChanges(hostClip, "sync") \/ (PasteboardKept /\ pushed' \in {pushed, <<>>})
    /\ UNCHANGED <<clipMode, lastChange, pasteVars, copies>>

\* Nothing new on the host, or it cannot be read now.
HostUnchanged ==
    /\ handling = "pulled" /\ handling' = "idle"
    /\ (Known(hostClip) /\ NoFault) \/ (~Known(hostClip) /\ Fault)
    /\ UNCHANGED <<hostClip, deviceClip, changeCount, clipMode, clipState, pushed, pasteVars, writer, copies, skipped>>

\* What was copied on the device before the count arrives is never looked at.
CountsOwnChange ==
    /\ handling = "counting" /\ handling' = "idle"
    /\ (lastChange' = changeCount /\ NoFault) \/ (lastChange' = 0 /\ Fault)
    /\ skipped' = ~Known(deviceClip)
    /\ UNCHANGED <<hostClip, deviceClip, changeCount, clipMode, lastText, lastImage, pushed, pasteVars, writer, copies>>

----------------------------------------------------------------------------
(* Pasting: the text is prepared by the clipboard task, then the session's *)
(* command loop sends Cmd+V.                                               *)

PasteText(text) ==
    /\ paste = NoPaste /\ pastes < MaxPastes /\ clipMode # "connecting"
    /\ pastes' = pastes + 1
    /\ paste' = [at |-> "asked", text |-> text]
    /\ pasteOrders' = Append(pasteOrders, [text |-> text, awaited |-> TRUE])
    /\ UNCHANGED <<hostClip, deviceClip, changeCount, clipMode, clipState, pushed, handling, pasted, writer, copies, clipFaults, skipped>>

\* CLIPBOARD_COMMAND_TIMEOUT: the command is still executed.
PasteTimesOut ==
    /\ paste.at = "asked" /\ paste' = NoPaste
    /\ pasteOrders' = [i \in DOMAIN pasteOrders |-> [pasteOrders[i] EXCEPT !.awaited = FALSE]]
    /\ UNCHANGED <<hostClip, deviceClip, changeCount, clipMode, clipState, pushed, handling, pasted, pastes, writer, copies, clipFaults, skipped>>

Replied(answer) ==
    paste' = IF ~Head(pasteOrders).awaited THEN paste ELSE IF answer = "ok" THEN [paste EXCEPT !.at = "chord"] ELSE NoPaste

\* execute_command.
ExecutesCommand ==
    /\ pasteOrders # <<>> /\ handling = "idle" /\ clipMode \in {"sync", "commands"}
    /\ pasteOrders' = Tail(pasteOrders) /\ UNCHANGED hostClip
    /\ LET text == Head(pasteOrders).text
       IN \/ /\ PasteboardChanges(text, "paste") /\ Replied("ok") /\ NoFault /\ UNCHANGED <<clipMode, lastChange>>
             /\ IF clipMode = "sync" THEN Remembers(text) /\ handling' = "counting" ELSE UNCHANGED <<lastText, lastImage, handling>>
          \/ /\ PasteboardChanges(text, "paste") \/ (PasteboardKept /\ pushed' \in {pushed, <<>>})
             /\ Replied("err") /\ Fault /\ UNCHANGED <<clipState, handling>>
             /\ clipMode' = IF clipMode = "sync" THEN "sync" ELSE "detached"
    /\ UNCHANGED <<pasted, pastes, copies, skipped>>

\* command_loop without a client.
Reattaches ==
    /\ clipMode = "detached" /\ pasteOrders # <<>>
    /\ \/ clipMode' = "commands" /\ NoFault /\ UNCHANGED <<pasteOrders, paste>>
       \/ Fault /\ pasteOrders' = Tail(pasteOrders) /\ Replied("err") /\ UNCHANGED clipMode
    /\ UNCHANGED <<hostClip, deviceClip, changeCount, clipState, pushed, handling, pasted, pastes, writer, copies, skipped>>

SendsChord ==
    /\ paste.at = "chord" /\ paste' = NoPaste
    /\ pasted' = [asked |-> paste.text, got |-> deviceClip, by |-> writer]
    /\ UNCHANGED <<hostClip, deviceClip, changeCount, clipMode, clipState, pushed, handling, pasteOrders, pastes, writer, copies, clipFaults, skipped>>

ClipboardNext ==
    \/ \E c \in Contents : CopiesOnDevice(c) \/ CopiesOnHost(c)
    \/ ConnectsClipboard \/ TakesPush \/ PushFails \/ PollsDevice \/ PollFails
    \/ PushesHost \/ HostUnchanged \/ CountsOwnChange
    \/ \E text \in Texts : PasteText(text)
    \/ PasteTimesOut \/ ExecutesCommand \/ Reattaches \/ SendsChord

----------------------------------------------------------------------------
\* When the task has nothing left to do - it knows the device's count and what
\* the host holds - both sides hold the same, whatever was copied, pasted,
\* pushed late or failed in between, unless it skipped a change for a reason:
\* what each held when it connected, a new client, a host that refused, or a
\* copy on the device before the count of its own write arrived.
ClipboardAgrees ==
    clipMode = "sync" /\ handling = "idle" /\ lastChange = changeCount
    /\ hostClip # Nothing /\ Known(hostClip)
    => hostClip = deviceClip \/ skipped

\* What a paste puts into the focused field is the text it was asked for,
\* unless the user of the device copied something in between ("Paste arbitrary
\* Unicode text into the focused field through the iOS pasteboard and Cmd+V").
PastesAsked == pasted.got = pasted.asked \/ pasted.by = "user"
=============================================================================
