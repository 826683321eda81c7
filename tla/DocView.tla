------------------------------ MODULE DocView ------------------------------
(***************************************************************************)
(* One document view of the app: a Qt widget, which owns the .md file, and *)
(* the web page in it, which owns the editor.  The two halves run          *)
(* concurrently and exchange messages over the web channel, in order in    *)
(* each direction.  The file may be changed by an external editor, too;    *)
(* while the view collaborates, the hub's room for the project's README is *)
(* a third copy of the text, and peers edit it.                            *)
(*                                                                         *)
(* A text is a set of fragments <<f, k>>, each meant for the file f: k = 0 *)
(* is what f held at the start, the others have been put in since.         *)
(***************************************************************************)
EXTENDS Naturals, Sequences, FiniteSets

CONSTANTS Files,      \* the documents that can be opened
          Readme,     \* the one that the hub has a room for
          MaxActs     \* bound on what people do (edit, open, collaborate), and on
                      \* the reads and writes that fail

ASSUME ViewAssumption == Readme \in Files /\ MaxActs \in Nat

VARIABLES
    files,      \* file -> its text on disk
    room,       \* the hub's text of Readme
    seeded,     \* the room has a text; otherwise it is cold
    member,     \* what the hub has of this view: "out", "asked", "in"
    due,        \* the room's text on its way to a new member, as a set
    \* Qt half
    path,       \* the open file
    changed,    \* the watcher has an event for it
    qtText,     \* the text that was last read from it
    collab,     \* _collab_on
    offered,    \* the view has a collaboration target
    pending,    \* _pending_collab
    jsReady,    \* the page has said that it is connected
    \* channel
    down, up,
    \* page
    hasEditor, text, lastSynced, saveTimer,
    active, ready, matTimer,
    diskText,   \* pendingDiskText as a set, empty while nothing is offered
    \* acts and history
    acts,
    shows,      \* file that the text in the editor comes from
    mine,       \* what the user has typed and nobody has deleted
    hurt        \* see Mishaps

diskVars == <<files, room, seeded, member, due>>
qtVars   == <<path, changed, qtText, collab, offered, pending, jsReady>>
pageVars == <<hasEditor, text, lastSynced, saveTimer, active, ready, matTimer, diskText>>
history  == <<shows, mine, hurt>>
vars == <<diskVars, qtVars, down, up, pageVars, acts, history>>

Fragments == Files \X (0..MaxActs)
Texts     == SUBSET Fragments

\* Another document was opened while the page had not come to rest, or the
\* user typed before the page had shown it; collaboration on the room of another
\* file; the editor was saved while it was cleared to wait for the room's text,
\* on leaving or by a timer from before; an own save came back when a later one
\* had left; a change was undone that had kept an external one out; a
\* room was joined that does not have what the user has typed; an update of one
\* session got to the room in the next; the room's text was what the cleared
\* editor had when it came, so that nobody saves it; the file's text was put
\* into the cleared editor, where the room's text will come on top of it; a save
\* that the page counts as done was not written; the file could not be read, and
\* an empty text was shown for it; the file was replaced just after it was read,
\* and the new one was taken for seen.
Mishaps ==
    {"switched", "wrongroom", "early", "cleared", "echo", "undone", "outvoted", "straggler",
     "unwritten", "doubled", "unsaved", "unread", "unseen"}

Doc(f, t)       == [type |-> "doc", text |-> t, of |-> f]
Seed(should, t) == [type |-> "seed", should |-> should, text |-> t]
Update(old, new) == [type |-> "update", add |-> new \ old, del |-> old \ new]
Stopped         == [type |-> "stopped"]
Ready           == [type |-> "ready"]
Save(t)         == [type |-> "save", text |-> t]

Apply(t, u) == (t \cup u.add) \ u.del

\* Bare signals reach a page only once it has connected.
Emit(ms) == down' = IF jsReady THEN down \o ms ELSE down
Send(ms) == up' = up \o ms

Init ==
    /\ files = [f \in Files |-> {<<f, 0>>}]
    /\ seeded \in BOOLEAN /\ room = (IF seeded THEN {<<Readme, 0>>} ELSE {}) /\ member = "out" /\ due = {}
    /\ path = Readme /\ changed = FALSE /\ qtText = {<<Readme, 0>>}
    /\ collab = FALSE /\ offered = TRUE /\ pending = FALSE /\ jsReady = FALSE
    /\ down = <<>> /\ up = <<Ready>>
    /\ hasEditor = FALSE /\ text = {} /\ lastSynced = {} /\ saveTimer = FALSE
    /\ active = FALSE /\ ready = FALSE /\ matTimer = FALSE /\ diskText = {}
    /\ acts = 0
    /\ shows = Readme /\ mine = {} /\ hurt = {}

\* Ways to change t by hand: put in a new fragment for file f, or take one out.
Changes(t, f) == {t \cup {<<f, acts + 1>>}} \cup {t \ {x} : x \in t}

Budget == acts < MaxActs /\ acts' = acts + 1

----------------------------------------------------------------------------
(* The page: editor *)

\* A change in the editor fires onChange; while the editor is bound to a Y.Doc
\* its own changes leave as updates.
ChangeEditor(new) ==
    /\ text' = new
    /\ matTimer' = (matTimer \/ active)
    /\ saveTimer' = (saveTimer \/ ~active)
    /\ IF active THEN Send(<<Update(text, new)>>) ELSE UNCHANGED up

\* The page does not show the open document, or is about to show another one.
Switching ==
    path # shows \/ \E i \in DOMAIN down : down[i].type = "doc" /\ down[i].of # path

UserEdits ==
    /\ hasEditor
    /\ Budget
    /\ \E new \in Changes(text, shows) :
        /\ ChangeEditor(new)
        /\ mine' = (mine \cap new) \cup (new \ text)
    /\ hurt' = hurt \cup (IF Switching THEN {"switched"} ELSE {})
    /\ UNCHANGED <<diskVars, qtVars, down, hasEditor, lastSynced, active, ready,
                   diskText, shows>>

\* The debounce of scheduleSave is over.
SaveTimer ==
    /\ saveTimer /\ saveTimer' = FALSE
    /\ lastSynced' = text
    /\ IF text # lastSynced THEN Send(<<Save(text)>>) ELSE UNCHANGED up
    /\ hurt' = hurt \cup (IF text # lastSynced /\ active /\ ~ready THEN {"cleared"} ELSE {})
                    \cup (IF text = lastSynced /\ text # files[path] THEN {"undone"} ELSE {})
    /\ UNCHANGED <<diskVars, qtVars, down, hasEditor, text, active, ready, matTimer,
                   diskText, acts, shows, mine>>

\* The debounce of scheduleMaterialise is over.
MaterialiseTimer ==
    /\ matTimer /\ matTimer' = FALSE
    /\ IF active /\ ready
       THEN lastSynced' = text /\ Send(<<Save(text)>>)
       ELSE UNCHANGED <<lastSynced, up>>
    /\ UNCHANGED <<diskVars, qtVars, down, hasEditor, text, saveTimer, active, ready,
                   diskText, acts, history>>

\* The button that takes an external change into the shared text.
ReloadFromDisk ==
    /\ active
    /\ Budget
    /\ \E t \in diskText :
        /\ IF t # text THEN ChangeEditor(t)
                       ELSE UNCHANGED <<text, matTimer, saveTimer, up>>
        /\ mine' = mine \cap t
    /\ diskText' = {}
    /\ hurt' = hurt \cup (IF ready THEN {} ELSE {"doubled"})
    /\ UNCHANGED <<diskVars, qtVars, down, hasEditor, lastSynced, active, ready, shows>>

----------------------------------------------------------------------------
(* The page: messages from Qt *)

Receiving(type) == down # <<>> /\ Head(down).type = type /\ down' = Tail(down)

\* onIncoming while the session is live: an external change is only offered.
OfferDisk ==
    /\ active
    /\ Receiving("doc")
    /\ diskText' = {Head(down).text} \ {text}
    /\ UNCHANGED <<diskVars, qtVars, up, hasEditor, text, lastSynced, saveTimer, active,
                   ready, matTimer, acts, history>>

\* onIncoming takes the text, unless it is the page's own or would undo edits.
TakeIf(taken) ==
    /\ ~active
    /\ Receiving("doc")
    /\ LET m == Head(down) IN
        IF taken
        THEN /\ text' = m.text /\ lastSynced' = m.text /\ hasEditor' = TRUE
             /\ saveTimer' = (saveTimer \/ hasEditor)
             /\ shows' = m.of
             /\ hurt' = hurt \cup (IF m.of = shows /\ text = lastSynced
                                      /\ (mine \cap text) \ m.text # {}
                                   THEN {"echo"} ELSE {})
        ELSE /\ shows' = IF text = lastSynced THEN m.of ELSE shows
             /\ UNCHANGED <<text, lastSynced, hasEditor, saveTimer, hurt>>
    /\ UNCHANGED <<diskVars, qtVars, up, active, ready, matTimer, diskText, acts, mine>>

\* mutation: edits in flight do not win
TakeAlways == TakeIf(Head(down).text # lastSynced)

TakeDisk == TakeIf(/\ Head(down).text # lastSynced
                   /\ ~hasEditor \/ text = lastSynced)

\* enterCollab: the editor is cleared before it is bound to an empty Y.Doc,
\* which the seeder then fills from its own text.
EnterCollab ==
    /\ Receiving("seed")
    /\ IF active
       THEN UNCHANGED <<pageVars, up, shows, hurt>>
       ELSE LET m == Head(down)
                first == IF ~m.should THEN {} ELSE IF text # {} THEN text ELSE m.text
            IN  /\ hasEditor' = TRUE /\ active' = TRUE /\ ready' = m.should
                /\ text' = first /\ shows' = Readme
                /\ matTimer' = (matTimer \/ text # {} \/ first # {})
                /\ IF first # {} THEN Send(<<Update({}, first)>>) ELSE UNCHANGED up
                /\ hurt' = hurt \cup (IF ~m.should /\ (mine \cap text) \ room # {}
                                      THEN {"outvoted"} ELSE {})
                               \cup (IF \E i \in DOMAIN up : up[i].type = "update"
                                      THEN {"straggler"} ELSE {})
                /\ UNCHANGED <<lastSynced, saveTimer, diskText>>
    /\ UNCHANGED <<diskVars, qtVars, acts, mine>>

\* An update of a peer, or the replay of the room.
ReceiveUpdate ==
    /\ Receiving("update")
    /\ IF active
       THEN LET new == Apply(text, Head(down)) IN
            /\ text' = new /\ ready' = TRUE
            /\ matTimer' = (matTimer \/ new # text)
            /\ hurt' = hurt \cup (IF ~ready /\ ~matTimer' /\ new # files[path]
                                  THEN {"unwritten"} ELSE {})
       ELSE UNCHANGED <<text, ready, matTimer, hurt>>
    /\ UNCHANGED <<diskVars, qtVars, up, hasEditor, lastSynced, saveTimer, active,
                   diskText, acts, shows, mine>>

\* leaveCollab: the final text lands in the file.
LeaveWith(saves) ==
    /\ Receiving("stopped")
    /\ IF active
       THEN /\ active' = FALSE /\ ready' = FALSE /\ matTimer' = FALSE
            /\ lastSynced' = text /\ diskText' = {}
            /\ Send(saves)
            /\ hurt' = hurt \cup (IF ready THEN {} ELSE {"early"})
       ELSE UNCHANGED <<active, ready, matTimer, lastSynced, diskText, up, hurt>>
    /\ UNCHANGED <<diskVars, qtVars, hasEditor, text, saveTimer, acts, shows, mine>>

\* mutation: the final text does not land in the file
LeaveUnsaved == LeaveWith(<<>>)

LeaveCollab == LeaveWith(<<Save(text)>>)

----------------------------------------------------------------------------
(* The Qt half *)

\* doc_open and doc_close: the view is a member of the hub's room.
StartCollab ==
    /\ collab' = TRUE /\ member' = "asked"
    /\ hurt' = hurt \cup (IF path # Readme THEN {"wrongroom"} ELSE {})

\* mutation: the hub is not told
StopCollabHere == collab' = FALSE /\ UNCHANGED <<member, due>>

StopCollab == collab' = FALSE /\ member' = "out" /\ due' = {}

ToggleOnIf(now) ==
    /\ offered /\ ~collab
    /\ Budget
    /\ IF now
       THEN StartCollab /\ UNCHANGED pending
       ELSE pending' = TRUE /\ UNCHANGED <<collab, member, hurt>>
    /\ UNCHANGED <<files, room, seeded, due, path, changed, qtText, offered, jsReady, down,
                   up, pageVars, shows, mine>>

\* mutation: the page is not waited for
ToggleOnAtOnce == ToggleOnIf(TRUE)

\* start_collab is deferred until the page is connected.
ToggleOn == ToggleOnIf(jsReady)

ToggleOff ==
    /\ collab
    /\ StopCollab
    /\ Emit(<<Stopped>>)
    /\ UNCHANGED <<files, room, seeded, path, changed, qtText, offered, pending, jsReady, up,
                   pageVars, acts, history>>

\* The app offers a target, or takes it away as the hub is gone.
Retarget ==
    /\ offered' = ~offered
    /\ IF collab THEN StopCollab /\ Emit(<<Stopped>>) ELSE UNCHANGED <<collab, member, due, down>>
    /\ UNCHANGED <<files, room, seeded, path, changed, qtText, pending, jsReady, up, pageVars,
                   acts, history>>

\* The page has come to rest: nothing unsaved, nothing under way.
AtRest ==
    /\ ~active /\ ~collab /\ text = lastSynced /\ ~saveTimer /\ up = <<>>
    /\ \A i \in DOMAIN down : down[i].type = "doc"

\* open: another file in the same view.  The target goes first; the app that
\* opens a project's document offers the README's room again, the file dialog
\* does not.  A file that cannot be read is shown as an empty text.
OpenTelling(told) ==
    /\ Budget
    /\ path' \in Files \ {path}
    /\ changed' = FALSE
    /\ qtText' \in {files[path'], {}}
    /\ offered' \in BOOLEAN
    /\ IF collab THEN StopCollab ELSE UNCHANGED <<collab, member, due>>
    /\ Emit((IF collab THEN <<Stopped>> ELSE <<>>)
            \o (IF told THEN <<Doc(path', qtText')>> ELSE <<>>))
    /\ hurt' = hurt \cup (IF jsReady /\ ~AtRest THEN {"switched"} ELSE {})
                    \cup (IF qtText' # files[path'] THEN {"unread"} ELSE {})
    /\ UNCHANGED <<files, room, seeded, pending, jsReady, up, pageVars, shows, mine>>

\* mutation: the page is not told of the other document
OpenUntold == OpenTelling(FALSE)

Open == OpenTelling(TRUE)

\* The file is replaced by an external editor.
Replace ==
    /\ Budget
    /\ \E new \in Changes(files[path], path) :
        /\ files' = [files EXCEPT ![path] = new]
        /\ mine' = mine \ (files[path] \ new)

\* The watcher has an event, whoever wrote the file; the page is told `read`.
Reading(read) ==
    /\ changed
    /\ qtText' = read
    /\ Emit(<<Doc(path, read)>>)
    /\ UNCHANGED <<room, seeded, member, due, path, collab, offered, pending, jsReady, up,
                   pageVars, shows>>

ReadAgain == Reading(files[path]) /\ changed' = FALSE /\ UNCHANGED <<files, acts, mine, hurt>>

\* It is unreadable, or gone; another event follows if it was just being replaced.
ReadNothing ==
    /\ Reading({})
    /\ Budget
    /\ changed' \in BOOLEAN
    /\ hurt' = hurt \cup {"unread"}
    /\ UNCHANGED <<files, mine>>

\* It is replaced after it was read and before its time is looked at, so that
\* the event of that is ignored.
ReadBefore ==
    /\ Reading(files[path])
    /\ Replace
    /\ changed' = FALSE
    /\ hurt' = hurt \cup {"unseen"}

Reload == ReadAgain \/ ReadNothing \/ ReadBefore

Handling(type) == up # <<>> /\ Head(up).type = type /\ up' = Tail(up)

\* The page is connected: what was deferred begins, the text is sent again.
HandleReady ==
    /\ Handling("ready")
    /\ jsReady' = TRUE /\ pending' = FALSE
    /\ down' = Append(down, Doc(path, qtText))
    /\ IF pending /\ offered /\ ~collab
       THEN StartCollab
       ELSE UNCHANGED <<collab, member, hurt>>
    /\ UNCHANGED <<files, room, seeded, due, path, changed, qtText, offered, pageVars, acts,
                   shows, mine>>

\* _write: the text goes to the file that is open now.
Write ==
    /\ Handling("save")
    /\ files' = [files EXCEPT ![path] = Head(up).text]
    /\ changed' = TRUE
    /\ UNCHANGED <<room, seeded, member, due, path, qtText, collab, offered, pending, jsReady,
                   down, pageVars, acts, history>>

\* The text cannot be written, which nobody is told.
WriteFails ==
    /\ Handling("save")
    /\ Budget
    /\ hurt' = hurt \cup {"unsaved"}
    /\ UNCHANGED <<diskVars, qtVars, down, pageVars, shows, mine>>

HandleSave == Write \/ WriteFails

\* The page's Y.Doc is that of the present session.
InSession == active /\ \A i \in DOMAIN down : down[i].type \notin {"stopped", "seed"}

\* _collab_send_update: on to the hub, if the view still collaborates.
HandleUpdate ==
    /\ Handling("update")
    /\ IF collab
       THEN /\ room' = Apply(room, Head(up)) /\ seeded' = TRUE
            /\ hurt' = hurt \cup (IF InSession THEN {} ELSE {"straggler"})
       ELSE UNCHANGED <<room, seeded, hurt>>
    /\ UNCHANGED <<files, member, due, qtVars, down, pageVars, acts, shows, mine>>

----------------------------------------------------------------------------
(* Others *)

\* An external editor changes the open file.
ExternalEdit ==
    /\ Replace
    /\ changed' = TRUE
    /\ UNCHANGED <<room, seeded, member, due, path, qtText, collab, offered, pending, jsReady,
                   down, up, pageVars, shows, hurt>>

\* The hub lets the view in, which seeds a cold room; any other room's text
\* follows, with what peers put in meanwhile.
HubAdmits ==
    /\ member = "asked" /\ member' = "in"
    /\ due' = IF seeded THEN {room} ELSE {}
    /\ Emit(<<Seed(~seeded, IF seeded THEN {} ELSE {<<Readme, 0>>})>>)
    /\ UNCHANGED <<files, room, seeded, qtVars, up, pageVars, acts, history>>

HubReplays ==
    /\ \E t \in due : Emit(<<Update({}, t)>>)
    /\ due' = {}
    /\ UNCHANGED <<files, room, seeded, member, qtVars, up, pageVars, acts, history>>

\* A peer adds to the shared text.
PeerEdit ==
    /\ seeded
    /\ Budget
    /\ LET new == {<<Readme, acts'>>} IN
        /\ room' = room \cup new
        /\ due' = {t \cup new : t \in due}
        /\ IF member = "in" /\ due = {} THEN Emit(<<Update({}, new)>>) ELSE UNCHANGED down
    /\ UNCHANGED <<files, seeded, member, qtVars, up, pageVars, history>>

----------------------------------------------------------------------------
PageStep ==
    SaveTimer \/ MaterialiseTimer
    \/ OfferDisk \/ TakeDisk \/ EnterCollab \/ ReceiveUpdate \/ LeaveCollab
QtStep == Reload \/ HandleReady \/ HandleSave \/ HandleUpdate
People ==
    UserEdits \/ ReloadFromDisk \/ ToggleOn \/ ToggleOff \/ Retarget \/ Open
    \/ ExternalEdit \/ PeerEdit

Next == PageStep \/ QtStep \/ HubAdmits \/ HubReplays \/ People

Spec == Init /\ [][Next]_vars

\* The page's and Qt's event loops run, and the hub answers; people may stop.
FairSpec ==
    /\ Spec
    /\ WF_vars(SaveTimer) /\ WF_vars(MaterialiseTimer)
    /\ WF_vars(OfferDisk \/ TakeDisk \/ EnterCollab \/ ReceiveUpdate \/ LeaveCollab)
    /\ WF_vars(Reload) /\ WF_vars(HandleReady \/ HandleSave \/ HandleUpdate)
    /\ WF_vars(HubAdmits) /\ WF_vars(HubReplays)

----------------------------------------------------------------------------
(* Properties *)

Messages ==
    [type : {"doc"}, text : Texts, of : Files]
    \cup [type : {"seed"}, should : BOOLEAN, text : Texts]
    \cup [type : {"update"}, add : Texts, del : Texts]
    \cup {Stopped, Ready} \cup [type : {"save"}, text : Texts]

\* Every variable has its type; only a view that collaborates has a room's
\* seat, and only a connected page an editor.
TypeOK ==
    /\ files \in [Files -> Texts] /\ room \in Texts /\ seeded \in BOOLEAN
    /\ member \in {"out", "asked", "in"} /\ due \in SUBSET Texts
    /\ path \in Files /\ qtText \in Texts
    /\ changed \in BOOLEAN /\ collab \in BOOLEAN /\ offered \in BOOLEAN
    /\ pending \in BOOLEAN /\ jsReady \in BOOLEAN
    /\ down \in Seq(Messages) /\ up \in Seq(Messages)
    /\ text \in Texts /\ lastSynced \in Texts /\ diskText \in SUBSET Texts
    /\ hasEditor \in BOOLEAN /\ saveTimer \in BOOLEAN /\ active \in BOOLEAN
    /\ ready \in BOOLEAN /\ matTimer \in BOOLEAN
    /\ acts \in 0..MaxActs
    /\ shows \in Files /\ mine \in Texts /\ hurt \in SUBSET Mishaps
    /\ collab <=> member # "out"
    /\ due # {} => member = "in"
    /\ jsReady \/ ~hasEditor

\* Nothing is under way between the halves, the file, the timers and the hub.
Quiet ==
    /\ jsReady /\ down = <<>> /\ up = <<>> /\ ~changed
    /\ ~saveTimer /\ ~matTimer /\ member # "asked" /\ due = {}

\* The file is the truth: once nothing is under way, a solo view shows what the
\* file holds, and a live one shows the room's text, which the file holds too
\* unless its other text is on offer.  Left out are a write or a read that
\* failed, a replacement that was not seen, and four of the other mishaps.
FileIsTruth ==
    Quiet /\ hurt \cap {"undone", "unwritten", "doubled", "straggler",
                        "unsaved", "unread", "unseen"} = {} =>
        IF active
        THEN ready => /\ text = room
                      /\ files[path] # text => diskText = {files[path]}
        ELSE text = files[path]

\* What the user has typed is in the editor, in the file, or on its way there,
\* unless one of the mishaps has happened: among them that a save was not
\* written, or that the file was shown as empty because it could not be read.
TypedKept ==
    hurt = {} => \A e \in mine :
        \/ e \in text \/ e \in files[e[1]]
        \/ \E i \in DOMAIN up : up[i].type = "save" /\ e \in up[i].text

\* A document holds only what was meant for it.
OwnText == \A f \in Files : \A e \in files[f] : e[1] = f

\* ... as long as documents are only switched when the page is at rest, and
\* only the README is collaborated on.
OwnTextAtRest == hurt \cap {"switched", "wrongroom"} = {} => OwnText

\* Saves and their echoes die out: once people stop, page, file and room come
\* to rest, and page and app agree on whether the view collaborates.
ComesToRest == <>[](Quiet /\ (active <=> collab))
=============================================================================
