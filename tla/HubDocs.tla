------------------------------ MODULE HubDocs ------------------------------
(***************************************************************************)
(* One document of the live collaborative editor: the hub's room, which    *)
(* relays opaque Yjs updates and keeps a baseline and a log for those who  *)
(* join later, and the editors of its clients.                             *)
(*                                                                         *)
(* The hub's loop runs one handler at a time.  A client has one session at *)
(* a time; what it sends while it has none waits in its out-queue, what a  *)
(* dying session had already taken from that queue may be lost.            *)
(*                                                                         *)
(* A Yjs update is a set of edits <<author, n>>; every Y.Doc has an author *)
(* of its own, and an edit shows only when all the earlier edits of its    *)
(* author have been received.                                              *)
(***************************************************************************)
EXTENDS Naturals, Sequences, SequencesExt, FiniteSets

CONSTANTS Clients,     \* client applications with the document in a view
          Sessions,    \* session identities (bounds the number of reconnects)
          MaxOpens,    \* bound on how often a view starts collaborating
          MaxEdits,    \* bound on the edits of one Y.Doc
          Compaction,  \* whether clients send compactions; the app's never do
          Orig,        \* the text of the file before anyone collaborated
          HubHasFile,  \* whether the hub's project folder already has the file
          None

ASSUME DocsAssumption ==
    /\ MaxOpens \in Nat \ {0} /\ MaxEdits \in Nat \ {0}
    /\ Compaction \in BOOLEAN /\ HubHasFile \in BOOLEAN
    /\ None \notin Sessions /\ IsFiniteSet(Clients)

VARIABLES
    \* client application
    open,       \* client -> its view collaborates (HubDocSync._joined)
    ydoc,       \* client -> author of its Y.Doc, 0 while it has none
    have,       \* client -> edits its Y.Doc has received
    ready,      \* client -> collabReady: it has the initial state
    dirty,      \* client -> the materialise timer is running
    local,      \* client -> text of its own .md file
    out,        \* client -> messages not yet taken by a session
    current,    \* client -> its session, or None while backing off
    seedText,   \* author -> text its seed inserted
    born,       \* number of Y.Docs created so far
    opens,      \* number of times a view was opened (model bound)
    \* sessions
    clientOf, link, up, down,
    \* hub
    hubUp,      \* sessions whose handler runs
    members,    \* sessions in the room, in the order they joined
    leader, seeder, seeded, baseline, log,
    blob,       \* the .ycrdt file: the last persisted baseline
    md,         \* text of the hub's .md file
    \* history
    hurt,       \* what went wrong so far, see Mishaps
    handover    \* the .md was not written since the leader last changed

editorVars == <<open, ydoc, have, ready, dirty, local, seedText, born, opens>>
linkVars   == <<out, current, clientOf, link, up>>
roomVars   == <<members, leader, seeder, seeded, baseline, log, blob>>
vars == <<editorVars, linkVars, down, hubUp, roomVars, md, hurt, handover>>

Authors == 1..MaxOpens
Edits   == Authors \X (1..MaxEdits)

\* An update died with a session or a hub restart; the seeder left the room
\* before it seeded, or someone's edit came first; a view stopped collaborating
\* before it had the initial state; a compaction dropped entries it did not have.
Mishaps == {"lost", "cold", "early", "dropped"}

----------------------------------------------------------------------------
(* Yjs *)

\* The edits that show: those whose author's earlier edits are all there.
Integrated(es) == {e \in es : \A k \in 1..(e[2] - 1) : <<e[1], k>> \in es}

\* The first edit of an author that seeded puts in a whole text.
IsSeed(e) == e[2] = 1 /\ seedText[e[1]] # {}

\* A text is a set: the original text, and the edits made since.
Text(es) == UNION {IF IsSeed(e) THEN seedText[e[1]] ELSE {e} : e \in Integrated(es)}

----------------------------------------------------------------------------
(* Messages *)

Join           == [type |-> "join"]
Leave          == [type |-> "leave"]
Update(es)     == [type |-> "update", edits |-> es, compaction |-> FALSE]
Compacted(es)  == [type |-> "update", edits |-> es, compaction |-> TRUE]
Snapshot(t)    == [type |-> "snapshot", text |-> t]
Seed(should, t) == [type |-> "seed", should |-> should, text |-> t]

\* Client c sends ms: over its session, or into the out-queue.
Send(c, ms) ==
    IF current[c] = None
    THEN /\ out' = [out EXCEPT ![c] = @ \o ms]
         /\ UNCHANGED up
    ELSE /\ up' = [up EXCEPT ![current[c]] = @ \o ms]
         /\ UNCHANGED out

\* Updates that go down with the messages of q.
LostIn(q) == IF \E i \in DOMAIN q : q[i].type = "update" THEN {"lost"} ELSE {}

Init ==
    /\ open = [c \in Clients |-> FALSE]
    /\ ydoc = [c \in Clients |-> 0]
    /\ have = [c \in Clients |-> {}]
    /\ ready = [c \in Clients |-> FALSE]
    /\ dirty = [c \in Clients |-> FALSE]
    /\ local = [c \in Clients |-> {Orig}]
    /\ out = [c \in Clients |-> <<>>]
    /\ current = [c \in Clients |-> None]
    /\ seedText = [a \in Authors |-> {}]
    /\ born = 0 /\ opens = 0
    /\ clientOf = [s \in Sessions |-> None]
    /\ link = [s \in Sessions |-> "idle"]
    /\ up = [s \in Sessions |-> <<>>]
    /\ down = [s \in Sessions |-> <<>>]
    /\ hubUp = {}
    /\ members = <<>> /\ leader = None /\ seeder = None
    /\ seeded = FALSE /\ baseline = {} /\ log = {} /\ blob = {}
    /\ md = IF HubHasFile THEN {Orig} ELSE {}
    /\ hurt = {} /\ handover = FALSE

----------------------------------------------------------------------------
(* Client: sessions *)

Idle == {s \in Sessions : link[s] = "idle"}
Unlinked == {c \in Clients : current[c] = None \/ link[current[c]] = "broken"}

\* A new session, on which the client sends first and what has been waiting.
Dial(c, s, first) ==
    /\ current[c] = None
    /\ s \in Idle
    /\ current' = [current EXCEPT ![c] = s]
    /\ clientOf' = [clientOf EXCEPT ![s] = c]
    /\ link' = [link EXCEPT ![s] = "up"]
    /\ up' = [up EXCEPT ![s] = first \o out[c]]
    /\ out' = [out EXCEPT ![c] = <<>>]
    /\ hubUp' = hubUp \cup {s}
    /\ UNCHANGED <<editorVars, down, roomVars, md, hurt, handover>>

\* mutation: open documents are not joined again
ConnectOnly(c, s) == Dial(c, s, <<>>)

\* _outgen joins the open document on every session.
Connect(c, s) == Dial(c, s, IF open[c] THEN <<Join>> ELSE <<>>)

\* The link dies silently, with what was on its way down (bounded so that
\* everyone can still reconnect).
Break(s) ==
    /\ link[s] = "up"
    /\ Cardinality(Idle) > Cardinality(Unlinked)
    /\ link' = [link EXCEPT ![s] = "broken"]
    /\ down' = [down EXCEPT ![s] = <<>>]
    /\ UNCHANGED <<editorVars, out, current, clientOf, up, hubUp, roomVars, md, hurt,
                   handover>>

\* The client gives its dead session up.  What the session had not taken from
\* the out-queue yet stays there for the next one.
Notice(c) ==
    /\ current[c] # None
    /\ link[current[c]] = "broken"
    /\ current' = [current EXCEPT ![c] = None]
    /\ LET s == current[c] IN
         \E k \in 0..Len(up[s]) :
            LET taken == SubSeq(up[s], 1, k) IN
            /\ out' = [out EXCEPT ![c] = SubSeq(up[s], k + 1, Len(up[s])) \o @]
            /\ IF s \in hubUp
               THEN up' = [up EXCEPT ![s] = taken] /\ UNCHANGED hurt
               ELSE up' = [up EXCEPT ![s] = <<>>] /\ hurt' = hurt \cup LostIn(taken)
    /\ UNCHANGED <<editorVars, clientOf, link, down, hubUp, roomVars, md, handover>>

----------------------------------------------------------------------------
(* Client: the view and its editor *)

Open(c) ==
    /\ ~open[c]
    /\ opens < MaxOpens
    /\ open' = [open EXCEPT ![c] = TRUE]
    /\ opens' = opens + 1
    /\ Send(c, <<Join>>)
    /\ UNCHANGED <<ydoc, have, ready, dirty, local, seedText, born, current, clientOf,
                   link, down, hubUp, roomVars, md, hurt, handover>>

\* leaveCollab: leave the room, save the editor's text, drop the Y.Doc.
Close(c) ==
    /\ open[c]
    /\ open' = [open EXCEPT ![c] = FALSE]
    /\ ydoc' = [ydoc EXCEPT ![c] = 0]
    /\ have' = [have EXCEPT ![c] = {}]
    /\ ready' = [ready EXCEPT ![c] = FALSE]
    /\ dirty' = [dirty EXCEPT ![c] = FALSE]
    /\ local' = IF ydoc[c] = 0 THEN local ELSE [local EXCEPT ![c] = Text(have[c])]
    /\ hurt' = IF ydoc[c] # 0 /\ ~ready[c] THEN hurt \cup {"early"} ELSE hurt
    /\ Send(c, <<Leave>>)
    /\ UNCHANGED <<seedText, born, opens, current, clientOf, link, down, hubUp, roomVars,
                   md, handover>>

OwnEdits(c) == {e \in have[c] : e[1] = ydoc[c]}

\* The user types.
Type(c) ==
    LET e == <<ydoc[c], Cardinality(OwnEdits(c)) + 1>> IN
    /\ ydoc[c] # 0
    /\ e \in Edits
    /\ have' = [have EXCEPT ![c] = @ \cup {e}]
    /\ dirty' = [dirty EXCEPT ![c] = TRUE]
    /\ Send(c, <<Update({e})>>)
    /\ UNCHANGED <<open, ydoc, ready, local, seedText, born, opens, current, clientOf,
                   link, down, hubUp, roomVars, md, hurt, handover>>

\* The materialise timer fires: with the initial state there, save the text
\* locally and send it to the hub.
MaterialiseIf(c, allowed) ==
    /\ dirty[c]
    /\ dirty' = [dirty EXCEPT ![c] = FALSE]
    /\ IF allowed
       THEN /\ local' = [local EXCEPT ![c] = Text(have[c])]
            /\ Send(c, <<Snapshot(Text(have[c]))>>)
       ELSE UNCHANGED <<local, out, up>>
    /\ UNCHANGED <<open, ydoc, have, ready, seedText, born, opens, current, clientOf, link,
                   down, hubUp, roomVars, md, hurt, handover>>

\* mutation: the text is saved before the initial state is there
MaterialiseEarly(c) == MaterialiseIf(c, TRUE)

Materialise(c) == MaterialiseIf(c, ready[c])

\* A client that compacts, as the hub's contract allows (bounded: once, and only
\* when nothing is on its way down).
Compact(c) ==
    /\ Compaction
    /\ ready[c] /\ have[c] # {}
    /\ current[c] # None
    /\ up[current[c]] = <<>> /\ \A s \in Sessions : down[s] = <<>>
    /\ have[c] # baseline
    /\ Send(c, <<Compacted(have[c])>>)
    /\ UNCHANGED <<editorVars, current, clientOf, link, down, hubUp, roomVars, md, hurt,
                   handover>>

\* The next message of the session arrives at the client.
Receiving(c, type) ==
    LET s == current[c] IN
    /\ s # None
    /\ link[s] = "up"
    /\ down[s] # <<>>
    /\ Head(down[s]).type = type
    /\ down' = [down EXCEPT ![s] = Tail(@)]
    /\ UNCHANGED <<open, local, opens, current, clientOf, link, hubUp, roomVars, md,
                   hurt, handover>>

\* enterCollab: an empty Y.Doc, filled at once by the peer that has to seed with
\* the text of its view or, if that is empty, with the hub's.  A view that
\* collaborates already ignores the message.
ReceiveSeed(c) ==
    /\ Receiving(c, "seed")
    /\ LET m == Head(down[current[c]])
           a == born + 1
           t == IF local[c] # {} THEN local[c] ELSE m.text
           seeds == m.should /\ t # {}
       IN
       IF ~open[c] \/ ydoc[c] # 0
       THEN UNCHANGED <<ydoc, have, ready, dirty, seedText, born, out, up>>
       ELSE /\ born' = a
            /\ ydoc' = [ydoc EXCEPT ![c] = a]
            /\ have' = [have EXCEPT ![c] = IF seeds THEN {<<a, 1>>} ELSE {}]
            /\ seedText' = [seedText EXCEPT ![a] = IF seeds THEN t ELSE {}]
            /\ ready' = [ready EXCEPT ![c] = m.should]
            /\ dirty' = [dirty EXCEPT ![c] = local[c] # {} \/ seeds]
            /\ IF seeds THEN Send(c, <<Update({<<a, 1>>})>>)
                        ELSE UNCHANGED <<out, up>>

\* Y.applyUpdate, for a view that has a Y.Doc; saves: a change starts the timer.
Apply(c, saves) ==
    /\ Receiving(c, "update")
    /\ LET es == have[c] \cup Head(down[current[c]]).edits
           shows == Integrated(es) # Integrated(have[c])
       IN
       IF ~open[c] \/ ydoc[c] = 0
       THEN UNCHANGED <<have, ready, dirty>>
       ELSE /\ have' = [have EXCEPT ![c] = es]
            /\ ready' = [ready EXCEPT ![c] = @ \/ shows]
            /\ dirty' = [dirty EXCEPT ![c] = @ \/ (shows /\ saves)]
    /\ UNCHANGED <<ydoc, seedText, born, out, up>>

\* mutation: only local edits are saved
ReceiveUpdateOnly(c) == Apply(c, FALSE)

ReceiveUpdate(c) == Apply(c, TRUE)

----------------------------------------------------------------------------
(* Hub: the room *)

IsMember(s) == Contains(members, s)

Remaining(s) == RemoveAt(members, CHOOSE i \in DOMAIN members : members[i] = s)

\* Put m into the streams of the sessions ss; those of dead links lead nowhere.
Post(ss, m) == [s \in Sessions |-> IF s \in ss /\ link[s] = "up"
                                   THEN Append(down[s], m) ELSE down[s]]

Reading(s, type) ==
    /\ s \in hubUp
    /\ up[s] # <<>>
    /\ Head(up[s]).type = type
    /\ up' = [up EXCEPT ![s] = Tail(@)]
    /\ UNCHANGED <<editorVars, out, current, clientOf, link, hubUp>>

IsCold == ~seeded /\ seeder = None /\ log = {}

\* mutation: joiners get the baseline without the log
ReplayBaseline == IF baseline = {} THEN <<>> ELSE <<Update(baseline)>>

Replay == IF baseline \cup log = {} THEN <<>> ELSE <<Update(baseline \cup log)>>

Welcome(s) ==
    down' = IF link[s] # "up" THEN down
            ELSE [down EXCEPT ![s] = @ \o IF IsCold THEN <<Seed(TRUE, md)>>
                                           ELSE <<Seed(FALSE, {})>> \o Replay]

\* mutation: the claim of the seeder is missing
JoinUnclaimed(s) ==
    /\ members' = Append(members, s)
    /\ leader' = IF leader = None THEN s ELSE leader
    /\ Welcome(s)
    /\ UNCHANGED seeder

\* mutation: the seeder is remembered by client, not by membership
JoinClient(s) ==
    /\ members' = Append(members, s)
    /\ leader' = IF leader = None THEN s ELSE leader
    /\ seeder' = IF IsCold THEN clientOf[s] ELSE seeder
    /\ Welcome(s)

\* doc_join: check for a cold room and claim it in one step, else replay.
DocJoin(s) ==
    /\ members' = Append(members, s)
    /\ leader' = IF leader = None THEN s ELSE leader
    /\ seeder' = IF IsCold THEN s ELSE seeder
    /\ Welcome(s)

HandleJoin(s) ==
    /\ Reading(s, "join")
    /\ IF IsMember(s) THEN UNCHANGED <<members, leader, seeder, down>> ELSE DocJoin(s)
    /\ UNCHANGED <<seeded, baseline, log, blob, md, hurt, handover>>

\* Session s leaves the room, and next is the new leader if s led it.  A cold room
\* gets a new seeder, the member that joined first.  bad: mishaps of the caller.
LeaveTo(s, next, bad) ==
    LET rest == Remaining(s)
        cold == seeder = s /\ ~seeded
    IN
    /\ members' = rest
    /\ seeder' = IF seeder # s THEN seeder
                 ELSE IF cold /\ rest # <<>> THEN Head(rest) ELSE None
    /\ leader' = IF leader = s THEN next ELSE leader
    /\ down' = IF cold /\ rest # <<>> THEN Post({Head(rest)}, Seed(TRUE, md)) ELSE down
    /\ hurt' = hurt \cup bad \cup (IF cold THEN {"cold"} ELSE {})
    /\ handover' = (handover \/ leader = s)

\* mutation: the youngest member is promoted
DocLeaveToLast(s, bad) ==
    LeaveTo(s, IF Remaining(s) = <<>> THEN None ELSE Last(Remaining(s)), bad)

\* doc_leave: the member that joined first of those left is promoted.
DocLeave(s, bad) ==
    LeaveTo(s, IF Remaining(s) = <<>> THEN None ELSE Head(Remaining(s)), bad)

HandleLeave(s) ==
    /\ Reading(s, "leave")
    /\ IF IsMember(s) THEN DocLeave(s, {})
       ELSE UNCHANGED <<members, leader, seeder, down, hurt, handover>>
    /\ UNCHANGED <<seeded, baseline, log, blob, md>>

\* doc_update: a compaction of the leader or seeder replaces baseline and log,
\* the first update of the seeder is the baseline, any other one is logged; all
\* other members get it.  Baselines are persisted, the log is not.
HandleUpdate(s) ==
    /\ Reading(s, "update")
    /\ LET m == Head(up[s])
           first == s = seeder /\ ~seeded
       IN
       IF ~IsMember(s)
       THEN /\ hurt' = hurt \cup {"lost"}
            /\ UNCHANGED <<seeded, baseline, log, blob, down>>
       ELSE /\ CASE m.compaction /\ s \in {leader, seeder} ->
                      /\ baseline' = m.edits /\ log' = {} /\ seeded' = TRUE
                      /\ blob' = m.edits
                      /\ hurt' = IF (baseline \cup log) \subseteq m.edits THEN hurt
                                 ELSE hurt \cup {"dropped"}
                 [] m.compaction /\ s \notin {leader, seeder} ->
                      UNCHANGED <<baseline, log, seeded, blob, hurt>>
                 [] ~m.compaction /\ first ->
                      /\ baseline' = m.edits /\ seeded' = TRUE /\ blob' = m.edits
                      /\ UNCHANGED <<log, hurt>>
                 [] OTHER ->
                      /\ log' = log \cup m.edits
                      /\ hurt' = IF seeded \/ \E e \in m.edits : IsSeed(e)
                                 THEN hurt ELSE hurt \cup {"cold"}
                      /\ UNCHANGED <<baseline, seeded, blob>>
            /\ down' = Post(Range(members) \ {s}, Update(m.edits))
    /\ UNCHANGED <<members, leader, seeder, md, handover>>

\* doc_snapshot: the leader's text becomes the .md file, anyone else's is dropped.
HandleSnapshot(s) ==
    /\ Reading(s, "snapshot")
    /\ IF leader = s
       THEN md' = Head(up[s]).text /\ handover' = FALSE
       ELSE UNCHANGED <<md, handover>>
    /\ UNCHANGED <<roomVars, down, hurt>>

\* The end of a session: leave the room.  What its client has sent and the hub
\* has not read is lost, once the client has given the session up.
EndSession(s) ==
    LET over == current[clientOf[s]] # s
        lost == IF over THEN LostIn(up[s]) ELSE {}
    IN
    /\ s \in hubUp
    /\ link[s] = "broken"
    /\ hubUp' = hubUp \ {s}
    /\ up' = IF over THEN [up EXCEPT ![s] = <<>>] ELSE up
    /\ IF IsMember(s) THEN DocLeave(s, lost)
       ELSE /\ hurt' = hurt \cup lost
            /\ UNCHANGED <<members, leader, seeder, down, handover>>
    /\ UNCHANGED <<editorVars, out, current, clientOf, link, seeded, baseline, log, blob, md>>

\* The hub restarts: rooms are in memory only and come back, on the next join,
\* from the persisted baseline (bounded so that everyone can reconnect).
HubRestart ==
    LET over == {s \in hubUp : current[clientOf[s]] # s} IN
    /\ hubUp # {}
    /\ Cardinality(Idle) >= Cardinality(Clients)
    /\ hubUp' = {}
    /\ link' = [s \in Sessions |-> IF s \in hubUp THEN "broken" ELSE link[s]]
    /\ up' = [s \in Sessions |-> IF s \in over THEN <<>> ELSE up[s]]
    /\ down' = [s \in Sessions |-> <<>>]
    /\ members' = <<>> /\ leader' = None /\ seeder' = None
    /\ baseline' = blob /\ seeded' = (blob # {}) /\ log' = {}
    /\ hurt' = hurt \cup (UNION {LostIn(up[s]) : s \in over})
                    \cup (IF log # {} THEN {"lost"} ELSE {})
                    \cup (IF seeder # None /\ ~seeded THEN {"cold"} ELSE {})
    /\ handover' = TRUE
    /\ UNCHANGED <<editorVars, out, current, clientOf, blob, md>>

----------------------------------------------------------------------------
Receive(c)  == ReceiveSeed(c) \/ ReceiveUpdate(c)
HubReads(s) == HandleJoin(s) \/ HandleLeave(s) \/ HandleUpdate(s) \/ HandleSnapshot(s)

Next ==
    \/ \E c \in Clients : \/ Notice(c) \/ Open(c) \/ Close(c) \/ Type(c)
                           \/ Materialise(c) \/ Compact(c) \/ Receive(c)
                           \/ \E s \in Sessions : Connect(c, s)
    \/ \E s \in Sessions : Break(s) \/ HubReads(s) \/ EndSession(s)
    \/ HubRestart

Spec == Init /\ [][Next]_vars

(* Clients and hub keep reading, keepalive finds dead links, an            *)
(* unconnected client keeps dialling.                                      *)
Fairness ==
    /\ \A c \in Clients : /\ WF_vars(Receive(c)) /\ WF_vars(Notice(c))
                           /\ WF_vars(\E s \in Sessions : Connect(c, s))
    /\ \A s \in Sessions : WF_vars(HubReads(s)) /\ WF_vars(EndSession(s))

FairSpec == Spec /\ Fairness
----------------------------------------------------------------------------
Texts   == SUBSET ({Orig} \cup Edits)
UpMsgs  == {Join, Leave} \cup [type : {"snapshot"}, text : Texts]
           \cup [type : {"update"}, edits : SUBSET Edits, compaction : BOOLEAN]
DownMsgs == [type : {"seed"}, should : BOOLEAN, text : Texts]
            \cup [type : {"update"}, edits : SUBSET Edits, compaction : BOOLEAN]

EditorTypes ==
    /\ open \in [Clients -> BOOLEAN] /\ ready \in [Clients -> BOOLEAN]
    /\ dirty \in [Clients -> BOOLEAN]
    /\ ydoc \in [Clients -> 0..MaxOpens] /\ born \in 0..MaxOpens /\ opens \in 0..MaxOpens
    /\ have \in [Clients -> SUBSET Edits]
    /\ local \in [Clients -> Texts] /\ seedText \in [Authors -> Texts]

SessionTypes ==
    /\ out \in [Clients -> Seq(UpMsgs)] /\ up \in [Sessions -> Seq(UpMsgs)]
    /\ down \in [Sessions -> Seq(DownMsgs)]
    /\ current \in [Clients -> Sessions \cup {None}]
    /\ clientOf \in [Sessions -> Clients \cup {None}]
    /\ link \in [Sessions -> {"idle", "up", "broken"}] /\ hubUp \subseteq Sessions

RoomTypes ==
    /\ members \in Seq(Sessions)
    /\ leader \in Sessions \cup {None} /\ seeder \in Sessions \cup {None}
    /\ seeded \in BOOLEAN /\ handover \in BOOLEAN
    /\ baseline \subseteq Edits /\ log \subseteq Edits /\ blob \subseteq Edits
    /\ md \in Texts /\ hurt \subseteq Mishaps

TypeOK == EditorTypes /\ SessionTypes /\ RoomTypes

Room == baseline \cup log

\* The room is led and seeded by somebody who is in it: members are running
\* sessions, nobody twice; the leader, the only writer of the .md, is the member
\* that joined first; and while nothing has been written anyone who waits for the
\* initial state waits for a seeder in the room.
RoomInOrder ==
    /\ IsInjective(members)
    /\ Range(members) \subseteq hubUp
    /\ leader = (IF members = <<>> THEN None ELSE Head(members))
    /\ seeder # None => IsMember(seeder)
    /\ (members # <<>> /\ Room = {}) => seeder # None

\* No two clients have put the file's text into the shared document.
OneSeed == \A es \in {Room} \cup {have[c] : c \in Clients} :
              Cardinality({e \in es : IsSeed(e)}) <= 1

\* The file's text enters the shared document once, however joins, leaves and
\* reconnects interleave: two clients that seeded would double it for everyone.
\* doc_join's check and claim is one step; this is as long as every seeder lives
\* to seed and no update is lost.
SeededOnce == hurt \cap {"lost", "cold"} = {} => OneSeed

\* Client c is in the room over a live session with nothing on its way.
InTouch(c) ==
    LET s == current[c] IN
    /\ open[c] /\ ydoc[c] # 0
    /\ s # None /\ link[s] = "up" /\ IsMember(s)
    /\ up[s] = <<>> /\ down[s] = <<>>

Settled ==
    /\ \A c \in Clients : open[c] => InTouch(c)
    /\ \A s \in hubUp : current[clientOf[s]] = s /\ up[s] = <<>>

\* Once everything has been delivered all editors show the same text, the one
\* that a late joiner is given, provided that no update was lost on the way.
Converges ==
    Settled /\ hurt \cap {"lost", "dropped"} = {} =>
       \A c \in Clients : open[c] => Text(have[c]) = Text(Room)

\* ... and provided nothing.
SelfHeals == Settled => \A c \in Clients : open[c] => Text(have[c]) = Text(Room)

\* The .md on the hub ends up with the text of the editors, unless the room
\* changed its leader since anyone last saved.
FileFollows ==
    (/\ Settled /\ hurt = {} /\ ~handover /\ members # <<>>
     /\ \A c \in Clients : ~dirty[c])
    => md = Text(Room)

\* Collaborating never takes away the text that a file had before: not the hub's
\* file, nor a client's.
HubTextSurvives   == HubHasFile => Orig \in md
LocalTextSurvives == \A c \in Clients : Orig \in local[c]

\* ... as long as every seeder seeds before others edit, every view that stops has
\* had its initial state, and nothing is lost.
TextSurvives == hurt = {} => HubTextSurvives /\ LocalTextSurvives

\* The hub's file survives a seeder that leaves a cold room (core.py re-designates
\* the member that joined first, which is sent the file's text to seed with).
ColdRoomSeeded == hurt \subseteq {"cold"} => HubTextSurvives

\* A view that starts collaborating gets a document to edit, whatever happens to
\* its sessions, to the hub and to the peer that was asked to seed.
ViewsEnter == \A c \in Clients : open[c] ~> (ydoc[c] # 0 \/ ~open[c])
=============================================================================
