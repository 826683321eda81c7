------------------------------ MODULE HubTags ------------------------------
(***************************************************************************)
(* Tags of the timeline, merged by id with the last write winning: every   *)
(* client's MarkerModel, its HubTagSync, which publishes what changed here *)
(* and watches the hub, and the hub's tag store with its delayed write to  *)
(* disk.                                                                   *)
(*                                                                         *)
(* The GUI thread changes tags and merges incoming ones, the sync's loop   *)
(* sends, the hub's loop runs one handler at a time; a send that was       *)
(* scheduled or is under way can be overtaken by any other.                *)
(*                                                                         *)
(* A tag's content is its last writer: writer and version tell two         *)
(* contents apart.  Tags are independent, so what a client is sent is kept *)
(* as one queue for each tag.                                              *)
(***************************************************************************)
EXTENDS Naturals, Sequences

CONSTANTS Clients, Tags,
          MaxVersion,   \* bound: clients write no version above this one
          MaxTrouble,   \* bound on breaks, failed sends, restarts and detaches
          Troubles,     \* those that happen: subset of Kinds
          Clashing,     \* bound: FALSE if no client writes a version that is there
          None

Kinds == {"break", "fail", "restart", "detach"}

ASSUME TagsAssumption ==
    /\ MaxVersion \in Nat /\ MaxTrouble \in Nat
    /\ Troubles \subseteq Kinds
    /\ Clashing \in BOOLEAN
    /\ None \notin Clients

VARIABLES
    \* client
    copy,        \* client -> its MarkerModel
    phase,       \* client -> state of its tag sync
    pending,     \* client -> what it publishes again on every connect
    sends,       \* client -> requests scheduled on its sync's loop or under way
    replay,      \* client -> what _replay has still to publish
    events,      \* client -> tag -> incoming, from the stream to the GUI queue
    \* hub
    hub, disk, savePending,
    \* history
    issued,      \* tag -> versions somebody wrote
    clash,       \* tags of which a version was written twice
    failed,      \* client -> tags the hub may lack although the client has stayed
                 \* connected: not sent, or forgotten by a restart it missed
    spent        \* troubles so far (model bound)

clientVars  == <<copy, phase, pending, sends, replay, failed>>
hubVars     == <<hub, disk, savePending>>
historyVars == <<issued, clash>>
vars == <<clientVars, events, hubVars, historyVars, spent>>

Tag  == [version : Nat, deleted : BOOLEAN, by : Clients \cup {None}]
Send == [id : Tags, tag : Tag]

\* No tag of this id: every tag that was written has a higher version.
Absent == [version |-> 0, deleted |-> FALSE, by |-> None]

\* What the views show of a tag.
Shown(tag) == IF tag.deleted THEN Absent ELSE tag

\* The sync has a stub to send with.
Connected(c) == phase[c] \in {"replaying", "watching"}

Init ==
    /\ copy = [c \in Clients |-> [t \in Tags |-> Absent]]
    /\ phase = [c \in Clients |-> "detached"]
    /\ pending = [c \in Clients |-> [t \in Tags |-> Absent]]
    /\ sends = [c \in Clients |-> {}]
    /\ replay = [c \in Clients |-> {}]
    /\ events = [c \in Clients |-> [t \in Tags |-> <<>>]]
    /\ hub = [t \in Tags |-> Absent]
    /\ disk = [t \in Tags |-> Absent]
    /\ savePending = FALSE
    /\ issued = [t \in Tags |-> {}]
    /\ clash = {}
    /\ failed = [c \in Clients |-> {}]
    /\ spent = 0

\* The merge rule of both sides: a newer version wins, of two equal versions
\* the incoming one if either is a tombstone.
Wins(new, cur) ==
    \/ new.version > cur.version
    \/ new.version = cur.version /\ (new.deleted \/ cur.deleted)

----------------------------------------------------------------------------
(* MarkerModel: the GUI thread *)

\* Somebody writes version n of tag t.
Issue(t, n) ==
    /\ issued' = [issued EXCEPT ![t] = @ \cup {n}]
    /\ clash' = IF n \in issued[t] THEN clash \cup {t} ELSE clash

\* The tag as client c changes it.
Bump(tag, deleted, c) == [version |-> tag.version + 1, deleted |-> deleted, by |-> c]

\* A change made here: stored, and handed to the tag sync if there is one.
Local(c, t, tag) ==
    /\ Clashing \/ tag.version \notin issued[t]
    /\ copy' = [copy EXCEPT ![c][t] = tag]
    /\ Issue(t, tag.version)
    /\ IF phase[c] = "detached"
       THEN UNCHANGED <<pending, sends>>
       ELSE /\ pending' = [pending EXCEPT ![c][t] = tag]
            /\ sends' = [sends EXCEPT ![c] = @ \cup {[id |-> t, tag |-> tag]}]
    /\ UNCHANGED <<phase, replay, failed, events, hubVars, spent>>

\* A new tag; its id is fresh, so nobody else ever made one.
Add(c, t) ==
    /\ issued[t] = {}
    /\ MaxVersion > 0
    /\ Local(c, t, Bump(Absent, FALSE, c))

\* Edited, moved, or filed under a project: of a tombstone as well, when the
\* dialog was open before the tag was deleted elsewhere.
Edit(c, t) ==
    /\ copy[c][t].version \in 1..(MaxVersion - 1)
    /\ Local(c, t, Bump(copy[c][t], copy[c][t].deleted, c))

RemoveTag(c, t) ==
    /\ copy[c][t].version \in 1..(MaxVersion - 1)
    /\ ~copy[c][t].deleted
    /\ Local(c, t, Bump(copy[c][t], TRUE, c))

UpsertIf(c, t, wins) ==
    /\ events[c][t] # <<>>
    /\ events' = [events EXCEPT ![c][t] = Tail(@)]
    /\ copy' = [copy EXCEPT ![c][t] = IF wins THEN Head(events[c][t]) ELSE @]
    /\ UNCHANGED <<phase, pending, sends, replay, failed, hubVars, historyVars, spent>>

\* mutation: what comes from the hub is taken as it is
UpsertAny(c, t) == UpsertIf(c, t, TRUE)
Upsert(c, t) == UpsertIf(c, t, Wins(Head(events[c][t]), copy[c][t]))

----------------------------------------------------------------------------
(* HubTagSync: connecting *)

\* HubController attaches to a hub: every tag of the model is published.
Attach(c) ==
    /\ phase[c] = "detached"
    /\ phase' = [phase EXCEPT ![c] = "off"]
    /\ pending' = [pending EXCEPT ![c] = copy[c]]
    /\ sends' = [sends EXCEPT ![c] = {[id |-> t, tag |-> copy[c][t]] :
                                      t \in {u \in Tags : copy[c][u] # Absent}}]
    /\ UNCHANGED <<copy, replay, failed, events, hubVars, historyVars, spent>>

Spend(kind) ==
    /\ kind \in Troubles
    /\ spent < MaxTrouble
    /\ spent' = spent + 1

\* mutation: a half-done replay is carried into the next session
EndSessionOnly(c) ==
    /\ events' = [events EXCEPT ![c] = [t \in Tags |-> <<>>]]
    /\ UNCHANGED replay

\* A session ends.  What the stream had not delivered is gone; what it had
\* delivered the GUI thread merges first, as merging depends on nothing else.
EndSession(c) ==
    /\ replay' = [replay EXCEPT ![c] = {}]
    /\ events' = [events EXCEPT ![c] = [t \in Tags |-> <<>>]]

Detach(c) ==
    /\ phase[c] # "detached"
    /\ Spend("detach")
    /\ phase' = [phase EXCEPT ![c] = "detached"]
    /\ EndSession(c)
    /\ pending' = [pending EXCEPT ![c] = [t \in Tags |-> Absent]]
    /\ sends' = [sends EXCEPT ![c] = {}]
    /\ failed' = [failed EXCEPT ![c] = {}]
    /\ UNCHANGED <<copy, hubVars, historyVars>>

Break(c) ==
    /\ Connected(c)
    /\ Spend("break")
    /\ phase' = [phase EXCEPT ![c] = "off"]
    /\ EndSession(c)
    /\ UNCHANGED <<copy, pending, sends, failed, hubVars, historyVars>>

\* A session starts: the stub is set, then what is pending is taken for replay.
ConnectWith(c, taken) ==
    /\ phase[c] = "off"
    /\ phase' = [phase EXCEPT ![c] = "replaying"]
    /\ replay' = [replay EXCEPT ![c] = taken]
    /\ failed' = [failed EXCEPT ![c] = {}]
    /\ UNCHANGED <<copy, pending, sends, events, hubVars, historyVars, spent>>

Pending(c) == {[id |-> t, tag |-> pending[c][t]] :
               t \in {u \in Tags : pending[c][u] # Absent}}

\* mutation: a reconnect publishes only what has not been tried yet
ConnectUntried(c) == ConnectWith(c, Pending(c) \cap sends[c])
Connect(c) == ConnectWith(c, Pending(c))

----------------------------------------------------------------------------
(* HubTagSync: sending *)

\* A scheduled send that finds no stub leaves the tag to the next replay, and
\* so does a request that a dead session takes with it.
Skip(c, m) ==
    /\ m \in sends[c]
    /\ ~Connected(c)
    /\ sends' = [sends EXCEPT ![c] = @ \ {m}]
    /\ UNCHANGED <<copy, phase, pending, replay, failed, events, hubVars, historyVars, spent>>

\* A request fails in a session that lives on; the error is swallowed.
FailSend(c, m) ==
    /\ m \in sends[c]
    /\ Connected(c)
    /\ Spend("fail")
    /\ sends' = [sends EXCEPT ![c] = @ \ {m}]
    /\ failed' = [failed EXCEPT ![c] = @ \cup {m.id}]
    /\ UNCHANGED <<copy, phase, pending, replay, events, hubVars, historyVars>>

\* A replayed tag could not be published: the rest is given up, watching starts.
\* The hub may be there again on the same channel.
FailReplay(c) ==
    /\ phase[c] = "replaying"
    /\ replay[c] # {}
    /\ Spend("fail")
    /\ replay' = [replay EXCEPT ![c] = {}]
    /\ failed' = [failed EXCEPT ![c] = @ \cup {m.id : m \in replay[c]}]
    /\ UNCHANGED <<copy, phase, pending, sends, events, hubVars, historyVars>>

----------------------------------------------------------------------------
(* The hub *)

Fanned(t, tag) ==
    [c \in Clients |-> IF phase[c] = "watching"
                       THEN [events[c] EXCEPT ![t] = Append(@, tag)]
                       ELSE events[c]]

\* publish_tag: merge, remember to save, tell every watcher.
PublishTag(t, tag) ==
    IF Wins(tag, hub[t])
    THEN /\ hub' = [hub EXCEPT ![t] = tag]
         /\ savePending' = TRUE
         /\ events' = Fanned(t, tag)
         /\ UNCHANGED disk
    ELSE UNCHANGED <<hubVars, events>>

\* delete_tag: a tombstone that is not newer than the tag is made so.
Tombstone(t, tag) ==
    [tag EXCEPT !.version = IF @ <= hub[t].version THEN hub[t].version + 1 ELSE @]

Handled(c, m) ==
    /\ m \in sends[c]
    /\ Connected(c)
    /\ sends' = [sends EXCEPT ![c] = @ \ {m}]

HandlePublish(c, m) ==
    /\ Handled(c, m) /\ ~m.tag.deleted
    /\ PublishTag(m.id, m.tag)
    /\ UNCHANGED <<copy, phase, pending, replay, failed, historyVars, spent>>

HandleDelete(c, m) ==
    /\ Handled(c, m) /\ m.tag.deleted
    /\ LET tomb == Tombstone(m.id, m.tag) IN
       /\ PublishTag(m.id, tomb)
       /\ IF tomb = m.tag THEN UNCHANGED historyVars ELSE Issue(m.id, tomb.version)
    /\ UNCHANGED <<copy, phase, pending, replay, failed, spent>>

\* _replay publishes one pending tag, a tombstone like any other, and waits.
ReplayOne(c, m) ==
    /\ phase[c] = "replaying"
    /\ m \in replay[c]
    /\ replay' = [replay EXCEPT ![c] = @ \ {m}]
    /\ PublishTag(m.id, m.tag)
    /\ UNCHANGED <<copy, phase, pending, sends, failed, historyVars, spent>>

\* WatchTags: the client watches, and first receives the whole store.
WatchFrom(c, first) ==
    /\ phase[c] = "replaying"
    /\ replay[c] = {}
    /\ phase' = [phase EXCEPT ![c] = "watching"]
    /\ events' = [events EXCEPT ![c] = [t \in Tags |-> @[t] \o first[t]]]
    /\ UNCHANGED <<copy, pending, sends, replay, failed, hubVars, historyVars, spent>>

\* mutation: only tags that exist are sent, not the tombstones
WatchLive(c) ==
    WatchFrom(c, [t \in Tags |-> IF Shown(hub[t]) = Absent THEN <<>> ELSE <<hub[t]>>])
Watch(c) ==
    WatchFrom(c, [t \in Tags |-> IF hub[t] = Absent THEN <<>> ELSE <<hub[t]>>])

\* A second after the first change since the last save; an error is logged.
FlushTags(written) ==
    /\ savePending
    /\ savePending' = FALSE
    /\ disk' = IF written THEN hub ELSE disk
    /\ UNCHANGED <<clientVars, events, hub, historyVars, spent>>

\* What client c has pending, the hub no longer has, and nothing brings there.
Forgotten(c) ==
    {t \in Tags : /\ pending[c][t].version > disk[t].version
                  /\ [id |-> t, tag |-> pending[c][t]] \notin sends[c] \cup replay[c]}

\* The hub starts again from its file.  Streams end with it, and so do the
\* sessions of their clients.  A client that still replays has no stream open:
\* between two calls it misses the restart and goes on with the new hub (a call
\* that fails is FailReplay); a call cut short may also end its session.
RestartMissedBy(unaware) ==
    /\ Spend("restart")
    /\ hub' = disk
    /\ savePending' = FALSE
    /\ phase' = [c \in Clients |-> IF Connected(c) /\ c \notin unaware
                                  THEN "off" ELSE phase[c]]
    /\ replay' = [c \in Clients |-> IF c \in unaware THEN replay[c] ELSE {}]
    /\ failed' = [c \in Clients |-> IF c \in unaware
                                   THEN failed[c] \cup Forgotten(c) ELSE failed[c]]
    /\ events' = [c \in Clients |-> [t \in Tags |-> <<>>]]
    /\ UNCHANGED <<copy, pending, sends, disk, historyVars>>

HubRestart ==
    \E unaware \in SUBSET {c \in Clients : phase[c] = "replaying"} :
        RestartMissedBy(unaware)

----------------------------------------------------------------------------
(* Specification *)

Sync(c) ==
    \/ Connect(c) \/ Watch(c)
    \/ \E m \in sends[c] : Skip(c, m) \/ HandlePublish(c, m) \/ HandleDelete(c, m)
    \/ \E m \in replay[c] : ReplayOne(c, m)
    \/ \E t \in Tags : Upsert(c, t)

Trouble(c) ==
    \/ Break(c) \/ Detach(c) \/ FailReplay(c)
    \/ \E m \in sends[c] : FailSend(c, m)

User(c) ==
    \/ Attach(c)
    \/ \E t \in Tags : Add(c, t) \/ Edit(c, t) \/ RemoveTag(c, t)

Next ==
    \/ \E c \in Clients : User(c) \/ Sync(c) \/ Trouble(c)
    \/ \E written \in BOOLEAN : FlushTags(written)
    \/ HubRestart

Spec == Init /\ [][Next]_vars

\* The loops run, and a client reconnects while it is attached.  Nothing makes
\* a user do anything.
FairSpec == Spec /\ \A c \in Clients : WF_vars(Sync(c))

----------------------------------------------------------------------------
(* Properties *)

ClientTypes ==
    /\ copy \in [Clients -> [Tags -> Tag]]
    /\ phase \in [Clients -> {"detached", "off", "replaying", "watching"}]
    /\ pending \in [Clients -> [Tags -> Tag]]
    /\ sends \in [Clients -> SUBSET Send]
    /\ replay \in [Clients -> SUBSET Send]
    /\ failed \in [Clients -> SUBSET Tags]

HubTypes ==
    /\ hub \in [Tags -> Tag] /\ disk \in [Tags -> Tag]
    /\ savePending \in BOOLEAN
    /\ events \in [Clients -> [Tags -> Seq(Tag)]]

HistoryTypes ==
    /\ issued \in [Tags -> SUBSET Nat]
    /\ clash \in SUBSET Tags
    /\ spent \in Nat

\* Every variable has its type; a client replays only while it is connecting.
TypeOK ==
    /\ ClientTypes /\ HubTypes /\ HistoryTypes
    /\ \A c \in Clients : phase[c] # "replaying" => replay[c] = {}

\* The tag is on its way, or the hub has it or something at least as new.
Delivered(c, t) ==
    \/ pending[c][t].version <= hub[t].version
    \/ [id |-> t, tag |-> pending[c][t]] \in sends[c]

\* No change is lost between a send and a replay: whatever the moment at which
\* a change met a dying or starting session, once the client watches, the hub
\* has it or a send for it is under way, also over hub crashes that forget
\* unsaved tags and that end the session.  Needs that publish stores the tag
\* before it schedules the send, and that _run_session sets the stub before it
\* replays (net/tags.py).  Left out, for what follows too, is what only the
\* next connect repairs (failed): a tag whose request or replay failed while
\* the session went on, and one that a hub forgot in a restart which its client
\* missed because it was replaying.
Carried ==
    \A c \in Clients, t \in Tags :
        phase[c] = "watching" /\ t \notin failed[c] => Delivered(c, t)

Drained(c) == phase[c] = "watching" /\ sends[c] = {}

\* What a client would publish on its next connect changes nothing any more
\* once it has sent everything: reconnecting has no effect on the timeline.
\* But for two changes of one tag at once (clash), and what is in failed.
Settled ==
    \A c \in Clients, t \in Tags :
        /\ Drained(c) /\ t \notin failed[c] \cup clash
        /\ Wins(pending[c][t], hub[t])
        => Shown(pending[c][t]) = Shown(hub[t])

Quiet ==
    /\ \A c \in Clients : Drained(c)
    /\ \A c \in Clients, t \in Tags : events[c][t] = <<>>

AgreeOn(t) == \A c \in Clients : Shown(copy[c][t]) = Shown(hub[t])

\* When everything has been delivered and all are attached, every client shows
\* what the hub has: over lost streams, clients that changed tags while they
\* were detached, and a hub that forgot its last second.  The same exceptions,
\* a tag that some client has in failed, or that has a clash.
Agree ==
    Quiet => \A t \in Tags :
        t \in clash \/ (\E c \in Clients : t \in failed[c]) \/ AgreeOn(t)

\* A deleted tag stays away from the screens it was deleted on: a client on
\* which it is deleted shows it again only when a newer version arrives, or
\* when two writers have written the same version of it (clash): then one that
\* is as new as the tombstone brings it back, on a replay as well.
DeletesStay ==
    [][\A c \in Clients, t \in Tags :
         copy[c][t].deleted /\ ~copy'[c][t].deleted
         => copy'[c][t].version > copy[c][t].version \/ t \in clash]_vars

\* The hub forgot what client c shows, and it is a detached client that will
\* publish it: c publishes what was changed on it, and what it had as it attached.
HeldBack(c, t) ==
    /\ copy[c][t].version > hub[t].version
    /\ \E d \in Clients :
          phase[d] = "detached" /\ copy[d][t].version > hub[t].version

\* When users stop changing tags and the troubles stop, every attached client
\* ends up showing what the hub has.  The two exceptions of Agree, and a tag
\* that the hub forgot while a client that would publish it is detached.
EventuallyAgree ==
    <>[](\A c \in Clients, t \in Tags :
           \/ phase[c] = "detached" \/ HeldBack(c, t)
           \/ t \in clash \/ \E d \in Clients : t \in failed[d]
           \/ Shown(copy[c][t]) = Shown(hub[t]))

----------------------------------------------------------------------------
(* What the code says of itself and does not keep *)

\* "coherent convergence protocol": also for two changes of a tag at once.
Converge ==
    Quiet => \A t \in Tags : AgreeOn(t) \/ \E c \in Clients : t \in failed[c]

\* "the TagStore merges idempotently by version": a replay of a tag that was
\* delivered long ago does nothing, also for two changes of a tag at once.
ReplayIdle ==
    \A c \in Clients, t \in Tags :
        /\ Drained(c) /\ t \notin failed[c]
        /\ Wins(pending[c][t], hub[t])
        => Shown(pending[c][t]) = Shown(hub[t])

\* "every local tag is held in a pending set and re-published on every
\* (re)connect": a client that has connected and replayed since a send was
\* lost has its tag at the hub.
Republished ==
    \A c \in Clients, t \in Tags :
        Drained(c) => pending[c][t].version <= hub[t].version

============================================================================
