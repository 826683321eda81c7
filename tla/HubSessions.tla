---------------------------- MODULE HubSessions ----------------------------
(***************************************************************************)
(* The hub's Ingest sessions, its catalog of devices and the routing of    *)
(* commands to the agent that owns a device.                               *)
(*                                                                         *)
(* An agent dials out and holds one session: it says hello, re-announces   *)
(* every device it publishes and then streams messages.  The hub keeps,    *)
(* per device, the descriptor (catalog) and the out-queue of the session   *)
(* that announced it (route), and per agent the out-queue of its session   *)
(* (agentConn).  Hub code runs on one asyncio loop, so each handler is one *)
(* action; agent and hub notice a broken link independently, so that a new *)
(* session can be up at the hub before the old one is torn down.           *)
(***************************************************************************)
EXTENDS Naturals, Sequences, FiniteSets

CONSTANTS Agents,      \* agent identities
          Devices,     \* device uuids
          Owner,       \* [Devices -> Agents]: who has the instrument
          Sessions,    \* session identities (bounds the number of reconnects)
          Cmds,        \* requests of viewers (bounds their number)
          OutqSize,    \* capacity of a session's out-queue (64 in the code)
          MaxChanges,  \* bound on the changes of the agents' device sets
          None

ASSUME SessionsAssumption ==
    /\ IsFiniteSet(Devices)
    /\ Owner \in [Devices -> Agents]
    /\ OutqSize \in Nat \ {0}
    /\ MaxChanges \in Nat
    /\ None \notin Agents \cup Sessions \cup Devices \cup Cmds

VARIABLES
    published,  \* agent -> devices it publishes (HubAgent._devices)
    current,    \* agent -> its session, or None while backing off
    agentOf,    \* session -> the agent that dialled it, or None if unused
    link,       \* session -> "idle", "up" or "broken"
    up,         \* session -> messages on their way to the hub
    hubUp,      \* sessions whose handler runs at the hub
    mine,       \* session -> devices its handler has to retire when it ends
    catalog,    \* devices in the hub's catalog
    route,      \* device -> session that gets its commands, or None
    agentConn,  \* agent -> session that gets its add-device requests, or None
    outq,       \* session -> messages on their way to the agent
    cmd,        \* request -> [state, sess], sess where it waits for its answer
    handling,   \* agent -> request its handler works on, or None
    taken,      \* history: request -> how often a handler was started with it
    accepted,   \* history: requests a handler has answered with success
    overlap,    \* history: agents that dialled while an older session was up
    changes     \* number of device set changes so far (model bound)

agentVars   == <<published, current, agentOf, link, up, overlap, changes>>
hubVars     == <<hubUp, mine, catalog, route, agentConn>>
handlerVars == <<handling, taken, accepted>>
cmdVars     == <<outq, cmd, handlerVars>>
vars        == <<agentVars, hubVars, cmdVars>>

----------------------------------------------------------------------------
(* Messages and values *)

Results == {"ok", "refused", "timeout", "disconnected", "no_owner", "hub_gone"}

CmdRecord == [state : {"new", "waiting"} \cup Results,
              sess  : Sessions \cup {None}]

Ended(result) == [state |-> result, sess |-> None]

UpMsgs   == [type : {"hello"}] \cup [type : {"announce", "retire"}, dev : Devices]
            \cup [type : {"ack"}, req : Cmds, ok : BOOLEAN]

DownMsgs == [type : {"welcome"}] \cup [type : {"command"}, req : Cmds]

\* The hub's _offer: enqueue, dropping the oldest item of a full queue.
Offer(q, m) == IF Len(q) < OutqSize THEN Append(q, m) ELSE Append(Tail(q), m)

\* An agent message reaches the hub only through the session that was current
\* when it was queued; with no session it dies in a queue nobody reads.
SendUp(a, m) ==
    IF current[a] = None THEN up
    ELSE [up EXCEPT ![current[a]] = Append(@, m)]

----------------------------------------------------------------------------
Init ==
    /\ published = [a \in Agents |-> {}]
    /\ current = [a \in Agents |-> None]
    /\ agentOf = [s \in Sessions |-> None]
    /\ link = [s \in Sessions |-> "idle"]
    /\ up = [s \in Sessions |-> <<>>]
    /\ hubUp = {}
    /\ mine = [s \in Sessions |-> {}]
    /\ catalog = {}
    /\ route = [d \in Devices |-> None]
    /\ agentConn = [a \in Agents |-> None]
    /\ outq = [s \in Sessions |-> <<>>]
    /\ cmd = [c \in Cmds |-> [state |-> "new", sess |-> None]]
    /\ handling = [a \in Agents |-> None]
    /\ taken = [c \in Cmds |-> 0]
    /\ accepted = {}
    /\ overlap = {}
    /\ changes = 0

----------------------------------------------------------------------------
(* Agent *)

\* set_devices adds a device: record it and send the announcement.
Announce(d) ==
    LET a == Owner[d] IN
    /\ changes < MaxChanges
    /\ d \notin published[a]
    /\ published' = [published EXCEPT ![a] = @ \cup {d}]
    /\ up' = SendUp(a, [type |-> "announce", dev |-> d])
    /\ changes' = changes + 1
    /\ UNCHANGED <<current, agentOf, link, overlap, hubVars, cmdVars>>

\* set_devices drops a device: forget it and send the retirement.
Retire(d) ==
    LET a == Owner[d] IN
    /\ changes < MaxChanges
    /\ d \in published[a]
    /\ published' = [published EXCEPT ![a] = @ \ {d}]
    /\ up' = SendUp(a, [type |-> "retire", dev |-> d])
    /\ changes' = changes + 1
    /\ UNCHANGED <<current, agentOf, link, overlap, hubVars, cmdVars>>

\* A new session: a fresh out-queue, hello, then every device of devs.
Dial(a, s, devs) ==
    /\ current[a] = None
    /\ agentOf[s] = None
    /\ current' = [current EXCEPT ![a] = s]
    /\ agentOf' = [agentOf EXCEPT ![s] = a]
    /\ link' = [link EXCEPT ![s] = "up"]
    /\ \E order \in [1..Cardinality(devs) -> devs] :
          /\ \A i, j \in DOMAIN order : i # j => order[i] # order[j]
          /\ up' = [up EXCEPT ![s] = <<[type |-> "hello"]>> \o
                       [i \in DOMAIN order |->
                          [type |-> "announce", dev |-> order[i]]]]
    /\ hubUp' = hubUp \cup {s}
    /\ overlap' = IF \E t \in hubUp : agentOf[t] = a
                  THEN overlap \cup {a} ELSE overlap
    /\ UNCHANGED <<published, changes, mine, catalog, route, agentConn, cmdVars>>

\* mutation: announcements are not repeated on a reconnect
ConnectSilently(a, s) == Dial(a, s, {})

\* _outgen announces everything the agent publishes, on every session.
Connect(a, s) == Dial(a, s, published[a])

\* The link dies without a word to either end (a black-holed connection).
Break(s) ==
    /\ link[s] = "up"
    /\ link' = [link EXCEPT ![s] = "broken"]
    /\ UNCHANGED <<published, current, agentOf, up, overlap, changes, hubVars, cmdVars>>

\* The agent's keepalive finds the link dead: it backs off and will reconnect.
\* A handler at work is waited for first, the session reads nothing meanwhile.
AgentNotices(a) ==
    /\ current[a] # None
    /\ link[current[a]] = "broken"
    /\ handling[a] = None
    /\ current' = [current EXCEPT ![a] = None]
    /\ UNCHANGED <<published, agentOf, link, up, overlap, changes, hubVars, cmdVars>>

\* The agent, no handler at work, takes the next message of its session, whose
\* out-queue keeps rest; a request starts the handler of its kind.
TakeNext(a, rest) ==
    LET s == current[a] IN
    /\ s # None
    /\ link[s] = "up"
    /\ handling[a] = None
    /\ outq[s] # <<>>
    /\ outq' = [outq EXCEPT ![s] = rest]
    /\ LET m == Head(outq[s]) IN
         IF m.type = "command"
         THEN /\ handling' = [handling EXCEPT ![a] = m.req]
              /\ taken' = [taken EXCEPT ![m.req] = @ + 1]
         ELSE UNCHANGED <<handling, taken>>
    /\ UNCHANGED <<agentVars, hubVars, cmd, accepted>>

\* mutation: a message stays queued when it is taken
AgentReceiveKeeps(a) == TakeNext(a, outq[current[a]])

\* The session's read loop: one message at a time, its handler awaited.
AgentReceive(a) == TakeNext(a, Tail(outq[current[a]]))

\* The handler ends, with success or, when it is missing, refuses or raises,
\* without, and the answer goes up the same session.  Success of a command or a
\* configuration means it was carried out; an add or remove of a device has only
\* been handed to the GUI thread.
AgentAnswers(a, ok) ==
    /\ handling[a] # None
    /\ handling' = [handling EXCEPT ![a] = None]
    /\ accepted' = IF ok THEN accepted \cup {handling[a]} ELSE accepted
    /\ up' = SendUp(a, [type |-> "ack", req |-> handling[a], ok |-> ok])
    /\ UNCHANGED <<published, current, agentOf, link, overlap, changes, hubVars,
                   outq, cmd, taken>>

----------------------------------------------------------------------------
(* Hub: the reader of one session.  Messages that had arrived before the   *)
(* link broke are still handled.                                           *)

Take(s) == up' = [up EXCEPT ![s] = Tail(@)]

Reading(s, type) ==
    /\ s \in hubUp
    /\ up[s] # <<>>
    /\ Head(up[s]).type = type
    /\ Take(s)
    /\ UNCHANGED <<published, current, agentOf, link, overlap, changes, hubUp>>

HandleHello(s) ==
    /\ Reading(s, "hello")
    /\ agentConn' = [agentConn EXCEPT ![agentOf[s]] = s]
    /\ outq' = [outq EXCEPT ![s] = Append(@, [type |-> "welcome"])]
    /\ UNCHANGED <<mine, catalog, route, cmd, handlerVars>>

\* mutation: the route is the agent's identity, not its session's queue
HandleAnnounceByAgent(s) ==
    /\ Reading(s, "announce")
    /\ LET d == Head(up[s]).dev IN
         /\ catalog' = catalog \cup {d}
         /\ mine' = [mine EXCEPT ![s] = @ \cup {d}]
         /\ route' = [route EXCEPT ![d] = agentOf[s]]
    /\ UNCHANGED <<agentConn, cmdVars>>

HandleAnnounce(s) ==
    /\ Reading(s, "announce")
    /\ LET d == Head(up[s]).dev IN
         /\ catalog' = catalog \cup {d}
         /\ mine' = [mine EXCEPT ![s] = @ \cup {d}]
         /\ route' = [route EXCEPT ![d] = s]
    /\ UNCHANGED <<agentConn, cmdVars>>

HandleRetire(s) ==
    /\ Reading(s, "retire")
    /\ LET d == Head(up[s]).dev IN
         /\ catalog' = catalog \ {d}
         /\ route' = [route EXCEPT ![d] = None]
         /\ mine' = [mine EXCEPT ![s] = @ \ {d}]
    /\ UNCHANGED <<agentConn, cmdVars>>

\* deliver_ack: resolve the waiting request; an unknown or late one is ignored.
HandleAck(s) ==
    /\ Reading(s, "ack")
    /\ LET ack == Head(up[s]) IN
         cmd' = IF cmd[ack.req].state = "waiting"
                THEN [cmd EXCEPT ![ack.req] = Ended(IF ack.ok THEN "ok" ELSE "refused")]
                ELSE cmd
    /\ UNCHANGED <<mine, catalog, route, agentConn, outq, handlerVars>>

\* The end of session s: unroute its agent if dropConn, fail the waiting
\* requests of failed, take the devices of unroute off their routes, and retire
\* every device announced on it.
TearDown(s, dropConn, failed, unroute) ==
    /\ s \in hubUp
    /\ link[s] = "broken"
    /\ hubUp' = hubUp \ {s}
    /\ agentConn' = IF dropConn
                    THEN [agentConn EXCEPT ![agentOf[s]] = None] ELSE agentConn
    /\ cmd' = [c \in Cmds |-> IF c \in failed THEN Ended("disconnected") ELSE cmd[c]]
    /\ catalog' = catalog \ mine[s]
    /\ route' = [d \in Devices |-> IF d \in unroute THEN None ELSE route[d]]
    /\ up' = [up EXCEPT ![s] = <<>>]
    /\ outq' = [outq EXCEPT ![s] = <<>>]
    /\ UNCHANGED <<published, current, agentOf, link, overlap, changes, mine, handlerVars>>

IsConn(s)    == agentConn[agentOf[s]] = s
WaitingOn(s) == {c \in Cmds : cmd[c].state = "waiting" /\ cmd[c].sess = s}
Waiting      == {c \in Cmds : cmd[c].state = "waiting"}

\* mutations: the agent route is dropped unconditionally; every waiting request
\* is failed; the routes of the retired devices are left behind
EndSessionDropsConn(s) == TearDown(s, TRUE, WaitingOn(s), mine[s])
EndSessionFailsAll(s)  == TearDown(s, IsConn(s), Waiting, mine[s])
EndSessionLeaksRoute(s) == TearDown(s, IsConn(s), WaitingOn(s), {})

\* The session handler's finally block, one await-free step: drop the agent
\* route if it is still ours, fail the requests that were sent down this
\* session, retire and unroute every device announced on it.
EndSession(s) == TearDown(s, IsConn(s), WaitingOn(s), mine[s])

\* The hub process restarts: sessions, catalog, routes and waiting requests are
\* in memory only, and every link it held is gone.
HubRestart ==
    /\ hubUp # {}
    /\ hubUp' = {}
    /\ link' = [s \in Sessions |-> IF s \in hubUp THEN "broken" ELSE link[s]]
    /\ mine' = [s \in Sessions |-> {}]
    /\ catalog' = {}
    /\ route' = [d \in Devices |-> None]
    /\ agentConn' = [a \in Agents |-> None]
    /\ cmd' = [c \in Cmds |-> IF cmd[c].state = "waiting"
                              THEN Ended("hub_gone") ELSE cmd[c]]
    /\ up' = [s \in Sessions |-> <<>>]
    /\ outq' = [s \in Sessions |-> <<>>]
    /\ UNCHANGED <<published, current, agentOf, overlap, changes, handlerVars>>

----------------------------------------------------------------------------
(* Hub: requests of viewers *)

\* A viewer's request goes to session s, or to nobody when s is None: register it
\* with the session it goes to and offer it there.
Request(c, s) ==
    /\ cmd[c].state = "new"
    /\ IF s = None
       THEN /\ cmd' = [cmd EXCEPT ![c] = Ended("no_owner")]
            /\ UNCHANGED outq
       ELSE /\ cmd' = [cmd EXCEPT ![c] = [state |-> "waiting", sess |-> s]]
            /\ outq' = [outq EXCEPT ![s] = Offer(@, [type |-> "command", req |-> c])]
    /\ UNCHANGED <<agentVars, hubVars, handlerVars>>

\* send_command, send_config, remove_device: routed by the device.
SendCommand(c, d) == Request(c, route[d])

\* add_device: routed by the agent's identity.
AddDevice(c, a) == Request(c, agentConn[a])

\* mutation: only a request whose session has gone is given up
TimeoutIfGone(c) ==
    /\ cmd[c].state = "waiting"
    /\ cmd[c].sess \notin hubUp
    /\ cmd' = [cmd EXCEPT ![c] = Ended("timeout")]
    /\ UNCHANGED <<agentVars, hubVars, outq, handlerVars>>

\* wait_for expires after 10 s; the request is forgotten.
Timeout(c) ==
    /\ cmd[c].state = "waiting"
    /\ cmd' = [cmd EXCEPT ![c] = Ended("timeout")]
    /\ UNCHANGED <<agentVars, hubVars, outq, handlerVars>>

----------------------------------------------------------------------------
HubReads(s) == HandleHello(s) \/ HandleAnnounce(s) \/ HandleRetire(s) \/ HandleAck(s)

Next ==
    \/ \E d \in Devices : Announce(d) \/ Retire(d)
    \/ \E a \in Agents, s \in Sessions : Connect(a, s)
    \/ \E s \in Sessions : Break(s) \/ HubReads(s) \/ EndSession(s)
    \/ \E a \in Agents : AgentNotices(a) \/ AgentReceive(a)
    \/ \E a \in Agents, ok \in BOOLEAN : AgentAnswers(a, ok)
    \/ HubRestart
    \/ \E c \in Cmds : \/ \E d \in Devices : SendCommand(c, d)
                       \/ \E a \in Agents : AddDevice(c, a)
                       \/ Timeout(c)

Spec == Init /\ [][Next]_vars

(* The loops of hub and agent keep reading, keepalive finds every dead     *)
(* link, an agent without a session keeps dialling, wait_for expires.  Nothing   *)
(* is promised of a handler: the device may block it for ever.             *)
Fairness ==
    /\ \A s \in Sessions : WF_vars(HubReads(s)) /\ WF_vars(EndSession(s))
    /\ \A a \in Agents : /\ WF_vars(AgentNotices(a)) /\ WF_vars(AgentReceive(a))
                         /\ WF_vars(\E s \in Sessions : Connect(a, s))
    /\ \A c \in Cmds : WF_vars(Timeout(c))

FairSpec == Spec /\ Fairness
----------------------------------------------------------------------------
ChannelTypes ==
    /\ up \in [Sessions -> Seq(UpMsgs)]
    /\ outq \in [Sessions -> Seq(DownMsgs)]

RequestTypes ==
    /\ cmd \in [Cmds -> CmdRecord]
    /\ handling \in [Agents -> Cmds \cup {None}]
    /\ taken \in [Cmds -> Nat]
    /\ accepted \subseteq Cmds

SessionTypes ==
    /\ published \in [Agents -> SUBSET Devices]
    /\ current \in [Agents -> Sessions \cup {None}]
    /\ agentOf \in [Sessions -> Agents \cup {None}]
    /\ link \in [Sessions -> {"idle", "up", "broken"}]
    /\ hubUp \subseteq Sessions
    /\ mine \in [Sessions -> SUBSET Devices]
    /\ catalog \subseteq Devices
    /\ route \in [Devices -> Sessions \cup {None}]
    /\ agentConn \in [Agents -> Sessions \cup {None}]
    /\ overlap \subseteq Agents
    /\ changes \in 0..MaxChanges

TypeOK == ChannelTypes /\ RequestTypes /\ SessionTypes

\* What the hub tells viewers and where it sends their requests agree, and both
\* rest on a running session that will clean up after itself: a listed device
\* has a route, a route leads to a running session that will retire the device
\* when it ends, an agent route leads to a running session of that agent, and a
\* request waits only on a running session.  remove_device reads catalog and
\* route together and send_command offers to the routed queue unchecked.
RoutesLive ==
    /\ \A d \in Devices : d \in catalog <=> route[d] # None
    /\ \A d \in Devices : route[d] # None =>
          route[d] \in hubUp /\ d \in mine[route[d]]
    /\ \A a \in Agents : agentConn[a] # None =>
          agentConn[a] \in hubUp /\ agentOf[agentConn[a]] = a
    /\ \A c \in Cmds : cmd[c].state = "waiting" => cmd[c].sess \in hubUp

\* What a viewer is told of its request is true, over every loss, overflow, late
\* answer, reconnect and restart: "ok" means that a handler of the agent accepted
\* it, "refused" that one was asked and did not, "no_owner" that nobody was asked;
\* and no handler is ever started twice with one request, answered or not.  Of the
\* other answers nothing follows: the request may still be carried out.
AnswersTrue ==
    \A c \in Cmds :
        /\ taken[c] <= 1
        /\ cmd[c].state = "ok" => taken[c] = 1 /\ c \in accepted
        /\ cmd[c].state = "refused" => taken[c] = 1 /\ c \notin accepted
        /\ cmd[c].state \in {"new", "no_owner"} => taken[c] = 0

\* An agent whose session is up, the only one the hub runs for it, with nothing
\* left in flight to the hub.
Settled(a) ==
    LET s == current[a] IN
    /\ s # None /\ link[s] = "up" /\ up[s] = <<>>
    /\ {t \in hubUp : agentOf[t] = a} = {s}

Listed(a) == {d \in catalog : Owner[d] = a}

\* An agent that always reconnected after its old session was torn down is seen
\* as it is: once its messages are handled the catalog has exactly the devices
\* it publishes, after any history of changes, losses and hub restarts.
CatalogHeals ==
    \A a \in Agents : Settled(a) /\ a \notin overlap => Listed(a) = published[a]

\* The same without the proviso, as the agent's module promises it ("re-announces
\* its devices on every (re)connect, so the hub's view self-heals").
CatalogAlwaysHeals ==
    \A a \in Agents : Settled(a) => Listed(a) = published[a]

\* A request is failed with "client disconnected" only by the end of the very
\* session it was sent to, never by another session or by a device retiring.
FailsOnlyWithItsSession ==
    [][\A c \in Cmds :
         cmd[c].state = "waiting" /\ cmd'[c].state = "disconnected"
           => cmd[c].sess \in hubUp \ hubUp']_vars

\* Tearing down a session an agent has replaced does not take the agent's newer
\* add-device route with it.
NewerSessionKept ==
    [][\A a \in Agents :
         agentConn[a] # None /\ agentConn'[a] = None
           => agentConn[a] \notin hubUp']_vars

\* Every request of a viewer gets an answer, whatever happens to the agent.
RequestsEnd == \A c \in Cmds : cmd[c].state = "waiting" ~> cmd[c].state # "waiting"
============================================================================
