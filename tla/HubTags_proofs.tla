--------------------------- MODULE HubTags_proofs ---------------------------
(* No change of a tag is lost between a send and a replay, for every number  *)
(* of clients and tags, every bound and every sequence of troubles.          *)
EXTENDS HubTags, TLAPS

(* While the replay runs, what it has not published yet is not lost either.  *)
Replaying ==
    \A c \in Clients, t \in Tags :
        Connected(c) /\ t \notin failed[c] =>
            \/ Delivered(c, t)
            \/ [id |-> t, tag |-> pending[c][t]] \in replay[c]

TagInv == TypeOK /\ Replaying

USE DEF Connected

LEMMA TagFacts ==
    /\ Absent \in Tag
    /\ \A n \in Nat, b \in BOOLEAN, c \in Clients :
           [version |-> n, deleted |-> b, by |-> c] \in Tag
    /\ \A tag \in Tag : /\ tag.version \in Nat /\ tag.deleted \in BOOLEAN
    /\ \A m \in Send : m.id \in Tags /\ m.tag \in Tag
    /\ \A t \in Tags, tag \in Tag : [id |-> t, tag |-> tag] \in Send
  BY DEF Tag, Send, Absent

LEMMA InitTagInv == Init => TagInv
<1> SUFFICES ASSUME Init PROVE TagInv
  OBVIOUS
<1>1. ClientTypes /\ HistoryTypes
  BY TagFacts DEF Init, ClientTypes, HistoryTypes
<1>2. HubTypes
  <2>1. [c \in Clients |-> [t \in Tags |-> <<>>]] \in [Clients -> [Tags -> Seq(Tag)]]
    OBVIOUS
  <2> QED
    BY <2>1, TagFacts DEF Init, HubTypes
<1>3. TypeOK /\ Replaying
  BY <1>1, <1>2 DEF Init, TypeOK, Replaying
<1> QED
  BY <1>3 DEF TagInv

(* A local change, published as it is stored. *)
LEMMA LocalStep ==
    ASSUME TagInv, NEW c \in Clients, NEW t \in Tags, NEW tag \in Tag, Local(c, t, tag)
    PROVE  TagInv'
<1>1. ClientTypes'
  <2>1. copy' \in [Clients -> [Tags -> Tag]]
    BY DEF TagInv, TypeOK, ClientTypes, Local
  <2>2. [pending EXCEPT ![c][t] = tag] \in [Clients -> [Tags -> Tag]]
    BY DEF TagInv, TypeOK, ClientTypes
  <2>3. {[id |-> t, tag |-> tag]} \in SUBSET Send
    BY TagFacts
  <2>4. [sends EXCEPT ![c] = @ \cup {[id |-> t, tag |-> tag]}] \in [Clients -> SUBSET Send]
    BY <2>3 DEF TagInv, TypeOK, ClientTypes
  <2> QED
    BY <2>1, <2>2, <2>4 DEF TagInv, TypeOK, ClientTypes, Local
<1>2. HubTypes' /\ HistoryTypes'
  BY TagFacts DEF TagInv, TypeOK, HubTypes, HistoryTypes, Local, Issue, hubVars
<1>3. \A d \in Clients : phase'[d] # "replaying" => replay'[d] = {}
  BY DEF TagInv, TypeOK, Local
<1>4. Replaying'
  <2> SUFFICES ASSUME NEW d \in Clients, NEW u \in Tags, Connected(d)', u \notin failed'[d]
               PROVE  Delivered(d, u)' \/ [id |-> u, tag |-> pending'[d][u]] \in replay'[d]
    BY DEF Replaying
  <2>1. Delivered(d, u) \/ [id |-> u, tag |-> pending[d][u]] \in replay[d]
    BY DEF Local, TagInv, Replaying
  <2>2. CASE d = c /\ u = t
    BY <2>2 DEF Local, Delivered, TagInv, TypeOK, ClientTypes, hubVars
  <2>3. CASE ~(d = c /\ u = t)
    BY <2>1, <2>3 DEF Local, Delivered, TagInv, TypeOK, ClientTypes, hubVars
  <2> QED
    BY <2>2, <2>3
<1> QED
  BY <1>1, <1>2, <1>3, <1>4 DEF TagInv, TypeOK

LEMMA UserStep ==
    ASSUME TagInv, NEW c \in Clients, NEW t \in Tags,
           Add(c, t) \/ Edit(c, t) \/ RemoveTag(c, t)
    PROVE  TagInv'
<1>1. \A tag \in Tag, b \in BOOLEAN : Bump(tag, b, c) \in Tag
  BY TagFacts DEF Bump
<1>2. copy[c][t] \in Tag
  BY DEF TagInv, TypeOK, ClientTypes
<1>3. PICK tag \in Tag : Local(c, t, tag)
  BY <1>1, <1>2, TagFacts DEF Add, Edit, RemoveTag
<1> QED
  BY <1>3, LocalStep

(* Steps that leave the hub and what was published alone. *)
LEMMA UpsertStep ==
    ASSUME TagInv, NEW c \in Clients, NEW t \in Tags, Upsert(c, t)
    PROVE  TagInv'
<1>1. events[c][t] \in Seq(Tag) /\ events[c][t] # <<>>
  BY DEF Upsert, UpsertIf, TagInv, TypeOK, HubTypes
<1>2. Head(events[c][t]) \in Tag /\ Tail(events[c][t]) \in Seq(Tag)
  BY <1>1
<1>3. ClientTypes'
  BY <1>2 DEF Upsert, UpsertIf, TagInv, TypeOK, ClientTypes
<1>4. HubTypes' /\ HistoryTypes'
  BY <1>2 DEF Upsert, UpsertIf, TagInv, TypeOK, HubTypes, HistoryTypes, hubVars, historyVars
<1>5. Replaying' /\ \A d \in Clients : phase'[d] # "replaying" => replay'[d] = {}
  BY DEF Upsert, UpsertIf, TagInv, TypeOK, Replaying, Delivered, hubVars
<1> QED
  BY <1>3, <1>4, <1>5 DEF TagInv, TypeOK

LEMMA AttachStep ==
    ASSUME TagInv, NEW c \in Clients, Attach(c)
    PROVE  TagInv'
<1>1. {[id |-> t, tag |-> copy[c][t]] : t \in {u \in Tags : copy[c][u] # Absent}} \in SUBSET Send
  BY TagFacts DEF TagInv, TypeOK, ClientTypes
<1>2. ClientTypes'
  BY <1>1 DEF Attach, TagInv, TypeOK, ClientTypes
<1>3. HubTypes' /\ HistoryTypes'
  BY DEF Attach, TagInv, TypeOK, HubTypes, HistoryTypes, hubVars, historyVars
<1>4. Replaying' /\ \A d \in Clients : phase'[d] # "replaying" => replay'[d] = {}
  BY DEF Attach, TagInv, TypeOK, ClientTypes, Replaying, Delivered, hubVars
<1> QED
  BY <1>2, <1>3, <1>4 DEF TagInv, TypeOK

LEMMA EndStep ==
    ASSUME TagInv, NEW c \in Clients, Detach(c) \/ Break(c)
    PROVE  TagInv'
<1>1. ClientTypes'
  <2>1. [t \in Tags |-> Absent] \in [Tags -> Tag]
    BY TagFacts
  <2>2. pending' \in [Clients -> [Tags -> Tag]]
    BY <2>1 DEF Detach, Break, TagInv, TypeOK, ClientTypes
  <2>3. sends' \in [Clients -> SUBSET Send] /\ failed' \in [Clients -> SUBSET Tags]
    BY DEF Detach, Break, TagInv, TypeOK, ClientTypes
  <2>4. replay' \in [Clients -> SUBSET Send]
    BY DEF Detach, Break, EndSession, TagInv, TypeOK, ClientTypes
  <2> QED
    BY <2>2, <2>3, <2>4 DEF Detach, Break, TagInv, TypeOK, ClientTypes
<1>2. HubTypes'
  <2>1. [t \in Tags |-> <<>>] \in [Tags -> Seq(Tag)]
    OBVIOUS
  <2> QED
    BY <2>1 DEF Detach, Break, EndSession, TagInv, TypeOK, HubTypes, hubVars
<1>3. HistoryTypes'
  BY DEF Detach, Break, Spend, TagInv, TypeOK, HistoryTypes, historyVars
<1>4. Replaying' /\ \A d \in Clients : phase'[d] # "replaying" => replay'[d] = {}
  BY ZenonT(30) DEF Detach, Break, EndSession, TagInv, TypeOK, ClientTypes, Replaying, Delivered, hubVars
<1> QED
  BY <1>1, <1>2, <1>3, <1>4 DEF TagInv, TypeOK

(* A connect takes everything that is pending, so nothing can be missing. *)
LEMMA ConnectStep ==
    ASSUME TagInv, NEW c \in Clients, Connect(c)
    PROVE  TagInv'
<1>1. Pending(c) \in SUBSET Send
  BY TagFacts DEF Pending, TagInv, TypeOK, ClientTypes
<1>2. ClientTypes'
  BY <1>1 DEF Connect, ConnectWith, TagInv, TypeOK, ClientTypes
<1>3. HubTypes' /\ HistoryTypes'
  BY DEF Connect, ConnectWith, TagInv, TypeOK, HubTypes, HistoryTypes, hubVars, historyVars
<1>4. \A d \in Clients : phase'[d] # "replaying" => replay'[d] = {}
  BY DEF Connect, ConnectWith, TagInv, TypeOK, ClientTypes
<1>5. Replaying'
  <2> SUFFICES ASSUME NEW d \in Clients, NEW u \in Tags, Connected(d)', u \notin failed'[d]
               PROVE  Delivered(d, u)' \/ [id |-> u, tag |-> pending'[d][u]] \in replay'[d]
    BY DEF Replaying
  <2>1. CASE d = c
    <3>1. CASE pending[c][u] = Absent
      BY <2>1, <3>1, TagFacts
         DEF Connect, ConnectWith, Delivered, Absent, TagInv, TypeOK, HubTypes, hubVars
    <3>2. CASE pending[c][u] # Absent
      BY <2>1, <3>2 DEF Connect, ConnectWith, Pending, TagInv, TypeOK, ClientTypes
    <3> QED
      BY <3>1, <3>2
  <2>2. CASE d # c
    BY <2>2 DEF Connect, ConnectWith, Delivered, TagInv, TypeOK, ClientTypes, Replaying, hubVars
  <2> QED
    BY <2>1, <2>2
<1> QED
  BY <1>2, <1>3, <1>4, <1>5 DEF TagInv, TypeOK

LEMMA SkipStep ==
    ASSUME TagInv, NEW c \in Clients, NEW m \in sends[c], Skip(c, m) \/ FailSend(c, m)
    PROVE  TagInv'
<1>0. m \in Send
  BY DEF TagInv, TypeOK, ClientTypes
<1>1. ClientTypes'
  <2>1. m.id \in Tags
    BY <1>0, TagFacts
  <2>2. sends' \in [Clients -> SUBSET Send]
    BY DEF Skip, FailSend, TagInv, TypeOK, ClientTypes
  <2>3. failed' \in [Clients -> SUBSET Tags]
    BY <2>1 DEF Skip, FailSend, TagInv, TypeOK, ClientTypes
  <2> QED
    BY <2>2, <2>3 DEF Skip, FailSend, TagInv, TypeOK, ClientTypes
<1>2. HubTypes' /\ HistoryTypes'
  BY DEF Skip, FailSend, Spend, TagInv, TypeOK, HubTypes, HistoryTypes, hubVars, historyVars
<1>3. \A d \in Clients : phase'[d] # "replaying" => replay'[d] = {}
  BY DEF Skip, FailSend, TagInv, TypeOK
<1>4. Replaying'
  <2> SUFFICES ASSUME NEW d \in Clients, NEW u \in Tags, Connected(d)', u \notin failed'[d]
               PROVE  Delivered(d, u)' \/ [id |-> u, tag |-> pending'[d][u]] \in replay'[d]
    BY DEF Replaying
  <2>1. phase' = phase /\ pending' = pending /\ replay' = replay /\ hub' = hub
    BY DEF Skip, FailSend, hubVars
  <2>2. u \notin failed[d]
    BY DEF Skip, FailSend, TagInv, TypeOK, ClientTypes
  <2>3. Delivered(d, u) \/ [id |-> u, tag |-> pending[d][u]] \in replay[d]
    BY <2>1, <2>2 DEF TagInv, Replaying
  <2>4. CASE d = c
    <3>1. FailSend(c, m)
      BY <2>1, <2>4 DEF Skip
    <3>2. m.id # u
      BY <3>1, <1>0, <2>4, TagFacts DEF FailSend, TagInv, TypeOK, ClientTypes
    <3> QED
      BY <2>1, <2>3, <2>4, <3>1, <3>2 DEF FailSend, Delivered, TagInv, TypeOK, ClientTypes
  <2>5. CASE d # c
    BY <2>1, <2>3, <2>5 DEF Skip, FailSend, Delivered, TagInv, TypeOK, ClientTypes
  <2> QED
    BY <2>4, <2>5
<1> QED
  BY <1>1, <1>2, <1>3, <1>4 DEF TagInv, TypeOK

LEMMA FailReplayStep ==
    ASSUME TagInv, NEW c \in Clients, FailReplay(c)
    PROVE  TagInv'
<1>1. {m.id : m \in replay[c]} \in SUBSET Tags
  BY TagFacts DEF TagInv, TypeOK, ClientTypes
<1>2. ClientTypes'
  BY <1>1 DEF FailReplay, TagInv, TypeOK, ClientTypes
<1>3. HubTypes' /\ HistoryTypes'
  BY DEF FailReplay, Spend, TagInv, TypeOK, HubTypes, HistoryTypes, hubVars, historyVars
<1>4. \A d \in Clients : phase'[d] # "replaying" => replay'[d] = {}
  BY DEF FailReplay, TagInv, TypeOK, ClientTypes
<1>5. Replaying'
  <2> SUFFICES ASSUME NEW d \in Clients, NEW u \in Tags, Connected(d)', u \notin failed'[d]
               PROVE  Delivered(d, u)' \/ [id |-> u, tag |-> pending'[d][u]] \in replay'[d]
    BY DEF Replaying
  <2>1. u \notin failed[d]
    BY <1>1 DEF FailReplay, TagInv, TypeOK, ClientTypes
  <2>2. Delivered(d, u) \/ [id |-> u, tag |-> pending[d][u]] \in replay[d]
    BY <2>1 DEF FailReplay, TagInv, Replaying
  <2>3. d = c => [id |-> u, tag |-> pending[d][u]] \notin replay[c]
    BY <1>1 DEF FailReplay, TagInv, TypeOK, ClientTypes
  <2> QED
    BY <2>2, <2>3 DEF FailReplay, Delivered, TagInv, TypeOK, ClientTypes, hubVars
<1> QED
  BY <1>2, <1>3, <1>4, <1>5 DEF TagInv, TypeOK

(* publish_tag never lowers a version and always reaches the one published. *)
LEMMA PublishFacts ==
    ASSUME TypeOK, NEW t \in Tags, NEW tag \in Tag, PublishTag(t, tag)
    PROVE  /\ HubTypes'
           /\ \A u \in Tags : hub[u].version <= hub'[u].version
           /\ tag.version <= hub'[t].version
<1>1. CASE Wins(tag, hub[t])
  <2>1. hub' = [hub EXCEPT ![t] = tag] /\ savePending' = TRUE /\ disk' = disk /\ events' = Fanned(t, tag)
    BY <1>1 DEF PublishTag
  <2>2. Fanned(t, tag) \in [Clients -> [Tags -> Seq(Tag)]]
    BY DEF Fanned, TypeOK, HubTypes
  <2>3. hub[t].version <= tag.version
    BY <1>1, TagFacts DEF Wins, TypeOK, HubTypes
  <2>4. HubTypes'
    BY <2>1, <2>2 DEF TypeOK, HubTypes
  <2> QED
    BY <2>1, <2>3, <2>4, TagFacts DEF TypeOK, HubTypes
<1>2. CASE ~Wins(tag, hub[t])
  <2>1. UNCHANGED <<hubVars, events>>
    BY <1>2 DEF PublishTag
  <2> QED
    BY <1>2, <2>1, TagFacts DEF Wins, TypeOK, HubTypes, hubVars
<1> QED
  BY <1>1, <1>2

LEMMA HandleStep ==
    ASSUME TagInv, NEW c \in Clients, NEW m \in sends[c],
           HandlePublish(c, m) \/ HandleDelete(c, m)
    PROVE  TagInv'
<1>0. m \in Send /\ m.id \in Tags /\ m.tag \in Tag
  BY TagFacts DEF TagInv, TypeOK, ClientTypes
<1>1. PICK tag \in Tag : PublishTag(m.id, tag) /\ m.tag.version <= tag.version
  <2>1. CASE HandlePublish(c, m)
    BY <2>1, <1>0, TagFacts DEF HandlePublish
  <2>2. CASE HandleDelete(c, m)
    <3>1. hub[m.id] \in Tag
      BY <1>0 DEF TagInv, TypeOK, HubTypes
    <3>2. Tombstone(m.id, m.tag) \in Tag
      BY <1>0, <3>1 DEF Tombstone, Tag
    <3>3. m.tag.version <= Tombstone(m.id, m.tag).version
      BY <1>0, <3>1 DEF Tombstone, Tag
    <3> QED
      BY <2>2, <3>2, <3>3 DEF HandleDelete
  <2> QED
    BY <2>1, <2>2
<1>2. HubTypes' /\ (\A u \in Tags : hub[u].version <= hub'[u].version)
      /\ tag.version <= hub'[m.id].version
  BY <1>0, <1>1, PublishFacts DEF TagInv
<1>3. sends' = [sends EXCEPT ![c] = @ \ {m}]
      /\ UNCHANGED <<copy, phase, pending, replay, failed, spent>>
  BY DEF HandlePublish, HandleDelete, Handled
<1>4. ClientTypes'
  BY <1>3 DEF TagInv, TypeOK, ClientTypes
<1>5. HistoryTypes'
  <2>1. CASE HandlePublish(c, m)
    BY <2>1 DEF HandlePublish, TagInv, TypeOK, HistoryTypes, historyVars
  <2>2. CASE HandleDelete(c, m)
    <3>1. Tombstone(m.id, m.tag).version \in Nat
      BY <1>0 DEF Tombstone, Tag, TagInv, TypeOK, HubTypes
    <3> QED
      BY <2>2, <3>1, <1>0 DEF HandleDelete, Issue, TagInv, TypeOK, HistoryTypes, historyVars
  <2> QED
    BY <2>1, <2>2
<1>6. Replaying'
  <2> SUFFICES ASSUME NEW d \in Clients, NEW u \in Tags, Connected(d)', u \notin failed'[d]
               PROVE  Delivered(d, u)' \/ [id |-> u, tag |-> pending'[d][u]] \in replay'[d]
    BY DEF Replaying
  <2>1. Delivered(d, u) \/ [id |-> u, tag |-> pending[d][u]] \in replay[d]
    BY <1>3 DEF TagInv, Replaying
  <2>2. /\ pending[d][u].version \in Nat /\ hub[u].version \in Nat /\ hub'[u].version \in Nat
        /\ hub'[m.id].version \in Nat /\ m.tag.version \in Nat /\ tag.version \in Nat
    BY <1>0, <1>1, <1>2, TagFacts DEF TagInv, TypeOK, ClientTypes, HubTypes
  <2>3. CASE pending[d][u].version <= hub[u].version
    BY <2>2, <2>3, <1>2, <1>3 DEF Delivered
  <2>4. CASE [id |-> u, tag |-> pending[d][u]] = m
    BY <2>2, <2>4, <1>1, <1>2, <1>3 DEF Delivered
  <2>5. CASE [id |-> u, tag |-> pending[d][u]] \in sends[d] /\ [id |-> u, tag |-> pending[d][u]] # m
    BY <2>5, <1>3 DEF Delivered, TagInv, TypeOK, ClientTypes
  <2> QED
    BY <2>1, <2>3, <2>4, <2>5, <1>3 DEF Delivered
<1>7. \A d \in Clients : phase'[d] # "replaying" => replay'[d] = {}
  BY <1>3 DEF TagInv, TypeOK
<1> QED
  BY <1>2, <1>4, <1>5, <1>6, <1>7 DEF TagInv, TypeOK

LEMMA ReplayStep ==
    ASSUME TagInv, NEW c \in Clients, NEW m \in replay[c], ReplayOne(c, m)
    PROVE  TagInv'
<1>0. m \in Send /\ m.id \in Tags /\ m.tag \in Tag
  BY TagFacts DEF TagInv, TypeOK, ClientTypes
<1>2. HubTypes' /\ (\A u \in Tags : hub[u].version <= hub'[u].version)
      /\ m.tag.version <= hub'[m.id].version
  BY <1>0, PublishFacts DEF TagInv, ReplayOne
<1>3. replay' = [replay EXCEPT ![c] = @ \ {m}]
      /\ UNCHANGED <<copy, phase, pending, sends, failed, historyVars, spent>>
  BY DEF ReplayOne
<1>4. ClientTypes' /\ HistoryTypes'
  BY <1>3 DEF TagInv, TypeOK, ClientTypes, HistoryTypes, historyVars
<1>6. Replaying'
  <2> SUFFICES ASSUME NEW d \in Clients, NEW u \in Tags, Connected(d)', u \notin failed'[d]
               PROVE  Delivered(d, u)' \/ [id |-> u, tag |-> pending'[d][u]] \in replay'[d]
    BY DEF Replaying
  <2>1. Delivered(d, u) \/ [id |-> u, tag |-> pending[d][u]] \in replay[d]
    BY <1>3 DEF TagInv, Replaying
  <2>2. /\ pending[d][u].version \in Nat /\ hub[u].version \in Nat /\ hub'[u].version \in Nat
        /\ m.tag.version \in Nat
    BY <1>0, <1>2, TagFacts DEF TagInv, TypeOK, ClientTypes, HubTypes
  <2>3. CASE Delivered(d, u)
    BY <2>2, <2>3, <1>2, <1>3 DEF Delivered
  <2>4. CASE [id |-> u, tag |-> pending[d][u]] = m
    BY <2>2, <2>4, <1>2, <1>3 DEF Delivered
  <2>5. CASE [id |-> u, tag |-> pending[d][u]] \in replay[d] /\ [id |-> u, tag |-> pending[d][u]] # m
    BY <2>5, <1>3 DEF TagInv, TypeOK, ClientTypes
  <2> QED
    BY <2>1, <2>3, <2>4, <2>5
<1>7. \A d \in Clients : phase'[d] # "replaying" => replay'[d] = {}
  BY <1>3 DEF TagInv, TypeOK, ClientTypes
<1> QED
  BY <1>2, <1>4, <1>6, <1>7 DEF TagInv, TypeOK

LEMMA WatchStep ==
    ASSUME TagInv, NEW c \in Clients, Watch(c)
    PROVE  TagInv'
<1> DEFINE first == [t \in Tags |-> IF hub[t] = Absent THEN <<>> ELSE <<hub[t]>>]
<1>1. first \in [Tags -> Seq(Tag)]
  BY DEF TagInv, TypeOK, HubTypes
<1>2. /\ phase[c] = "replaying" /\ replay[c] = {}
      /\ phase' = [phase EXCEPT ![c] = "watching"]
      /\ events' = [events EXCEPT ![c] = [t \in Tags |-> @[t] \o first[t]]]
      /\ UNCHANGED <<copy, pending, sends, replay, failed, hubVars, historyVars, spent>>
  BY DEF Watch, WatchFrom
<1> HIDE DEF first
<1>3. ClientTypes' /\ HistoryTypes'
  BY <1>2 DEF TagInv, TypeOK, ClientTypes, HistoryTypes, historyVars
<1>4. [t \in Tags |-> events[c][t] \o first[t]] \in [Tags -> Seq(Tag)]
  BY <1>1 DEF TagInv, TypeOK, HubTypes
<1>5. HubTypes'
  BY <1>2, <1>4 DEF TagInv, TypeOK, HubTypes, hubVars
<1>6. Replaying' /\ \A d \in Clients : phase'[d] # "replaying" => replay'[d] = {}
  BY <1>2 DEF TagInv, TypeOK, ClientTypes, Replaying, Delivered, hubVars
<1> QED
  BY <1>3, <1>5, <1>6 DEF TagInv, TypeOK

LEMMA FlushStep ==
    ASSUME TagInv, NEW written \in BOOLEAN, FlushTags(written)
    PROVE  TagInv'
<1>1. ClientTypes' /\ HubTypes' /\ HistoryTypes'
  BY DEF FlushTags, clientVars, historyVars, TagInv, TypeOK, ClientTypes, HubTypes, HistoryTypes
<1>2. Replaying' /\ \A d \in Clients : phase'[d] # "replaying" => replay'[d] = {}
  BY DEF FlushTags, clientVars, TagInv, TypeOK, Replaying, Delivered
<1> QED
  BY <1>1, <1>2 DEF TagInv, TypeOK

(* What a restart does to what is written down of it. *)
LEMMA RestartFacts ==
    ASSUME TagInv, HubRestart
    PROVE  \E unaware \in SUBSET {c \in Clients : phase[c] = "replaying"} :
              /\ hub' = disk /\ UNCHANGED <<copy, pending, sends, disk, historyVars>>
              /\ savePending' = FALSE /\ spent' = spent + 1
              /\ events' = [c \in Clients |-> [t \in Tags |-> <<>>]]
              /\ \A c \in unaware : /\ phase'[c] = "replaying" /\ replay'[c] = replay[c]
                                     /\ failed'[c] = failed[c] \cup Forgotten(c)
              /\ \A c \in Clients \ unaware :
                    /\ phase'[c] = IF Connected(c) THEN "off" ELSE phase[c]
                    /\ replay'[c] = {} /\ failed'[c] = failed[c]
              /\ phase' \in [Clients -> {"detached", "off", "replaying", "watching"}]
              /\ replay' \in [Clients -> SUBSET Send] /\ failed' \in [Clients -> SUBSET Tags]
<1>1. PICK unaware \in SUBSET {c \in Clients : phase[c] = "replaying"} :
         RestartMissedBy(unaware)
  BY DEF HubRestart
<1>2. \A c \in Clients : Forgotten(c) \in SUBSET Tags
  BY DEF Forgotten
<1>3. /\ phase' = [c \in Clients |-> IF Connected(c) /\ c \notin unaware
                                     THEN "off" ELSE phase[c]]
      /\ replay' = [c \in Clients |-> IF c \in unaware THEN replay[c] ELSE {}]
      /\ failed' = [c \in Clients |-> IF c \in unaware
                                      THEN failed[c] \cup Forgotten(c) ELSE failed[c]]
  BY <1>1 DEF RestartMissedBy
<1>4. phase' \in [Clients -> {"detached", "off", "replaying", "watching"}]
  BY <1>3 DEF TagInv, TypeOK, ClientTypes
<1>5. replay' \in [Clients -> SUBSET Send]
  BY <1>3 DEF TagInv, TypeOK, ClientTypes
<1>6. failed' \in [Clients -> SUBSET Tags]
  BY <1>2, <1>3 DEF TagInv, TypeOK, ClientTypes
<1>7. \A c \in unaware : /\ phase'[c] = "replaying" /\ replay'[c] = replay[c]
                         /\ failed'[c] = failed[c] \cup Forgotten(c)
  BY <1>3
<1>8. \A c \in Clients \ unaware : /\ phase'[c] = IF Connected(c) THEN "off" ELSE phase[c]
                                   /\ replay'[c] = {} /\ failed'[c] = failed[c]
  BY <1>3
<1> QED
  BY <1>1, <1>4, <1>5, <1>6, <1>7, <1>8 DEF RestartMissedBy, Spend

(* A client that stays connected to a hub that has forgotten tags sends them *)
(* again, or they count as failed.                                           *)
LEMMA RestartStep ==
    ASSUME TagInv, HubRestart
    PROVE  TagInv'
<1>0. PICK unaware \in SUBSET {c \in Clients : phase[c] = "replaying"} :
         /\ hub' = disk /\ UNCHANGED <<copy, pending, sends, disk, historyVars>>
         /\ savePending' = FALSE /\ spent' = spent + 1
         /\ events' = [c \in Clients |-> [t \in Tags |-> <<>>]]
         /\ \A c \in unaware : /\ phase'[c] = "replaying" /\ replay'[c] = replay[c]
                                /\ failed'[c] = failed[c] \cup Forgotten(c)
         /\ \A c \in Clients \ unaware :
               /\ phase'[c] = IF Connected(c) THEN "off" ELSE phase[c]
               /\ replay'[c] = {} /\ failed'[c] = failed[c]
         /\ phase' \in [Clients -> {"detached", "off", "replaying", "watching"}]
         /\ replay' \in [Clients -> SUBSET Send] /\ failed' \in [Clients -> SUBSET Tags]
  BY RestartFacts
<1>1. ClientTypes' /\ HistoryTypes'
  BY <1>0 DEF historyVars, TagInv, TypeOK, ClientTypes, HistoryTypes
<1>2. HubTypes'
  <2>1. [c \in Clients |-> [t \in Tags |-> <<>>]] \in [Clients -> [Tags -> Seq(Tag)]]
    OBVIOUS
  <2> QED
    BY <1>0, <2>1 DEF TagInv, TypeOK, HubTypes
<1>3. \A d \in Clients : phase'[d] # "replaying" => replay'[d] = {}
  BY <1>0
<1>4. Replaying'
  <2> SUFFICES ASSUME NEW d \in Clients, NEW u \in Tags, Connected(d)', u \notin failed'[d]
               PROVE  Delivered(d, u)' \/ [id |-> u, tag |-> pending'[d][u]] \in replay'[d]
    BY DEF Replaying
  <2>1. d \in unaware
    BY <1>0
  <2>2. u \notin Forgotten(d) /\ pending' = pending /\ sends' = sends /\ hub' = disk
        /\ replay'[d] = replay[d]
    BY <1>0, <2>1
  <2>3. pending[d][u].version \in Nat /\ disk[u].version \in Nat
    BY TagFacts DEF TagInv, TypeOK, ClientTypes, HubTypes
  <2> QED
    BY <2>2, <2>3 DEF Forgotten, Delivered
<1> QED
  BY <1>1, <1>2, <1>3, <1>4 DEF TagInv, TypeOK

LEMMA StepTagInv == TagInv /\ [Next]_vars => TagInv'
<1> SUFFICES ASSUME TagInv, [Next]_vars PROVE TagInv'
  OBVIOUS
<1>1. CASE Next
  <2>1. ASSUME NEW c \in Clients, User(c) PROVE TagInv'
    BY <2>1, AttachStep, UserStep DEF User
  <2>2. ASSUME NEW c \in Clients, Sync(c) PROVE TagInv'
    BY <2>2, ConnectStep, WatchStep, SkipStep, HandleStep, ReplayStep, UpsertStep DEF Sync
  <2>3. ASSUME NEW c \in Clients, Trouble(c) PROVE TagInv'
    BY <2>3, EndStep, FailReplayStep, SkipStep DEF Trouble
  <2> QED
    BY <1>1, <2>1, <2>2, <2>3, FlushStep, RestartStep DEF Next
<1>2. CASE UNCHANGED vars
  <2>1. ClientTypes' /\ HubTypes' /\ HistoryTypes'
    BY <1>2 DEF vars, clientVars, hubVars, historyVars, TagInv, TypeOK,
       ClientTypes, HubTypes, HistoryTypes
  <2>2. Replaying' /\ \A d \in Clients : phase'[d] # "replaying" => replay'[d] = {}
    BY <1>2 DEF vars, clientVars, hubVars, TagInv, TypeOK, Replaying, Delivered
  <2> QED
    BY <2>1, <2>2 DEF TagInv, TypeOK
<1> QED
  BY <1>1, <1>2

(* The variables of the tag protocol keep their types in every behaviour. *)
THEOREM TagsTypeCorrect == Spec => []TypeOK
<1>1. TagInv => TypeOK
  BY DEF TagInv
<1> QED
  BY <1>1, InitTagInv, StepTagInv, PTL DEF Spec

(* Once a client watches the hub, each of its changes is at the hub, is      *)
(* superseded there, or is on its way, however its sends met the end of one  *)
(* session, the start of the next and crashes of the hub.  Only what failed  *)
(* to be sent within the session is left out, and what the hub forgot in a   *)
(* restart that the client missed in the middle of its replay.               *)
THEOREM TagsCarried == Spec => []Carried
<1>1. TagInv => Carried
  BY DEF TagInv, TypeOK, Replaying, Carried
<1> QED
  BY <1>1, InitTagInv, StepTagInv, PTL DEF Spec

----------------------------------------------------------------------------
(* One content for each version.                                            *)

(* Content x of tag t is somewhere: at a client, on its way, or at the hub.  *)
Holds(t, x) ==
    \/ x = hub[t] \/ x = disk[t]
    \/ \E c \in Clients :
          \/ x = copy[c][t] \/ x = pending[c][t]
          \/ [id |-> t, tag |-> x] \in sends[c] \cup replay[c]
          \/ \E i \in DOMAIN events[c][t] : x = events[c][t][i]

(* What is anywhere was written by someone, and as long as no two have       *)
(* written the same version, a version has one content.                      *)
OneContent ==
    \A t \in Tags :
        /\ 0 \notin issued[t]
        /\ \A x \in Tag : Holds(t, x) => x = Absent \/ x.version \in issued[t]
        /\ t \notin clash =>
              \A x, y \in Tag : Holds(t, x) /\ Holds(t, y) /\ x.version = y.version
                                  => x = y

(* The content that a client stands for: it publishes it on every connect,   *)
(* or will when it attaches.                                                 *)
Base(a, t) == IF phase[a] = "detached" THEN copy[a][t] ELSE pending[a][t]

(* Contents are passed on, or forgotten. *)
Moves ==
    /\ UNCHANGED historyVars
    /\ \A t \in Tags, x \in Tag : Holds(t, x)' => Holds(t, x) \/ x = Absent

(* Somebody writes the version after one that there is, and does not revive  *)
(* a deleted tag; it is a client that stands for it, or the hub, which       *)
(* rewrites a tombstone.                                                     *)
Writes(t, tag) ==
    /\ Issue(t, tag.version)
    /\ \E x \in Tag : /\ Holds(t, x) /\ tag.version = x.version + 1
                      /\ x.deleted => tag.deleted
    /\ \/ \E a \in Clients : Base(a, t)' = tag
       \/ tag.deleted /\ \E y \in Tag : Holds(t, y) /\ y.deleted
    /\ \A u \in Tags, x \in Tag :
          Holds(u, x)' => Holds(u, x) \/ x = Absent \/ (u = t /\ x = tag)

LEMMA SendParts ==
    ASSUME NEW t, NEW u, NEW x, NEW y, [id |-> t, tag |-> x] = [id |-> u, tag |-> y]
    PROVE  t = u /\ x = y
<1>1. [id |-> t, tag |-> x].id = t /\ [id |-> t, tag |-> x].tag = x
  OBVIOUS
<1>2. [id |-> u, tag |-> y].id = u /\ [id |-> u, tag |-> y].tag = y
  OBVIOUS
<1> QED
  BY <1>1, <1>2

(* A step that only moves contents, or forgets them. *)
LEMMA MovedOne ==
    ASSUME OneContent, Moves
    PROVE  OneContent'
<1>1. Absent \in Tag /\ Absent.version = 0
  BY TagFacts DEF Absent
<1>2. issued' = issued /\ clash' = clash
  BY DEF Moves, historyVars
<1> QED
  BY <1>1, <1>2 DEF OneContent, Moves

(* A step in which somebody writes a version. *)
LEMMA WrittenOne ==
    ASSUME OneContent, issued \in [Tags -> SUBSET Nat], NEW t \in Tags, NEW tag \in Tag,
           Writes(t, tag)
    PROVE  OneContent'
<1>0. /\ Issue(t, tag.version) /\ tag.version > 0
      /\ \A u \in Tags, x \in Tag :
            Holds(u, x)' => Holds(u, x) \/ x = Absent \/ (u = t /\ x = tag)
  BY TagFacts DEF Writes
<1>1. Absent \in Tag /\ Absent.version = 0
  BY TagFacts DEF Absent
<1>2. /\ \A u \in Tags : u # t => issued'[u] = issued[u] /\ (u \in clash' <=> u \in clash)
      /\ issued'[t] = issued[t] \cup {tag.version}
      /\ t \notin clash' => t \notin clash /\ tag.version \notin issued[t]
  BY <1>0 DEF Issue
<1>3. tag.version # 0
  BY <1>0, TagFacts
<1>4. ASSUME NEW u \in Tags PROVE 0 \notin issued'[u]
  BY <1>2, <1>3 DEF OneContent
<1>5. ASSUME NEW u \in Tags, NEW x \in Tag, Holds(u, x)'
      PROVE  x = Absent \/ x.version \in issued'[u]
  BY <1>0, <1>2, <1>5 DEF OneContent
<1>6. ASSUME NEW u \in Tags, u \notin clash', NEW x \in Tag, NEW y \in Tag,
             Holds(u, x)', Holds(u, y)', x.version = y.version
      PROVE  x = y
  <2>1. u \notin clash
    BY <1>2, <1>6
  <2>2. CASE u # t
    BY <1>0, <1>1, <1>6, <2>1, <2>2 DEF OneContent
  <2>3. CASE u = t
    <3>1. \A z \in Tag : Holds(t, z) => z.version # tag.version
      BY <1>1, <1>2, <1>3, <1>6, <2>3 DEF OneContent
    <3> QED
      BY <1>0, <1>1, <1>3, <1>6, <2>1, <2>3, <3>1 DEF OneContent
  <2> QED
    BY <2>2, <2>3
<1> QED
  BY <1>4, <1>5, <1>6 DEF OneContent

(* The next version of what a client has, which stays deleted if it was. *)
Derived(c, t, tag) ==
    tag.version = copy[c][t].version + 1 /\ (copy[c][t].deleted => tag.deleted)

LEMMA LocalWrites ==
    ASSUME TagInv, NEW c \in Clients, NEW t \in Tags, NEW tag \in Tag,
           Local(c, t, tag), Derived(c, t, tag)
    PROVE  Writes(t, tag)
<1>0. /\ issued \in [Tags -> SUBSET Nat] /\ copy \in [Clients -> [Tags -> Tag]]
      /\ pending \in [Clients -> [Tags -> Tag]] /\ sends \in [Clients -> SUBSET Send]
  BY DEF TagInv, TypeOK, ClientTypes, HistoryTypes
<1>1. /\ hub' = hub /\ disk' = disk /\ events' = events /\ replay' = replay
      /\ Issue(t, tag.version) /\ copy' = [copy EXCEPT ![c][t] = tag]
      /\ \/ pending' = pending /\ sends' = sends
         \/ /\ pending' = [pending EXCEPT ![c][t] = tag]
            /\ sends' = [sends EXCEPT ![c] = @ \cup {[id |-> t, tag |-> tag]}]
  BY DEF Local, hubVars
<1>2. ASSUME NEW u \in Tags, NEW x \in Tag, Holds(u, x)'
      PROVE  Holds(u, x) \/ (u = t /\ x = tag)
  <2>1. \A d \in Clients : copy'[d][u] = copy[d][u] \/ (u = t /\ copy'[d][u] = tag)
    BY <1>0, <1>1
  <2>2. \A d \in Clients : pending'[d][u] = pending[d][u] \/ (u = t /\ pending'[d][u] = tag)
    BY <1>0, <1>1
  <2>3. \A d \in Clients : [id |-> u, tag |-> x] \in sends'[d] =>
           [id |-> u, tag |-> x] \in sends[d] \/ (u = t /\ x = tag)
    <3>1. \A d \in Clients : sends'[d] \subseteq sends[d] \cup {[id |-> t, tag |-> tag]}
      BY <1>0, <1>1
    <3>2. [id |-> u, tag |-> x] = [id |-> t, tag |-> tag] => u = t /\ x = tag
      BY SendParts
    <3> QED
      BY <3>1, <3>2
  <2> QED
    BY <1>1, <1>2, <2>1, <2>2, <2>3 DEF Holds
<1>3. copy[c][t] \in Tag /\ Holds(t, copy[c][t])
  BY <1>0 DEF Holds
<1>4. Base(c, t)' = tag
  <2>1. copy'[c][t] = tag /\ phase' = phase
    BY <1>0 DEF Local
  <2>2. phase[c] # "detached" => pending'[c][t] = tag
    BY <1>0 DEF Local
  <2> QED
    BY <2>1, <2>2 DEF Base
<1> QED
  BY <1>1, <1>2, <1>3, <1>4 DEF Writes, Derived

LEMMA UserDerives ==
    ASSUME TagInv, OneContent, NEW c \in Clients, NEW t \in Tags,
           Add(c, t) \/ Edit(c, t) \/ RemoveTag(c, t)
    PROVE  \E tag \in Tag : Local(c, t, tag) /\ Derived(c, t, tag)
<1>1. copy[c][t] \in Tag /\ Absent \in Tag /\ Holds(t, copy[c][t])
  BY TagFacts DEF TagInv, TypeOK, ClientTypes, Holds
<1>2. \A x \in Tag, b \in BOOLEAN :
         /\ Bump(x, b, c) \in Tag
         /\ Bump(x, b, c).version = x.version + 1 /\ Bump(x, b, c).deleted = b
  BY TagFacts DEF Bump
<1>3. copy[c][t].deleted \in BOOLEAN
  BY <1>1, TagFacts
<1>4. CASE Add(c, t)
  <2>1. copy[c][t] = Absent
    BY <1>1, <1>4 DEF Add, OneContent
  <2>2. Local(c, t, Bump(Absent, FALSE, c)) /\ ~Absent.deleted
    BY <1>4 DEF Add, Absent
  <2> QED
    BY <1>1, <1>2, <2>1, <2>2 DEF Derived
<1>5. CASE Edit(c, t) \/ RemoveTag(c, t)
  <2>1. PICK b \in BOOLEAN : /\ Local(c, t, Bump(copy[c][t], b, c))
                             /\ copy[c][t].deleted => b
    BY <1>3, <1>5 DEF Edit, RemoveTag
  <2> QED
    BY <1>1, <1>2, <2>1 DEF Derived
<1> QED
  BY <1>4, <1>5

LEMMA UpsertMoves ==
    ASSUME TagInv, NEW c \in Clients, NEW t \in Tags, Upsert(c, t)
    PROVE  Moves
<1>0. /\ copy \in [Clients -> [Tags -> Tag]] /\ events \in [Clients -> [Tags -> Seq(Tag)]]
      /\ events[c][t] \in Seq(Tag) /\ events[c][t] # <<>>
  BY DEF TagInv, TypeOK, ClientTypes, HubTypes, Upsert, UpsertIf
<1>1. /\ hub' = hub /\ disk' = disk /\ pending' = pending /\ replay' = replay
      /\ sends' = sends /\ UNCHANGED historyVars
      /\ events' = [events EXCEPT ![c][t] = Tail(@)]
      /\ copy' \in {copy, [copy EXCEPT ![c][t] = Head(events[c][t])]}
  BY <1>0 DEF Upsert, UpsertIf, hubVars
<1>2. /\ Head(events[c][t]) = events[c][t][1] /\ 1 \in DOMAIN events[c][t]
      /\ \A i \in DOMAIN Tail(events[c][t]) :
            i + 1 \in DOMAIN events[c][t] /\ Tail(events[c][t])[i] = events[c][t][i + 1]
  BY <1>0
<1>3. ASSUME NEW u \in Tags, NEW x \in Tag, Holds(u, x)' PROVE Holds(u, x)
  <2>1. \A d \in Clients : \/ copy'[d][u] = copy[d][u]
                           \/ d = c /\ u = t /\ copy'[d][u] = events[c][t][1]
    BY <1>0, <1>1, <1>2
  <2>2. \A d \in Clients : \/ events'[d][u] = events[d][u]
                           \/ d = c /\ u = t /\ events'[d][u] = Tail(events[c][t])
    BY <1>0, <1>1
  <2>3. ASSUME NEW d \in Clients, NEW i \in DOMAIN events'[d][u], x = events'[d][u][i]
        PROVE  Holds(u, x)
    BY <1>2, <2>2, <2>3, ZenonT(30) DEF Holds
  <2> QED
    BY <1>1, <1>2, <1>3, <2>1, <2>3 DEF Holds
<1> QED
  BY <1>1, <1>3 DEF Moves

(* Attaching, detaching, breaking and connecting move what a client has. *)
LEMMA SessionMoves ==
    ASSUME TagInv, NEW c \in Clients,
           Attach(c) \/ Detach(c) \/ Break(c) \/ Connect(c)
    PROVE  Moves
<1>0. /\ copy \in [Clients -> [Tags -> Tag]] /\ pending \in [Clients -> [Tags -> Tag]]
      /\ sends \in [Clients -> SUBSET Send] /\ replay \in [Clients -> SUBSET Send]
      /\ events \in [Clients -> [Tags -> Seq(Tag)]]
  BY DEF TagInv, TypeOK, ClientTypes, HubTypes
<1>1. /\ hub' = hub /\ disk' = disk /\ copy' = copy /\ UNCHANGED historyVars
      /\ \/ events' = events
         \/ events' = [events EXCEPT ![c] = [t \in Tags |-> <<>>]]
  BY DEF Attach, Detach, Break, Connect, ConnectWith, EndSession, hubVars
<1>2. \/ pending' = pending
      \/ pending' = [pending EXCEPT ![c] = copy[c]]
      \/ pending' = [pending EXCEPT ![c] = [t \in Tags |-> Absent]]
  BY DEF Attach, Detach, Break, Connect, ConnectWith
<1>3. \A d \in Clients, u \in Tags, x \in Tag : [id |-> u, tag |-> x] \in sends'[d] =>
         [id |-> u, tag |-> x] \in sends[d] \/ x = copy[d][u]
  <2>1. \/ sends' = sends
        \/ sends' = [sends EXCEPT ![c] = {}]
        \/ sends' = [sends EXCEPT ![c] = {[id |-> t, tag |-> copy[c][t]] :
                                          t \in {u \in Tags : copy[c][u] # Absent}}]
    BY DEF Attach, Detach, Break, Connect, ConnectWith
  <2>2. \A d \in Clients : \A m \in sends'[d] :
           m \in sends[d] \/ \E t \in Tags : d = c /\ m = [id |-> t, tag |-> copy[c][t]]
    BY <1>0, <2>1
  <2> QED
    BY <2>2, SendParts
<1>4. \A d \in Clients, u \in Tags, x \in Tag : [id |-> u, tag |-> x] \in replay'[d] =>
         [id |-> u, tag |-> x] \in replay[d] \/ x = pending[d][u]
  <2>1. \/ replay' = replay
        \/ replay' = [replay EXCEPT ![c] = {}]
        \/ replay' = [replay EXCEPT ![c] = Pending(c)]
    BY DEF Attach, Detach, Break, Connect, ConnectWith, EndSession
  <2>2. \A d \in Clients : \A m \in replay'[d] :
           m \in replay[d] \/ \E t \in Tags : d = c /\ m = [id |-> t, tag |-> pending[c][t]]
    BY <1>0, <2>1 DEF Pending
  <2> QED
    BY <2>2, SendParts
<1>5. ASSUME NEW u \in Tags, NEW x \in Tag, Holds(u, x)' PROVE Holds(u, x) \/ x = Absent
  <2>1. \A d \in Clients : pending'[d][u] \in {pending[d][u], copy[d][u], Absent}
    BY <1>0, <1>2
  <2>2. \A d \in Clients : events'[d][u] \in {events[d][u], <<>>}
    BY <1>0, <1>1
  <2>3. ASSUME NEW d \in Clients, NEW i \in DOMAIN events'[d][u], x = events'[d][u][i]
        PROVE  Holds(u, x)
    BY <2>2, <2>3 DEF Holds
  <2> QED
    BY <1>1, <1>3, <1>4, <1>5, <2>1, <2>3 DEF Holds
<1> QED
  BY <1>1, <1>5 DEF Moves

(* A request that is given up, or a replay, takes its contents with it. *)
LEMMA DroppedMoves ==
    ASSUME TagInv, NEW c \in Clients,
           \/ \E m \in sends[c] : Skip(c, m) \/ FailSend(c, m)
           \/ FailReplay(c)
    PROVE  Moves
<1>0. sends \in [Clients -> SUBSET Send] /\ replay \in [Clients -> SUBSET Send]
  BY DEF TagInv, TypeOK, ClientTypes
<1>1. /\ hub' = hub /\ disk' = disk /\ copy' = copy /\ UNCHANGED historyVars
      /\ pending' = pending /\ events' = events
      /\ \A d \in Clients : sends'[d] \subseteq sends[d] /\ replay'[d] \subseteq replay[d]
  BY <1>0 DEF Skip, FailSend, FailReplay, hubVars
<1>2. ASSUME NEW u \in Tags, NEW x \in Tag, Holds(u, x)' PROVE Holds(u, x)
  BY <1>1, <1>2 DEF Holds
<1> QED
  BY <1>1, <1>2 DEF Moves

(* What is held after the hub has published a tag that a client had sent. *)
LEMMA PublishedHeld ==
    ASSUME TypeOK, NEW t \in Tags, NEW tag \in Tag, PublishTag(t, tag),
           UNCHANGED <<copy, pending>>,
           \A d \in Clients : sends'[d] \subseteq sends[d] /\ replay'[d] \subseteq replay[d]
    PROVE  \A u \in Tags, x \in Tag : Holds(u, x)' => Holds(u, x) \/ (u = t /\ x = tag)
<1> SUFFICES ASSUME NEW u \in Tags, NEW x \in Tag, Holds(u, x)'
             PROVE  Holds(u, x) \/ (u = t /\ x = tag)
  OBVIOUS
<1>0. hub \in [Tags -> Tag] /\ events \in [Clients -> [Tags -> Seq(Tag)]]
  BY DEF TypeOK, HubTypes
<1>1. CASE ~ Wins(tag, hub[t])
  BY <1>1 DEF PublishTag, Holds, hubVars
<1>2. CASE Wins(tag, hub[t])
  <2>1. hub' = [hub EXCEPT ![t] = tag] /\ disk' = disk /\ events' = Fanned(t, tag)
    BY <1>2 DEF PublishTag
  <2>2. hub'[u] = hub[u] \/ (u = t /\ hub'[u] = tag)
    BY <1>0, <2>1
  <2>3. \A d \in Clients : \/ events'[d][u] = events[d][u]
                           \/ u = t /\ events'[d][u] = Append(events[d][u], tag)
    BY <1>0, <2>1 DEF Fanned
  <2>4. \A q \in Seq(Tag) : \A i \in DOMAIN Append(q, tag) :
           \/ Append(q, tag)[i] = tag
           \/ i \in DOMAIN q /\ Append(q, tag)[i] = q[i]
    OBVIOUS
  <2>5. ASSUME NEW d \in Clients, NEW i \in DOMAIN events'[d][u], x = events'[d][u][i]
        PROVE  Holds(u, x) \/ (u = t /\ x = tag)
    <3>1. CASE events'[d][u] = events[d][u]
      BY <2>5, <3>1 DEF Holds
    <3>2. CASE u = t /\ events'[d][u] = Append(events[d][u], tag)
      <4>1. \/ x = tag
            \/ i \in DOMAIN events[d][u] /\ x = events[d][u][i]
        BY <1>0, <2>4, <2>5, <3>2
      <4> QED
        BY <3>2, <4>1 DEF Holds
    <3> QED
      BY <2>3, <3>1, <3>2
  <2> QED
    BY <2>1, <2>2, <2>5 DEF Holds
<1> QED
  BY <1>1, <1>2

LEMMA ReplayedMoves ==
    ASSUME TagInv, NEW c \in Clients, NEW m \in replay[c], ReplayOne(c, m)
    PROVE  Moves
<1>0. /\ m.id \in Tags /\ m.tag \in Tag /\ m = [id |-> m.id, tag |-> m.tag]
      /\ replay \in [Clients -> SUBSET Send]
  BY TagFacts DEF TagInv, TypeOK, ClientTypes, Send
<1>1. /\ PublishTag(m.id, m.tag) /\ UNCHANGED historyVars /\ UNCHANGED <<copy, pending>>
      /\ \A d \in Clients : sends'[d] \subseteq sends[d] /\ replay'[d] \subseteq replay[d]
  BY <1>0 DEF ReplayOne
<1>2. Holds(m.id, m.tag)
  BY <1>0 DEF Holds
<1> QED
  BY <1>0, <1>1, <1>2, PublishedHeld DEF TagInv, Moves

LEMMA HandledWrites ==
    ASSUME TagInv, NEW c \in Clients, NEW m \in sends[c],
           HandlePublish(c, m) \/ HandleDelete(c, m)
    PROVE  Moves \/ \E tag \in Tag : Writes(m.id, tag)
<1>0. /\ m.id \in Tags /\ m.tag \in Tag /\ m = [id |-> m.id, tag |-> m.tag]
      /\ sends \in [Clients -> SUBSET Send]
  BY TagFacts DEF TagInv, TypeOK, ClientTypes, Send
<1>1. /\ UNCHANGED <<copy, pending>>
      /\ \A d \in Clients : sends'[d] \subseteq sends[d] /\ replay'[d] \subseteq replay[d]
  BY <1>0 DEF HandlePublish, HandleDelete, Handled
<1>2. Holds(m.id, m.tag)
  BY <1>0 DEF Holds
<1>3. CASE HandlePublish(c, m)
  <2>1. PublishTag(m.id, m.tag) /\ UNCHANGED historyVars
    BY <1>3 DEF HandlePublish
  <2> QED
    BY <1>0, <1>1, <1>2, <2>1, PublishedHeld DEF TagInv, Moves
<1>4. CASE HandleDelete(c, m)
  <2> DEFINE tomb == Tombstone(m.id, m.tag)
  <2>1. PublishTag(m.id, tomb)
    BY <1>4 DEF HandleDelete
  <2>2. hub[m.id].version \in Nat
    BY <1>0, TagFacts DEF TagInv, TypeOK, HubTypes
  <2>3. tomb \in Tag
    BY <1>0, <2>2 DEF Tombstone, Tag
  <2>4. CASE tomb = m.tag
    <3>1. UNCHANGED historyVars
      BY <1>4, <2>4 DEF HandleDelete
    <3> QED
      BY <1>0, <1>1, <1>2, <2>1, <2>3, <2>4, <3>1, PublishedHeld DEF TagInv, Moves
  <2>5. CASE tomb # m.tag
    <3>1. Issue(m.id, tomb.version)
      BY <1>4, <2>5 DEF HandleDelete
    <3>2. tomb.version = hub[m.id].version + 1 /\ tomb.deleted /\ m.tag.deleted
      <4>1. m.tag.deleted /\ tomb.deleted = m.tag.deleted
        BY <1>0, <1>4 DEF HandleDelete, Tombstone, Tag
      <4>2. tomb.version = hub[m.id].version + 1
        BY <1>0, <2>2, <2>5 DEF Tombstone, Tag
      <4> QED
        BY <4>1, <4>2
    <3>3. hub[m.id] \in Tag /\ Holds(m.id, hub[m.id])
      BY <1>0 DEF TagInv, TypeOK, HubTypes, Holds
    <3> HIDE DEF tomb
    <3>4. \A u \in Tags, x \in Tag : Holds(u, x)' => Holds(u, x) \/ (u = m.id /\ x = tomb)
      BY <1>0, <1>1, <2>1, <2>3, PublishedHeld DEF TagInv
    <3> QED
      BY <1>0, <1>2, <2>3, <3>1, <3>2, <3>3, <3>4 DEF Writes
  <2> QED
    BY <2>4, <2>5
<1> QED
  BY <1>3, <1>4

LEMMA WatchMoves ==
    ASSUME TagInv, NEW c \in Clients, Watch(c)
    PROVE  Moves
<1> DEFINE first == [t \in Tags |-> IF hub[t] = Absent THEN <<>> ELSE <<hub[t]>>]
<1>0. hub \in [Tags -> Tag] /\ events \in [Clients -> [Tags -> Seq(Tag)]]
  BY DEF TagInv, TypeOK, HubTypes
<1>1. /\ hub' = hub /\ disk' = disk /\ UNCHANGED historyVars
      /\ UNCHANGED <<copy, pending, sends, replay>>
      /\ events' = [events EXCEPT ![c] = [t \in Tags |-> @[t] \o first[t]]]
  BY DEF Watch, WatchFrom, hubVars
<1>2. \A q \in Seq(Tag), tag \in Tag : \A i \in DOMAIN (q \o <<tag>>) :
         \/ (q \o <<tag>>)[i] = tag
         \/ i \in DOMAIN q /\ (q \o <<tag>>)[i] = q[i]
  OBVIOUS
<1>3. \A d \in Clients, u \in Tags :
         \/ events'[d][u] = events[d][u]
         \/ events'[d][u] = events[d][u] \o <<hub[u]>>
  <2>1. \A d \in Clients : d # c => events'[d] = events[d]
    BY <1>0, <1>1
  <2>2. events'[c] = [t \in Tags |-> events[c][t] \o first[t]]
    BY <1>0, <1>1
  <2>3. \A q \in Seq(Tag) : q \o <<>> = q
    OBVIOUS
  <2>4. \A u \in Tags : first[u] = <<>> \/ first[u] = <<hub[u]>>
    OBVIOUS
  <2> HIDE DEF first
  <2>5. \A u \in Tags : \/ events'[c][u] = events[c][u]
                        \/ events'[c][u] = events[c][u] \o <<hub[u]>>
    <3> SUFFICES ASSUME NEW u \in Tags
                 PROVE  \/ events'[c][u] = events[c][u]
                        \/ events'[c][u] = events[c][u] \o <<hub[u]>>
      OBVIOUS
    <3>1. events'[c][u] = events[c][u] \o first[u]
      BY <2>2
    <3>2. events[c][u] \in Seq(Tag)
      BY <1>0
    <3>3. CASE first[u] = <<>>
      BY <2>3, <3>1, <3>2, <3>3
    <3>4. CASE first[u] = <<hub[u]>>
      BY <3>1, <3>4
    <3> QED
      BY <2>4, <3>3, <3>4
  <2> QED
    BY <2>1, <2>5
<1>4. ASSUME NEW u \in Tags, NEW x \in Tag, Holds(u, x)' PROVE Holds(u, x)
  <2>1. ASSUME NEW d \in Clients, NEW i \in DOMAIN events'[d][u], x = events'[d][u][i]
        PROVE  Holds(u, x)
    <3>1. CASE events'[d][u] = events[d][u]
      BY <2>1, <3>1 DEF Holds
    <3>2. CASE events'[d][u] = events[d][u] \o <<hub[u]>>
      <4>1. \/ x = hub[u]
            \/ i \in DOMAIN events[d][u] /\ x = events[d][u][i]
        BY <1>0, <1>2, <2>1, <3>2
      <4> QED
        BY <4>1 DEF Holds
    <3> QED
      BY <1>3, <3>1, <3>2
  <2> QED
    BY <1>1, <1>4, <2>1 DEF Holds
<1> QED
  BY <1>1, <1>4 DEF Moves

LEMMA HubMoves ==
    ASSUME TagInv,
           HubRestart \/ \E written \in BOOLEAN : FlushTags(written)
    PROVE  Moves
<1>1. UNCHANGED historyVars /\ UNCHANGED <<copy, pending, sends>>
  BY DEF HubRestart, RestartMissedBy, FlushTags, clientVars
<1>2. hub' \in {hub, disk} /\ disk' \in {hub, disk}
  BY DEF HubRestart, RestartMissedBy, FlushTags
<1>3. /\ events' = events \/ events' = [c \in Clients |-> [t \in Tags |-> <<>>]]
      /\ \A c \in Clients : replay'[c] \subseteq replay[c]
  <2>1. CASE HubRestart
    BY <2>1 DEF HubRestart, RestartMissedBy
  <2>2. CASE \E written \in BOOLEAN : FlushTags(written)
    BY <2>2 DEF FlushTags, clientVars
  <2> QED
    BY <2>1, <2>2
<1>4. ASSUME NEW u \in Tags, NEW x \in Tag, Holds(u, x)' PROVE Holds(u, x)
  BY <1>1, <1>2, <1>3, <1>4 DEF Holds
<1> QED
  BY <1>1, <1>4 DEF Moves

LEMMA StepMoves ==
    ASSUME TagInv, OneContent, [Next]_vars
    PROVE  Moves \/ \E t \in Tags : \E tag \in Tag : Writes(t, tag)
<1> DEFINE Goal == Moves \/ \E t \in Tags : \E tag \in Tag : Writes(t, tag)
<1>1. ASSUME NEW c \in Clients, User(c) PROVE Goal
  <2>1. CASE Attach(c)
    BY <2>1, SessionMoves
  <2>2. ASSUME NEW t \in Tags, Add(c, t) \/ Edit(c, t) \/ RemoveTag(c, t)
        PROVE  \E tag \in Tag : Writes(t, tag)
    BY <2>2, UserDerives, LocalWrites
  <2> QED
    BY <1>1, <2>1, <2>2 DEF User
<1>2. ASSUME NEW c \in Clients, Sync(c) PROVE Goal
  <2>1. ASSUME NEW m \in sends[c], HandlePublish(c, m) \/ HandleDelete(c, m)
        PROVE  Goal
    <3>1. m.id \in Tags
      BY TagFacts DEF TagInv, TypeOK, ClientTypes
    <3> QED
      BY <2>1, <3>1, HandledWrites
  <2> QED
    BY <1>2, <2>1, SessionMoves, WatchMoves, DroppedMoves, ReplayedMoves, UpsertMoves DEF Sync
<1>3. ASSUME NEW c \in Clients, Trouble(c) PROVE Moves
  BY <1>3, SessionMoves, DroppedMoves DEF Trouble
<1>4. CASE UNCHANGED vars
  BY <1>4 DEF vars, clientVars, hubVars, historyVars, Moves, Holds
<1> QED
  BY <1>1, <1>2, <1>3, <1>4, HubMoves DEF Next

LEMMA StepOneContent == TagInv /\ OneContent /\ [Next]_vars => OneContent'
<1> SUFFICES ASSUME TagInv, OneContent, [Next]_vars PROVE OneContent'
  OBVIOUS
<1>1. issued \in [Tags -> SUBSET Nat]
  BY DEF TagInv, TypeOK, HistoryTypes
<1> QED
  BY <1>1, StepMoves, MovedOne, WrittenOne

LEMMA InitOneContent == Init => OneContent
<1> SUFFICES ASSUME Init PROVE OneContent
  OBVIOUS
<1>1. \A t \in Tags, x \in Tag : Holds(t, x) => x = Absent
  BY DEF Init, Holds
<1> QED
  BY <1>1 DEF Init, OneContent

(* A client that has sent everything holds nothing back that would change    *)
(* what is shown: a reconnect leaves the timeline alone, but for a tag that  *)
(* was written twice in one version, and for what failed to be sent, or was  *)
(* forgotten by a hub whose restart the client missed.                       *)
THEOREM TagsSettle == Spec => []Settled
<1>1. TagInv /\ OneContent => Settled
  <2> SUFFICES ASSUME TagInv, OneContent, NEW c \in Clients, NEW t \in Tags,
                      Drained(c), t \notin failed[c] \cup clash, Wins(pending[c][t], hub[t])
               PROVE  Shown(pending[c][t]) = Shown(hub[t])
    BY DEF Settled
  <2>1. pending[c][t] \in Tag /\ hub[t] \in Tag
    BY DEF TagInv, TypeOK, ClientTypes, HubTypes
  <2>2. pending[c][t].version <= hub[t].version
    BY DEF TagInv, TypeOK, Replaying, Delivered, Drained
  <2>3. pending[c][t].version = hub[t].version
    BY <2>1, <2>2, TagFacts DEF Wins
  <2>4. Holds(t, pending[c][t]) /\ Holds(t, hub[t])
    BY DEF Holds
  <2> QED
    BY <2>1, <2>3, <2>4 DEF OneContent
<1> QED
  BY <1>1, InitTagInv, StepTagInv, InitOneContent, StepOneContent, PTL DEF Spec

(* A tag that was deleted on a client comes back to it only in a newer       *)
(* version, unless two clients wrote the same version.                       *)
THEOREM TagsStayDeleted == Spec => DeletesStay
<1>1. ASSUME TagInv, OneContent, [Next]_vars, NEW c \in Clients, NEW t \in Tags,
             copy[c][t].deleted, ~copy'[c][t].deleted
      PROVE  copy'[c][t].version > copy[c][t].version \/ t \in clash
  <2>0. /\ copy \in [Clients -> [Tags -> Tag]] /\ copy[c][t] \in Tag /\ Absent \in Tag
        /\ copy[c][t].version \in Nat /\ Holds(t, copy[c][t])
    BY <1>1, TagFacts DEF TagInv, TypeOK, ClientTypes, Holds
  <2>1. \E d \in Clients, u \in Tags : Add(d, u) \/ Edit(d, u) \/ RemoveTag(d, u) \/ Upsert(d, u)
    BY <1>1 DEF Next, User, Sync, Trouble, Attach, Connect, ConnectWith, Watch, WatchFrom,
       Skip, HandlePublish, HandleDelete, ReplayOne, Break, Detach, FailReplay, FailSend,
       FlushTags, HubRestart, RestartMissedBy, clientVars, vars
  <2>2. PICK d \in Clients, u \in Tags :
           Add(d, u) \/ Edit(d, u) \/ RemoveTag(d, u) \/ Upsert(d, u)
    BY <2>1
  <2>3. d = c /\ u = t
    <3>1. \E x : copy' = [copy EXCEPT ![d][u] = x]
      BY <2>2 DEF Add, Edit, RemoveTag, Local, Upsert, UpsertIf
    <3> QED
      BY <1>1, <2>0, <3>1
  <2>4. CASE Add(c, t)
    <3>1. issued[t] = {}
      BY <2>4 DEF Add
    <3>2. copy[c][t] = Absent
      BY <1>1, <2>0, <3>1 DEF OneContent
    <3> QED
      BY <1>1, <3>2 DEF Absent
  <2>5. CASE Edit(c, t)
    <3>1. copy'[c][t] = Bump(copy[c][t], copy[c][t].deleted, c)
      BY <2>0, <2>5 DEF Edit, Local
    <3> QED
      BY <2>0, <3>1 DEF Bump
  <2>6. CASE RemoveTag(c, t)
    <3>1. copy'[c][t] = Bump(copy[c][t], TRUE, c)
      BY <2>0, <2>6 DEF RemoveTag, Local
    <3> QED
      BY <2>0, <3>1 DEF Bump
  <2>7. CASE Upsert(c, t)
    <3> DEFINE new == Head(events[c][t])
    <3>1. /\ events[c][t] \in Seq(Tag) /\ events[c][t] # <<>>
      BY <1>1, <2>7 DEF TagInv, TypeOK, HubTypes, Upsert, UpsertIf
    <3>2. new \in Tag /\ new = events[c][t][1] /\ 1 \in DOMAIN events[c][t]
      BY <3>1
    <3>3. Holds(t, new)
      BY <3>2 DEF Holds
    <3>4. copy'[c][t] = new /\ Wins(new, copy[c][t])
      BY <1>1, <2>0, <2>7 DEF Upsert, UpsertIf
    <3>5. new.version \in Nat
      BY <3>2, TagFacts
    <3> HIDE DEF new
    <3>6. CASE new.version = copy[c][t].version
      BY <1>1, <2>0, <3>2, <3>3, <3>4, <3>6 DEF OneContent
    <3> QED
      BY <2>0, <3>4, <3>5, <3>6 DEF Wins
  <2> QED
    BY <2>2, <2>3, <2>4, <2>5, <2>6, <2>7
<1>2. TagInv /\ OneContent /\ [Next]_vars =>
        [\A c \in Clients, t \in Tags :
           copy[c][t].deleted /\ ~copy'[c][t].deleted
           => copy'[c][t].version > copy[c][t].version \/ t \in clash]_vars
  BY <1>1
<1> QED
  BY <1>2, InitTagInv, StepTagInv, InitOneContent, StepOneContent, PTL DEF Spec, DeletesStay

----------------------------------------------------------------------------
(* Everyone ends up with the same tags.                                     *)

(* The versions of a tag that nobody wrote twice come one after the other,   *)
(* and a later one of a tombstone is a tombstone.                            *)
Chain ==
    \A t \in Tags : t \notin clash =>
        /\ \A n \in issued[t] : 1..n \subseteq issued[t]
        /\ \A x, y \in Tag : Holds(t, x) /\ Holds(t, y) /\ x.version <= y.version
                             => (x.deleted => y.deleted)

LEMMA MovedChain ==
    ASSUME TagInv, OneContent, Chain, Moves
    PROVE  Chain'
<1>1. /\ Absent \in Tag /\ Absent.version = 0 /\ ~Absent.deleted
      /\ issued' = issued /\ clash' = clash
  BY TagFacts DEF Moves, historyVars, Absent
<1>2. ASSUME NEW t \in Tags, t \notin clash, NEW x \in Tag, NEW y \in Tag,
             Holds(t, x)', Holds(t, y)', x.version <= y.version, x.deleted
      PROVE  y.deleted
  <2>1. Holds(t, x) /\ x.version # 0 /\ x.version \in Nat
    BY <1>1, <1>2, TagFacts DEF Moves, OneContent
  <2>2. y # Absent
    BY <1>1, <1>2, <2>1
  <2> QED
    BY <1>2, <2>1, <2>2 DEF Moves, Chain
<1> QED
  BY <1>1, <1>2 DEF Chain

LEMMA WrittenChain ==
    ASSUME TagInv, OneContent, Chain, NEW t \in Tags, NEW tag \in Tag, Writes(t, tag)
    PROVE  Chain'
<1>0. /\ Absent \in Tag /\ Absent.version = 0 /\ ~Absent.deleted
      /\ issued \in [Tags -> SUBSET Nat] /\ tag.version \in Nat
  BY TagFacts DEF Absent, TagInv, TypeOK, HistoryTypes
<1>1. /\ \A u \in Tags : u # t => issued'[u] = issued[u] /\ (u \in clash' <=> u \in clash)
      /\ issued'[t] = issued[t] \cup {tag.version}
      /\ t \notin clash' => t \notin clash /\ tag.version \notin issued[t]
  BY <1>0 DEF Writes, Issue
<1>2. PICK z \in Tag : Holds(t, z) /\ tag.version = z.version + 1 /\ (z.deleted => tag.deleted)
  BY DEF Writes
<1>3. \A u \in Tags, x \in Tag :
         Holds(u, x)' => Holds(u, x) \/ x = Absent \/ (u = t /\ x = tag)
  BY DEF Writes
<1>4. \A u \in Tags, x \in Tag : Holds(u, x) => x = Absent \/ x.version \in issued[u]
  BY DEF OneContent
<1>5. z.version \in Nat /\ (z.version = 0 \/ z.version \in issued[t])
  BY <1>0, <1>2, <1>4, TagFacts
<1>6. ASSUME NEW u \in Tags, u \notin clash', NEW n \in issued'[u]
      PROVE  1..n \subseteq issued'[u]
  <2>1. u \notin clash
    BY <1>1, <1>6
  <2>2. CASE u # t \/ n \in issued[u]
    BY <1>1, <1>6, <2>1, <2>2 DEF Chain
  <2>3. CASE u = t /\ n \notin issued[u]
    <3>1. n = tag.version
      BY <1>1, <1>6, <2>3
    <3>2. 1..z.version \subseteq issued[t]
      BY <1>5, <2>1, <2>3 DEF Chain
    <3>3. 1..n \subseteq (1..z.version) \cup {n}
      BY <1>2, <1>5, <3>1
    <3> QED
      BY <1>1, <2>3, <3>1, <3>2, <3>3
  <2> QED
    BY <2>2, <2>3
<1>7. ASSUME NEW u \in Tags, u \notin clash', NEW x \in Tag, NEW y \in Tag,
             Holds(u, x)', Holds(u, y)', x.version <= y.version, x.deleted
      PROVE  y.deleted
  <2>1. /\ u \notin clash /\ (u = t => tag.version \notin issued[t])
        /\ x.version \in Nat /\ y.version \in Nat
    BY <1>1, <1>7, TagFacts
  <2>2. x # Absent
    BY <1>0, <1>7
  <2>3. CASE u = t /\ y = tag
    <3>1. CASE x = tag
      BY <1>7, <2>3, <3>1
    <3>2. CASE x # tag
      <4>1. Holds(t, x) /\ x.version # tag.version
        BY <1>3, <1>4, <1>7, <2>1, <2>2, <2>3, <3>2
      <4>2. x.version <= z.version
        BY <1>0, <1>2, <1>5, <1>7, <2>1, <2>3, <4>1
      <4>3. z.deleted
        BY <1>2, <1>7, <2>1, <2>3, <4>1, <4>2 DEF Chain
      <4> QED
        BY <1>2, <2>3, <4>3
    <3> QED
      BY <3>1, <3>2
  <2>4. CASE ~(u = t /\ y = tag)
    <3>1. x.version # 0
      <4>1. Holds(u, x) => x.version # 0
        BY <1>4, <2>2 DEF OneContent
      <4>2. tag.version # 0
        BY <1>2, <1>5
      <4> QED
        BY <1>3, <1>7, <2>2, <4>1, <4>2
    <3>2. Holds(u, y) /\ y.version \in issued[u]
      BY <1>0, <1>3, <1>4, <1>7, <2>1, <2>4, <3>1
    <3>3. Holds(u, x)
      <4>1. ASSUME u = t, x = tag PROVE FALSE
        <5>1. 1..y.version \subseteq issued[t]
          BY <2>1, <3>2, <4>1 DEF Chain
        <5>2. tag.version \in 1..y.version
          BY <1>0, <1>7, <2>1, <3>1, <4>1
        <5> QED
          BY <2>1, <4>1, <5>1, <5>2
      <4> QED
        BY <1>3, <1>7, <2>2, <4>1
    <3> QED
      BY <1>7, <2>1, <3>2, <3>3 DEF Chain
  <2> QED
    BY <2>3, <2>4
<1> QED
  BY <1>6, <1>7 DEF Chain

(* What a client publishes on a connect is never newer than what it has. *)
PendingOld ==
    \A c \in Clients, t \in Tags : pending[c][t].version <= copy[c][t].version

LEMMA UpsertFacts ==
    ASSUME TagInv, NEW c \in Clients, NEW t \in Tags, Upsert(c, t)
    PROVE  /\ \A d \in Clients, u \in Tags : \/ copy'[d][u] = copy[d][u]
                                             \/ /\ d = c /\ u = t /\ Holds(t, copy'[c][t])
                                                /\ copy'[c][t] \in Tag
                                                /\ copy[c][t].version <= copy'[c][t].version
           /\ Head(events[c][t]).version <= copy'[c][t].version
           /\ events[c][t] \in Seq(Tag) /\ events[c][t] # <<>>
           /\ UNCHANGED <<pending, phase, hub, historyVars>>
           /\ events' = [events EXCEPT ![c][t] = Tail(@)]
<1> DEFINE new == Head(events[c][t])
<1>1. /\ copy \in [Clients -> [Tags -> Tag]] /\ copy[c][t] \in Tag
      /\ events[c][t] \in Seq(Tag) /\ events[c][t] # <<>>
  BY DEF TagInv, TypeOK, ClientTypes, HubTypes, Upsert, UpsertIf
<1>2. new \in Tag /\ new = events[c][t][1] /\ 1 \in DOMAIN events[c][t]
  BY <1>1
<1>3. Holds(t, new)
  BY <1>2 DEF Holds
<1> HIDE DEF new
<1>4. copy[c][t].version \in Nat /\ new.version \in Nat
  BY <1>1, <1>2, TagFacts
<1>5. CASE Wins(new, copy[c][t])
  <2>1. copy' = [copy EXCEPT ![c][t] = new]
    BY <1>5 DEF Upsert, UpsertIf, new
  <2>2. copy[c][t].version <= new.version
    BY <1>4, <1>5 DEF Wins
  <2>3. copy'[c][t] = new
    BY <1>1, <2>1
  <2>4. \A d \in Clients, u \in Tags : ~(d = c /\ u = t) => copy'[d][u] = copy[d][u]
    BY <1>1, <2>1
  <2> QED
    BY <1>1, <1>2, <1>3, <1>4, <2>2, <2>3, <2>4 DEF Upsert, UpsertIf, hubVars, new
<1>6. CASE ~Wins(new, copy[c][t])
  <2>1. copy' = [copy EXCEPT ![c][t] = @]
    BY <1>6 DEF Upsert, UpsertIf, new
  <2>2. copy' = copy
    BY <1>1, <2>1
  <2>3. new.version <= copy[c][t].version
    BY <1>4, <1>6 DEF Wins
  <2> QED
    BY <1>1, <2>2, <2>3 DEF Upsert, UpsertIf, hubVars, new
<1> QED
  BY <1>5, <1>6

LEMMA LocalFacts ==
    ASSUME TagInv, NEW c \in Clients, NEW t \in Tags, NEW tag \in Tag,
           Local(c, t, tag), Derived(c, t, tag)
    PROVE  /\ UNCHANGED <<phase, hub, events>>
           /\ copy'[c][t] = tag /\ copy[c][t].version < tag.version
           /\ IF phase[c] = "detached" THEN pending'[c][t] = pending[c][t]
                                       ELSE pending'[c][t] = tag
           /\ \A d \in Clients, u \in Tags : ~(d = c /\ u = t) =>
                 copy'[d][u] = copy[d][u] /\ pending'[d][u] = pending[d][u]
<1>1. copy \in [Clients -> [Tags -> Tag]] /\ pending \in [Clients -> [Tags -> Tag]]
  BY DEF TagInv, TypeOK, ClientTypes
<1>2. copy[c][t].version < tag.version
  <2>1. copy[c][t].version \in Nat
    BY <1>1, TagFacts
  <2> QED
    BY <2>1 DEF Derived
<1> QED
  BY <1>1, <1>2 DEF Local, hubVars

(* The other steps neither change what a client has nor, but for the start   *)
(* and the end of its attachment, what it publishes.                         *)
LEMMA OtherFacts ==
    ASSUME TagInv, OneContent, [Next]_vars
    PROVE  \/ \E c \in Clients, t \in Tags : Upsert(c, t)
           \/ \E c \in Clients, t \in Tags, tag \in Tag : Local(c, t, tag) /\ Derived(c, t, tag)
           \/ \E c \in Clients : Attach(c) \/ Detach(c)
           \/ /\ UNCHANGED <<copy, pending>>
              /\ \A c \in Clients : phase'[c] = "detached" <=> phase[c] = "detached"
<1> USE DEF TagInv, TypeOK, ClientTypes
<1>1. ASSUME NEW c \in Clients, NEW t \in Tags, Add(c, t) \/ Edit(c, t) \/ RemoveTag(c, t)
      PROVE  \E tag \in Tag : Local(c, t, tag) /\ Derived(c, t, tag)
  BY <1>1, UserDerives
<1> DEFINE Same == /\ UNCHANGED <<copy, pending>>
                   /\ \A c \in Clients : phase'[c] = "detached" <=> phase[c] = "detached"
<1>2. ASSUME NEW c \in Clients, Connect(c) \/ Watch(c) \/ Break(c) PROVE Same
  BY <1>2 DEF Connect, ConnectWith, Watch, WatchFrom, Break
<1>3. ASSUME NEW c \in Clients, NEW m,
             Skip(c, m) \/ HandlePublish(c, m) \/ HandleDelete(c, m) \/ ReplayOne(c, m)
               \/ FailSend(c, m) \/ FailReplay(c)
      PROVE  Same
  BY <1>3 DEF Skip, HandlePublish, HandleDelete, ReplayOne, FailSend, FailReplay
<1>4. CASE HubRestart \/ \E written \in BOOLEAN : FlushTags(written)
  <2>1. CASE HubRestart
    BY <2>1, RestartFacts
  <2>2. CASE \E written \in BOOLEAN : FlushTags(written)
    BY <2>2 DEF FlushTags, clientVars
  <2> QED
    BY <1>4, <2>1, <2>2
<1>5. CASE UNCHANGED vars
  BY <1>5 DEF vars, clientVars
<1> QED
  BY <1>1, <1>2, <1>3, <1>4, <1>5 DEF Next, User, Sync, Trouble

LEMMA StepPendingOld ==
    ASSUME TagInv, OneContent, PendingOld, [Next]_vars
    PROVE  PendingOld'
<1>0. /\ copy \in [Clients -> [Tags -> Tag]] /\ pending \in [Clients -> [Tags -> Tag]]
      /\ \A c \in Clients, t \in Tags :
            /\ copy[c][t].version \in Nat /\ pending[c][t].version \in Nat
            /\ copy'[c][t].version \in Nat /\ pending'[c][t].version \in Nat
  <2>1. TagInv'
    BY StepTagInv
  <2> QED
    BY <2>1, TagFacts DEF TagInv, TypeOK, ClientTypes
<1>1. CASE \E c \in Clients, t \in Tags : Upsert(c, t)
  <2>1. PICK c \in Clients, t \in Tags : Upsert(c, t)
    BY <1>1
  <2>2. \A d \in Clients, u \in Tags : copy[d][u].version <= copy'[d][u].version
    BY <1>0, <2>1, UpsertFacts
  <2>3. pending' = pending
    BY <2>1, UpsertFacts
  <2> QED
    BY <1>0, <2>2, <2>3 DEF PendingOld
<1>2. CASE \E c \in Clients, t \in Tags, tag \in Tag : Local(c, t, tag) /\ Derived(c, t, tag)
  <2>1. PICK c \in Clients, t \in Tags, tag \in Tag : Local(c, t, tag) /\ Derived(c, t, tag)
    BY <1>2
  <2>2. pending'[c][t].version <= copy'[c][t].version
    BY <1>0, <2>1, LocalFacts DEF PendingOld
  <2>3. \A d \in Clients, u \in Tags : ~(d = c /\ u = t) =>
           pending'[d][u].version <= copy'[d][u].version
    BY <2>1, LocalFacts DEF PendingOld
  <2> QED
    BY <2>2, <2>3 DEF PendingOld
<1>3. CASE \E c \in Clients : Attach(c) \/ Detach(c)
  <2>1. PICK c \in Clients : Attach(c) \/ Detach(c)
    BY <1>3
  <2>2. /\ copy' = copy
        /\ pending' \in {[pending EXCEPT ![c] = copy[c]],
                         [pending EXCEPT ![c] = [t \in Tags |-> Absent]]}
    BY <2>1 DEF Attach, Detach
  <2>3. \A d \in Clients, u \in Tags : pending'[d][u] \in {pending[d][u], copy[d][u], Absent}
    BY <1>0, <2>2
  <2>4. ASSUME NEW d \in Clients, NEW u \in Tags
        PROVE  pending'[d][u].version <= copy'[d][u].version
    <3>1. CASE pending'[d][u] = pending[d][u]
      BY <2>2, <3>1 DEF PendingOld
    <3>2. CASE pending'[d][u] = copy[d][u]
      BY <1>0, <2>2, <3>2
    <3>3. CASE pending'[d][u] = Absent
      <4>1. pending'[d][u].version = 0
        BY <3>3 DEF Absent
      <4> QED
        BY <1>0, <4>1
    <3> QED
      BY <2>3, <3>1, <3>2, <3>3
  <2> QED
    BY <2>4 DEF PendingOld
<1>4. CASE UNCHANGED <<copy, pending>>
  BY <1>4 DEF PendingOld
<1> QED
  BY <1>1, <1>2, <1>3, <1>4, OtherFacts

(* What a client stands for only gets newer, and stays deleted. *)
Grows(x, y) == x.version <= y.version /\ (x.deleted => y.deleted)

LEMMA BaseGrows ==
    ASSUME TagInv, OneContent, Chain, PendingOld, [Next]_vars,
           NEW a \in Clients, NEW u \in Tags, u \notin clash
    PROVE  Grows(Base(a, u), Base(a, u)')
<1>0. /\ copy[a][u] \in Tag /\ pending[a][u] \in Tag
      /\ copy[a][u].version \in Nat /\ pending[a][u].version \in Nat
      /\ Holds(u, copy[a][u]) /\ Holds(u, pending[a][u])
  BY TagFacts DEF TagInv, TypeOK, ClientTypes, Holds
<1>1. Grows(pending[a][u], copy[a][u])
  BY <1>0 DEF Grows, PendingOld, Chain
<1>2. Grows(copy[a][u], copy[a][u]) /\ Grows(pending[a][u], pending[a][u])
  BY <1>0 DEF Grows
<1>3. ASSUME NEW c \in Clients, NEW t \in Tags, Upsert(c, t)
      PROVE  Grows(Base(a, u), Base(a, u)')
  <2>1. Grows(copy[a][u], copy'[a][u])
    <3>1. \/ copy'[a][u] = copy[a][u]
          \/ /\ Holds(u, copy'[a][u]) /\ copy'[a][u] \in Tag
             /\ copy[a][u].version <= copy'[a][u].version
      BY <1>3, UpsertFacts
    <3> QED
      BY <1>0, <1>2, <3>1 DEF Grows, Chain
  <2>2. phase' = phase /\ pending' = pending
    BY <1>3, UpsertFacts
  <2> QED
    BY <1>2, <2>1, <2>2 DEF Base
<1>4. ASSUME NEW c \in Clients, NEW t \in Tags, NEW tag \in Tag,
             Local(c, t, tag), Derived(c, t, tag)
      PROVE  Grows(Base(a, u), Base(a, u)')
  <2>1. CASE a = c /\ u = t
    <3>1. Base(a, u)' = tag
      BY <1>4, <2>1, LocalFacts DEF Base
    <3>2. Grows(copy[a][u], tag)
      BY <1>0, <1>4, <2>1, TagFacts DEF Grows, Derived
    <3>3. Grows(pending[a][u], tag)
      BY <1>0, <1>1, <3>2, TagFacts DEF Grows
    <3> QED
      BY <3>1, <3>2, <3>3 DEF Base
  <2>2. CASE ~(a = c /\ u = t)
    <3>1. copy'[a][u] = copy[a][u] /\ pending'[a][u] = pending[a][u] /\ phase' = phase
      BY <1>4, <2>2, LocalFacts
    <3> QED
      BY <1>2, <3>1 DEF Base
  <2> QED
    BY <2>1, <2>2
<1>5. ASSUME NEW c \in Clients, Attach(c) \/ Detach(c)
      PROVE  Grows(Base(a, u), Base(a, u)')
  <2>0. /\ pending \in [Clients -> [Tags -> Tag]]
        /\ phase \in [Clients -> {"detached", "off", "replaying", "watching"}]
    BY DEF TagInv, TypeOK, ClientTypes
  <2>1. CASE a = c
    <3>1. CASE Attach(c)
      <4>1. phase[a] = "detached" /\ phase'[a] = "off" /\ pending'[a][u] = copy[a][u]
        BY <2>0, <2>1, <3>1 DEF Attach
      <4> QED
        BY <1>2, <4>1 DEF Base
    <3>2. CASE Detach(c)
      <4>1. phase[a] # "detached" /\ phase'[a] = "detached" /\ copy' = copy
        BY <2>0, <2>1, <3>2 DEF Detach
      <4> QED
        BY <1>1, <4>1 DEF Base
    <3> QED
      BY <1>5, <3>1, <3>2
  <2>2. CASE a # c
    <3>1. copy' = copy /\ pending'[a] = pending[a] /\ phase'[a] = phase[a]
      BY <1>5, <2>0, <2>2 DEF Attach, Detach
    <3> QED
      BY <1>2, <3>1 DEF Base
  <2> QED
    BY <2>1, <2>2
<1>6. CASE /\ UNCHANGED <<copy, pending>>
           /\ \A c \in Clients : phase'[c] = "detached" <=> phase[c] = "detached"
  BY <1>2, <1>6 DEF Base
<1> QED
  BY <1>3, <1>4, <1>5, <1>6, OtherFacts

(* Whatever content there is, some client stands for something as new, or    *)
(* for a deletion: it is not lost with the hub, nor with those that saw it.  *)
Backed ==
    \A t \in Tags : t \notin clash =>
        \A x \in Tag : Holds(t, x) /\ x # Absent =>
            \E a \in Clients : Base(a, t).version >= x.version \/ Base(a, t).deleted

LEMMA StepBacked ==
    ASSUME TagInv, OneContent, Chain, PendingOld, Backed, [Next]_vars
    PROVE  Backed'
<1>0. /\ TagInv' /\ Absent \in Tag
      /\ \A a \in Clients, t \in Tags :
            /\ Base(a, t) \in Tag /\ Holds(t, Base(a, t))
            /\ Base(a, t).version \in Nat /\ Base(a, t)'.version \in Nat
  <2>1. TagInv'
    BY StepTagInv
  <2>2. \A a \in Clients, t \in Tags :
           /\ copy[a][t] \in Tag /\ pending[a][t] \in Tag
           /\ copy'[a][t] \in Tag /\ pending'[a][t] \in Tag
    BY <2>1 DEF TagInv, TypeOK, ClientTypes
  <2>3. \A a \in Clients, t \in Tags : Base(a, t) \in {copy[a][t], pending[a][t]}
    BY DEF Base
  <2>4. \A a \in Clients, t \in Tags : Base(a, t)' \in {copy'[a][t], pending'[a][t]}
    BY DEF Base
  <2>5. \A a \in Clients, t \in Tags : Holds(t, Base(a, t))
    BY <2>3 DEF Holds
  <2>6. \A a \in Clients, t \in Tags : Base(a, t) \in Tag /\ Base(a, t)' \in Tag
    BY <2>2, <2>3, <2>4
  <2> QED
    BY <2>1, <2>5, <2>6, TagFacts
<1>1. ASSUME NEW t \in Tags, t \notin clash, NEW x \in Tag, Holds(t, x), x # Absent
      PROVE  \E a \in Clients : Base(a, t)'.version >= x.version \/ Base(a, t)'.deleted
  <2>1. PICK a \in Clients : Base(a, t).version >= x.version \/ Base(a, t).deleted
    BY <1>1 DEF Backed
  <2>2. Grows(Base(a, t), Base(a, t)')
    BY <1>1, BaseGrows
  <2>3. x.version \in Nat /\ Base(a, t).version \in Nat /\ Base(a, t)'.version \in Nat
    BY <1>0, <1>1, TagFacts
  <2> QED
    BY <2>1, <2>2, <2>3 DEF Grows
<1>2. CASE Moves
  <2>1. clash' = clash
    BY <1>2 DEF Moves, historyVars
  <2> QED
    BY <1>1, <1>2, <2>1 DEF Moves, Backed
<1>3. ASSUME NEW t \in Tags, NEW tag \in Tag, Writes(t, tag)
      PROVE  Backed'
  <2>1. \A u \in Tags : u \notin clash' => u \notin clash
    BY <1>3 DEF Writes, Issue
  <2>2. ASSUME NEW u \in Tags, u \notin clash', NEW x \in Tag, Holds(u, x)', x # Absent
        PROVE  \E a \in Clients : Base(a, u)'.version >= x.version \/ Base(a, u)'.deleted
    <3>1. CASE Holds(u, x)
      BY <1>1, <2>1, <2>2, <3>1
    <3>2. CASE ~Holds(u, x)
      <4>1. u = t /\ x = tag
        BY <1>3, <2>2, <3>2 DEF Writes
      <4>2. CASE \E a \in Clients : Base(a, t)' = tag
        <5>1. tag.version >= tag.version
          BY TagFacts
        <5> QED
          BY <4>1, <4>2, <5>1
      <4>3. CASE \E y \in Tag : Holds(t, y) /\ y.deleted
        <5>1. PICK y \in Tag : Holds(t, y) /\ y.deleted
          BY <4>3
        <5>2. y # Absent /\ t \notin clash
          BY <2>1, <2>2, <4>1, <5>1 DEF Absent
        <5>3. PICK a \in Clients : Base(a, t).version >= y.version \/ Base(a, t).deleted
          BY <5>1, <5>2 DEF Backed
        <5>4. Base(a, t).deleted
          BY <1>0, <5>1, <5>2, <5>3, TagFacts DEF Chain
        <5>5. Base(a, t)'.deleted
          BY <5>2, <5>4, BaseGrows DEF Grows
        <5> QED
          BY <4>1, <5>5
      <4> QED
        BY <1>3, <4>2, <4>3 DEF Writes
    <3> QED
      BY <3>1, <3>2
  <2> QED
    BY <2>2 DEF Backed
<1> QED
  BY <1>2, <1>3, StepMoves

(* A watching client has what the hub has, or hears of it. *)
Informed ==
    \A c \in Clients, t \in Tags : phase[c] = "watching" =>
        \/ hub[t].version <= copy[c][t].version
        \/ \E i \in DOMAIN events[c][t] : hub[t].version <= events[c][t][i].version

LEMMA PublishInforms ==
    ASSUME TagInv, Informed, NEW t \in Tags, NEW tag \in Tag, PublishTag(t, tag),
           UNCHANGED <<copy, phase>>
    PROVE  Informed'
<1>0. hub \in [Tags -> Tag] /\ events \in [Clients -> [Tags -> Seq(Tag)]]
  BY DEF TagInv, TypeOK, HubTypes
<1>1. CASE ~Wins(tag, hub[t])
  BY <1>1 DEF PublishTag, Informed, hubVars
<1>2. CASE Wins(tag, hub[t])
  <2>1. hub' = [hub EXCEPT ![t] = tag] /\ events' = Fanned(t, tag)
    BY <1>2 DEF PublishTag
  <2>2. ASSUME NEW c \in Clients, phase[c] = "watching"
        PROVE  /\ events'[c][t] = Append(events[c][t], tag)
               /\ \A u \in Tags : u # t => events'[c][u] = events[c][u]
    BY <1>0, <2>1, <2>2 DEF Fanned
  <2>3. hub'[t] = tag /\ \A u \in Tags : u # t => hub'[u] = hub[u]
    BY <1>0, <2>1
  <2>4. \A q \in Seq(Tag) : /\ Len(q) + 1 \in DOMAIN Append(q, tag)
                            /\ Append(q, tag)[Len(q) + 1] = tag
    OBVIOUS
  <2>5. tag.version <= tag.version
    BY TagFacts
  <2>6. ASSUME NEW c \in Clients, phase[c] = "watching"
        PROVE  \E i \in DOMAIN events'[c][t] : hub'[t].version <= events'[c][t][i].version
    <3>1. events[c][t] \in Seq(Tag)
      BY <1>0
    <3> QED
      BY <2>2, <2>3, <2>4, <2>5, <2>6, <3>1
  <2>7. ASSUME NEW c \in Clients, phase[c] = "watching", NEW u \in Tags, u # t
        PROVE  \/ hub'[u].version <= copy[c][u].version
               \/ \E i \in DOMAIN events'[c][u] : hub'[u].version <= events'[c][u][i].version
    BY <2>2, <2>3, <2>7 DEF Informed
  <2> QED
    BY <2>6, <2>7 DEF Informed
<1> QED
  BY <1>1, <1>2

LEMMA StepInformed ==
    ASSUME TagInv, OneContent, Informed, [Next]_vars
    PROVE  Informed'
<1>0. /\ hub \in [Tags -> Tag] /\ events \in [Clients -> [Tags -> Seq(Tag)]]
      /\ copy \in [Clients -> [Tags -> Tag]]
      /\ phase \in [Clients -> {"detached", "off", "replaying", "watching"}]
      /\ \A c \in Clients, t \in Tags :
            copy[c][t].version \in Nat /\ copy'[c][t].version \in Nat
      /\ \A t \in Tags : hub[t].version \in Nat
  <2>1. TagInv'
    BY StepTagInv
  <2> QED
    BY <2>1, TagFacts DEF TagInv, TypeOK, ClientTypes, HubTypes
<1>1. ASSUME NEW c \in Clients, NEW t \in Tags, Upsert(c, t) PROVE Informed'
  <2>1. /\ phase' = phase /\ hub' = hub
        /\ events' = [events EXCEPT ![c][t] = Tail(@)]
        /\ events[c][t] \in Seq(Tag) /\ events[c][t] # <<>>
        /\ Head(events[c][t]).version <= copy'[c][t].version
    BY <1>1, UpsertFacts
  <2>0. ASSUME NEW d \in Clients, NEW u \in Tags
        PROVE  copy[d][u].version <= copy'[d][u].version
    <3>1. \/ copy'[d][u] = copy[d][u]
          \/ d = c /\ u = t /\ copy[c][t].version <= copy'[c][t].version
      BY <1>1, UpsertFacts
    <3> QED
      BY <1>0, <3>1
  <2>2. /\ events'[c][t] = Tail(events[c][t])
        /\ \A d \in Clients, u \in Tags : ~(d = c /\ u = t) => events'[d][u] = events[d][u]
    BY <1>0, <2>1
  <2>3. \A i \in DOMAIN events[c][t] :
           \/ events[c][t][i] = Head(events[c][t])
           \/ i - 1 \in DOMAIN Tail(events[c][t]) /\ Tail(events[c][t])[i - 1] = events[c][t][i]
    <3>1. \A q \in Seq(Tag) : q # <<>> =>
             \A i \in DOMAIN q : \/ i = 1 /\ q[i] = Head(q)
                                 \/ i - 1 \in DOMAIN Tail(q) /\ Tail(q)[i - 1] = q[i]
      OBVIOUS
    <3> QED
      BY <2>1, <3>1
  <2>4. Head(events[c][t]).version \in Nat
    BY <2>1, TagFacts
  <2>5. ASSUME NEW d \in Clients, NEW u \in Tags, phase[d] = "watching"
        PROVE  \/ hub[u].version <= copy'[d][u].version
               \/ \E i \in DOMAIN events'[d][u] : hub[u].version <= events'[d][u][i].version
    <3>1. CASE hub[u].version <= copy[d][u].version
      BY <1>0, <2>0, <3>1
    <3>2. ASSUME NEW i \in DOMAIN events[d][u], hub[u].version <= events[d][u][i].version
          PROVE  \/ hub[u].version <= copy'[d][u].version
                 \/ \E j \in DOMAIN events'[d][u] : hub[u].version <= events'[d][u][j].version
      <4>1. CASE ~(d = c /\ u = t)
        BY <2>2, <3>2, <4>1
      <4>2. CASE d = c /\ u = t /\ events[c][t][i] = Head(events[c][t])
        BY <1>0, <2>1, <2>4, <3>2, <4>2
      <4>3. CASE /\ d = c /\ u = t /\ i - 1 \in DOMAIN Tail(events[c][t])
                 /\ Tail(events[c][t])[i - 1] = events[c][t][i]
        BY <2>2, <3>2, <4>3
      <4> QED
        BY <2>3, <3>2, <4>1, <4>2, <4>3
    <3> QED
      BY <2>5, <3>1, <3>2 DEF Informed
  <2> QED
    BY <2>1, <2>5 DEF Informed
<1>2. ASSUME NEW c \in Clients, NEW t \in Tags, NEW tag \in Tag,
             Local(c, t, tag), Derived(c, t, tag)
      PROVE  Informed'
  <2>1. UNCHANGED <<phase, hub, events>>
    BY <1>2, LocalFacts
  <2>2. \A d \in Clients, u \in Tags : copy[d][u].version <= copy'[d][u].version
    <3> SUFFICES ASSUME NEW d \in Clients, NEW u \in Tags
                 PROVE  copy[d][u].version <= copy'[d][u].version
      OBVIOUS
    <3>1. CASE d = c /\ u = t
      BY <1>0, <1>2, <3>1, LocalFacts
    <3>2. CASE ~(d = c /\ u = t)
      BY <1>0, <1>2, <3>2, LocalFacts
    <3> QED
      BY <3>1, <3>2
  <2>3. \A d \in Clients, u \in Tags :
           hub[u].version <= copy[d][u].version => hub[u].version <= copy'[d][u].version
    BY <1>0, <2>2
  <2> QED
    BY <2>1, <2>3 DEF Informed
<1>3. ASSUME NEW c \in Clients, NEW m,
             \/ m \in sends[c] /\ (HandlePublish(c, m) \/ HandleDelete(c, m))
             \/ m \in replay[c] /\ ReplayOne(c, m)
      PROVE  Informed'
  <2>1. m.id \in Tags /\ m.tag \in Tag /\ UNCHANGED <<copy, phase>>
    BY <1>3, TagFacts
    DEF TagInv, TypeOK, ClientTypes, HandlePublish, HandleDelete, ReplayOne
  <2>2. CASE HandlePublish(c, m) \/ ReplayOne(c, m)
    <3>1. PublishTag(m.id, m.tag)
      BY <2>2 DEF HandlePublish, ReplayOne
    <3> QED
      BY <2>1, <3>1, PublishInforms
  <2>3. CASE HandleDelete(c, m)
    <3>1. PublishTag(m.id, Tombstone(m.id, m.tag))
      BY <2>3 DEF HandleDelete
    <3>2. Tombstone(m.id, m.tag) \in Tag
      <4>1. hub[m.id].version \in Nat
        BY <1>0, <2>1
      <4> QED
        BY <2>1, <4>1 DEF Tombstone, Tag
    <3> QED
      BY <2>1, <3>1, <3>2, PublishInforms
  <2> QED
    BY <1>3, <2>2, <2>3
<1>4. ASSUME NEW c \in Clients, Watch(c) PROVE Informed'
  <2> DEFINE first == [t \in Tags |-> IF hub[t] = Absent THEN <<>> ELSE <<hub[t]>>]
  <2>1. /\ hub' = hub /\ copy' = copy /\ phase' = [phase EXCEPT ![c] = "watching"]
        /\ events' = [events EXCEPT ![c] = [t \in Tags |-> @[t] \o first[t]]]
    BY <1>4 DEF Watch, WatchFrom, hubVars
  <2>2. \A d \in Clients : d # c => events'[d] = events[d] /\ phase'[d] = phase[d]
    BY <1>0, <2>1
  <2>3. \A u \in Tags : events'[c][u] = events[c][u] \o first[u]
    BY <1>0, <2>1
  <2>4. \A u \in Tags : first[u] = <<hub[u]>> \/ hub[u] = Absent
    OBVIOUS
  <2> HIDE DEF first
  <2>5. ASSUME NEW u \in Tags
        PROVE  \/ hub[u].version <= copy[c][u].version
               \/ \E i \in DOMAIN events'[c][u] : hub[u].version <= events'[c][u][i].version
    <3>1. CASE hub[u] = Absent
      <4>1. hub[u].version = 0
        BY <3>1 DEF Absent
      <4> QED
        BY <1>0, <4>1
    <3>2. CASE first[u] = <<hub[u]>>
      <4>1. events'[c][u] = events[c][u] \o <<hub[u]>> /\ events[c][u] \in Seq(Tag)
        BY <1>0, <2>3, <3>2
      <4>2. \A q \in Seq(Tag), tag \in Tag : /\ Len(q) + 1 \in DOMAIN (q \o <<tag>>)
                                             /\ (q \o <<tag>>)[Len(q) + 1] = tag
        OBVIOUS
      <4>3. /\ Len(events[c][u]) + 1 \in DOMAIN events'[c][u]
            /\ events'[c][u][Len(events[c][u]) + 1] = hub[u]
        BY <1>0, <4>1, <4>2
      <4> QED
        BY <1>0, <4>3
    <3> QED
      BY <2>4, <3>1, <3>2
  <2>6. ASSUME NEW d \in Clients, d # c, phase'[d] = "watching", NEW u \in Tags
        PROVE  \/ hub[u].version <= copy[d][u].version
               \/ \E i \in DOMAIN events'[d][u] : hub[u].version <= events'[d][u][i].version
    BY <2>2, <2>6 DEF Informed
  <2> QED
    BY <2>1, <2>5, <2>6 DEF Informed
<1>5. ASSUME NEW c \in Clients, Attach(c) \/ Detach(c) \/ Break(c) \/ Connect(c)
      PROVE  Informed'
  <2>1. /\ hub' = hub /\ copy' = copy
        /\ \E p \in {"detached", "off", "replaying"} : phase' = [phase EXCEPT ![c] = p]
        /\ events' = events \/ events' = [events EXCEPT ![c] = [t \in Tags |-> <<>>]]
    BY <1>5 DEF Attach, Detach, Break, Connect, ConnectWith, EndSession, hubVars
  <2>2. \A d \in Clients : phase'[d] = "watching" => d # c /\ phase[d] = "watching"
    BY <1>0, <2>1
  <2>3. \A d \in Clients : d # c => events'[d] = events[d]
    BY <1>0, <2>1
  <2> QED
    BY <2>1, <2>2, <2>3 DEF Informed
<1>6. ASSUME NEW c \in Clients, NEW m, Skip(c, m) \/ FailSend(c, m) \/ FailReplay(c)
      PROVE  Informed'
  BY <1>6 DEF Skip, FailSend, FailReplay, hubVars, Informed
<1>7. CASE HubRestart
  <2>1. \A c \in Clients : phase'[c] # "watching"
    BY <1>7, RestartFacts
  <2> QED
    BY <2>1 DEF Informed
<1>8. CASE (\E written \in BOOLEAN : FlushTags(written)) \/ UNCHANGED vars
  BY <1>8 DEF FlushTags, clientVars, hubVars, vars, Informed
<1>9. ASSUME NEW c \in Clients, User(c) PROVE Informed'
  BY <1>2, <1>5, <1>9, UserDerives DEF User
<1>10. ASSUME NEW c \in Clients, Sync(c) PROVE Informed'
  BY <1>1, <1>3, <1>4, <1>5, <1>6, <1>10 DEF Sync
<1>11. ASSUME NEW c \in Clients, Trouble(c) PROVE Informed'
  BY <1>5, <1>6, <1>11 DEF Trouble
<1> QED
  BY <1>7, <1>8, <1>9, <1>10, <1>11 DEF Next

AgreeInv == TagInv /\ OneContent /\ Chain /\ PendingOld /\ Backed /\ Informed

LEMMA InitAgreeInv == Init => AgreeInv
<1> SUFFICES ASSUME Init PROVE AgreeInv
  OBVIOUS
<1>1. \A t \in Tags, x \in Tag : Holds(t, x) => x = Absent
  BY DEF Init, Holds
<1>2. Chain /\ Backed
  BY <1>1 DEF Init, Chain, Backed, Absent
<1>3. PendingOld /\ Informed
  <2>1. 0 <= 0 /\ Absent.version = 0
    BY DEF Absent
  <2> QED
    BY <2>1 DEF Init, PendingOld, Informed
<1> QED
  BY <1>2, <1>3, InitTagInv, InitOneContent DEF AgreeInv

LEMMA StepAgreeInv == AgreeInv /\ [Next]_vars => AgreeInv'
<1> SUFFICES ASSUME AgreeInv, [Next]_vars PROVE AgreeInv'
  OBVIOUS
<1>0. TagInv /\ OneContent /\ Chain /\ PendingOld /\ Backed /\ Informed
  BY DEF AgreeInv
<1>1. Chain'
  BY <1>0, StepMoves, MovedChain, WrittenChain
<1>2. TagInv' /\ OneContent'
  BY <1>0, StepTagInv, StepOneContent
<1>3. PendingOld' /\ Backed' /\ Informed'
  BY <1>0, StepPendingOld, StepBacked, StepInformed
<1> QED
  BY <1>1, <1>2, <1>3 DEF AgreeInv

(* When nothing is under way any more, all clients show what the hub has,    *)
(* but for a tag that was written twice in one version, failed to be sent,   *)
(* or was forgotten by a hub whose restart its client missed.                *)
THEOREM TagsAgree == Spec => []Agree
<1>1. AgreeInv => Agree
  <2> SUFFICES ASSUME AgreeInv, Quiet, NEW t \in Tags, t \notin clash,
                      \A d \in Clients : t \notin failed[d], NEW c \in Clients
               PROVE  Shown(copy[c][t]) = Shown(hub[t])
    BY DEF Agree, AgreeOn
  <2>0. TagInv /\ OneContent /\ Chain /\ PendingOld /\ Backed /\ Informed
    BY DEF AgreeInv
  <2>1. /\ copy[c][t] \in Tag /\ hub[t] \in Tag
        /\ copy[c][t].version \in Nat /\ hub[t].version \in Nat
        /\ Holds(t, copy[c][t]) /\ Holds(t, hub[t])
    BY <2>0, TagFacts DEF TagInv, TypeOK, ClientTypes, HubTypes, Holds
  <2>2. hub[t].version <= copy[c][t].version
    BY <2>0 DEF Quiet, Drained, Informed
  <2>3. CASE hub[t].version = copy[c][t].version
    BY <2>0, <2>1, <2>3 DEF OneContent
  <2>4. CASE hub[t].version # copy[c][t].version
    <3>1. copy[c][t] # Absent
      BY <2>1, <2>2, <2>4 DEF Absent
    <3>2. PICK a \in Clients : \/ Base(a, t).version >= copy[c][t].version
                               \/ Base(a, t).deleted
      BY <2>0, <2>1, <3>1 DEF Backed
    <3>3. phase[a] = "watching" /\ sends[a] = {}
      BY DEF Quiet, Drained
    <3>4. Base(a, t) = pending[a][t]
      BY <3>3 DEF Base
    <3>5. pending[a][t].version <= hub[t].version
      BY <2>0, <3>3 DEF TagInv, TypeOK, Replaying, Delivered
    <3>6. /\ pending[a][t] \in Tag /\ pending[a][t].version \in Nat
          /\ Holds(t, pending[a][t])
      BY <2>0, TagFacts DEF TagInv, TypeOK, ClientTypes, Holds
    <3>7. pending[a][t].deleted
      BY <2>1, <2>2, <2>4, <3>2, <3>4, <3>5, <3>6
    <3>8. hub[t].deleted
      BY <2>0, <2>1, <3>5, <3>6, <3>7 DEF Chain
    <3>9. copy[c][t].deleted
      BY <2>0, <2>1, <2>2, <3>8 DEF Chain
    <3> QED
      BY <3>8, <3>9 DEF Shown
  <2> QED
    BY <2>3, <2>4
<1> QED
  BY <1>1, InitAgreeInv, StepAgreeInv, PTL DEF Spec
=============================================================================
