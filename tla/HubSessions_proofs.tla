------------------------- MODULE HubSessions_proofs -------------------------
(* What the hub relies on when it routes a request holds for every number of *)
(* agents, devices, sessions and requests and every out-queue capacity.      *)
EXTENDS HubSessions, FiniteSetTheorems, SequenceTheorems, TLAPS

(* A running session was dialled by some agent; without it the end of a      *)
(* session could not be told to be the end of the session of that agent.     *)
Dialled == \A s \in Sessions : s \in hubUp => agentOf[s] \in Agents

SessionInv == TypeOK /\ Dialled /\ RoutesLive

(* _offer keeps a queue of messages a queue of messages. *)
LEMMA OfferType ==
    ASSUME NEW S, NEW q \in Seq(S), NEW m \in S
    PROVE  Offer(q, m) \in Seq(S)
<1>1. CASE Len(q) < OutqSize
  BY <1>1 DEF Offer
<1>2. CASE ~(Len(q) < OutqSize)
  <2>1. Len(q) > 0
    BY <1>2, SessionsAssumption
  <2>2. Tail(q) \in Seq(S)
    BY <2>1
  <2> QED
    BY <1>2, <2>2 DEF Offer
<1> QED
  BY <1>1, <1>2

LEMMA UpMsgFacts ==
    /\ [type |-> "hello"] \in UpMsgs
    /\ \A d \in Devices : /\ [type |-> "announce", dev |-> d] \in UpMsgs
                          /\ [type |-> "retire", dev |-> d] \in UpMsgs
    /\ \A c \in Cmds, ok \in BOOLEAN : [type |-> "ack", req |-> c, ok |-> ok] \in UpMsgs
    /\ \A m \in UpMsgs : /\ m.type \in {"announce", "retire"} => m.dev \in Devices
                         /\ m.type = "ack" => m.req \in Cmds /\ m.ok \in BOOLEAN
  BY DEF UpMsgs

LEMMA DownMsgFacts ==
    /\ [type |-> "welcome"] \in DownMsgs
    /\ \A c \in Cmds : [type |-> "command", req |-> c] \in DownMsgs
    /\ \A m \in DownMsgs : m.type = "command" => m.req \in Cmds
  BY DEF DownMsgs

LEMMA SendUpType ==
    ASSUME TypeOK, NEW a \in Agents, NEW m \in UpMsgs
    PROVE  SendUp(a, m) \in [Sessions -> Seq(UpMsgs)]
  BY DEF TypeOK, ChannelTypes, SessionTypes, SendUp

LEMMA HeadTail ==
    ASSUME NEW S, NEW q \in Seq(S), q # <<>>
    PROVE  Head(q) \in S /\ Tail(q) \in Seq(S)
  OBVIOUS

(* What the reader of a session knows about the message it takes. *)
LEMMA ReadingTypes ==
    ASSUME ChannelTypes, NEW s \in Sessions, NEW type, Reading(s, type)
    PROVE  /\ Head(up[s]) \in UpMsgs /\ Head(up[s]).type = type
           /\ up' \in [Sessions -> Seq(UpMsgs)]
<1>1. Head(up[s]) \in UpMsgs /\ Tail(up[s]) \in Seq(UpMsgs)
  BY HeadTail DEF ChannelTypes, Reading
<1> QED
  BY <1>1 DEF ChannelTypes, Reading, Take

LEMMA EndedType ==
    ASSUME NEW result \in Results
    PROVE  /\ Ended(result) \in CmdRecord
           /\ Ended(result).state = result /\ Ended(result).sess = None
  BY DEF Ended, CmdRecord

LEMMA InitSessionInv == Init => SessionInv
  BY SessionsAssumption
     DEF Init, SessionInv, TypeOK, ChannelTypes, RequestTypes, SessionTypes,
         Dialled, RoutesLive, CmdRecord

LEMMA AnnounceStep ==
    ASSUME SessionInv, NEW d \in Devices, Announce(d)
    PROVE  SessionInv'
<1> USE DEF Announce, agentVars, hubVars, cmdVars, handlerVars
<1>0. TypeOK /\ ChannelTypes /\ RequestTypes /\ SessionTypes
        /\ Dialled /\ RoutesLive
  BY DEF SessionInv, TypeOK
<1>1. ChannelTypes'
  BY <1>0, SessionsAssumption, UpMsgFacts, DownMsgFacts, SendUpType, OfferType
     DEF ChannelTypes, SessionTypes
<1>2. RequestTypes'
  BY <1>0, UpMsgFacts, DownMsgFacts
     DEF RequestTypes, CmdRecord, Results, SessionTypes, ChannelTypes
<1>3. SessionTypes'
  BY <1>0, SessionsAssumption, UpMsgFacts DEF SessionTypes, ChannelTypes
<1>4. Dialled'
  BY <1>0, SessionsAssumption DEF SessionTypes, Dialled
<1>5. RoutesLive'
  BY <1>0, SessionsAssumption DEF SessionTypes, Dialled, RoutesLive, RequestTypes, CmdRecord
<1> QED
  BY <1>1, <1>2, <1>3, <1>4, <1>5 DEF SessionInv, TypeOK

LEMMA RetireStep ==
    ASSUME SessionInv, NEW d \in Devices, Retire(d)
    PROVE  SessionInv'
<1> USE DEF Retire, agentVars, hubVars, cmdVars, handlerVars
<1>0. TypeOK /\ ChannelTypes /\ RequestTypes /\ SessionTypes
        /\ Dialled /\ RoutesLive
  BY DEF SessionInv, TypeOK
<1>1. ChannelTypes'
  BY <1>0, SessionsAssumption, UpMsgFacts, DownMsgFacts, SendUpType, OfferType
     DEF ChannelTypes, SessionTypes
<1>2. RequestTypes'
  BY <1>0, UpMsgFacts, DownMsgFacts
     DEF RequestTypes, CmdRecord, Results, SessionTypes, ChannelTypes
<1>3. SessionTypes'
  BY <1>0, SessionsAssumption, UpMsgFacts DEF SessionTypes, ChannelTypes
<1>4. Dialled'
  BY <1>0, SessionsAssumption DEF SessionTypes, Dialled
<1>5. RoutesLive'
  BY <1>0, SessionsAssumption DEF SessionTypes, Dialled, RoutesLive, RequestTypes, CmdRecord
<1> QED
  BY <1>1, <1>2, <1>3, <1>4, <1>5 DEF SessionInv, TypeOK

LEMMA ConnectStep ==
    ASSUME SessionInv, NEW a \in Agents, NEW s \in Sessions, Connect(a, s)
    PROVE  SessionInv'
<1> USE DEF Connect, Dial, agentVars, hubVars, cmdVars, handlerVars
<1>0. TypeOK /\ ChannelTypes /\ RequestTypes /\ SessionTypes
        /\ Dialled /\ RoutesLive
  BY DEF SessionInv, TypeOK
<1>1. ChannelTypes'
  <2>1. PICK order \in [1..Cardinality(published[a]) -> published[a]] :
          up' = [up EXCEPT ![s] = <<[type |-> "hello"]>> \o
                   [i \in DOMAIN order |-> [type |-> "announce", dev |-> order[i]]]]
    OBVIOUS
  <2> DEFINE n == Cardinality(published[a])
             anns == [i \in DOMAIN order |-> [type |-> "announce", dev |-> order[i]]]
  <2>2. published[a] \subseteq Devices
    BY <1>0 DEF SessionTypes
  <2>3. CASE n \in Nat
    <3>1. anns \in [1..n -> UpMsgs]
      BY <2>1, <2>2, UpMsgFacts
    <3>2. anns \in Seq(UpMsgs)
      BY <2>3, <3>1, SeqDef
    <3>3. <<[type |-> "hello"]>> \o anns \in Seq(UpMsgs)
      BY <3>2, UpMsgFacts
    <3> QED
      BY <1>0, <2>1, <3>3 DEF ChannelTypes
  <2>4. n \in Nat
    BY <1>0, FS_CardinalityType, FS_Subset, SessionsAssumption DEF SessionTypes
  <2> QED
    BY <2>3, <2>4
<1>2. RequestTypes'
  BY <1>0, UpMsgFacts, DownMsgFacts
     DEF RequestTypes, CmdRecord, Results, SessionTypes, ChannelTypes
<1>3. SessionTypes'
  BY <1>0, SessionsAssumption, UpMsgFacts DEF SessionTypes, ChannelTypes
<1>4. Dialled'
  BY <1>0, SessionsAssumption DEF SessionTypes, Dialled
<1>5. RoutesLive'
  BY <1>0, SessionsAssumption DEF SessionTypes, Dialled, RoutesLive, RequestTypes, CmdRecord
<1> QED
  BY <1>1, <1>2, <1>3, <1>4, <1>5 DEF SessionInv, TypeOK

LEMMA BreakStep ==
    ASSUME SessionInv, NEW s \in Sessions, Break(s)
    PROVE  SessionInv'
<1> USE DEF Break, agentVars, hubVars, cmdVars, handlerVars
<1>0. TypeOK /\ ChannelTypes /\ RequestTypes /\ SessionTypes
        /\ Dialled /\ RoutesLive
  BY DEF SessionInv, TypeOK
<1>1. ChannelTypes'
  BY <1>0, SessionsAssumption, UpMsgFacts, DownMsgFacts, SendUpType, OfferType
     DEF ChannelTypes, SessionTypes
<1>2. RequestTypes'
  BY <1>0, UpMsgFacts, DownMsgFacts
     DEF RequestTypes, CmdRecord, Results, SessionTypes, ChannelTypes
<1>3. SessionTypes'
  BY <1>0, SessionsAssumption, UpMsgFacts DEF SessionTypes, ChannelTypes
<1>4. Dialled'
  BY <1>0, SessionsAssumption DEF SessionTypes, Dialled
<1>5. RoutesLive'
  BY <1>0, SessionsAssumption DEF SessionTypes, Dialled, RoutesLive, RequestTypes, CmdRecord
<1> QED
  BY <1>1, <1>2, <1>3, <1>4, <1>5 DEF SessionInv, TypeOK

LEMMA NoticeStep ==
    ASSUME SessionInv, NEW a \in Agents, AgentNotices(a)
    PROVE  SessionInv'
<1> USE DEF AgentNotices, agentVars, hubVars, cmdVars, handlerVars
<1>0. TypeOK /\ ChannelTypes /\ RequestTypes /\ SessionTypes
        /\ Dialled /\ RoutesLive
  BY DEF SessionInv, TypeOK
<1>1. ChannelTypes'
  BY <1>0, SessionsAssumption, UpMsgFacts, DownMsgFacts, SendUpType, OfferType
     DEF ChannelTypes, SessionTypes
<1>2. RequestTypes'
  BY <1>0, UpMsgFacts, DownMsgFacts
     DEF RequestTypes, CmdRecord, Results, SessionTypes, ChannelTypes
<1>3. SessionTypes'
  BY <1>0, SessionsAssumption, UpMsgFacts DEF SessionTypes, ChannelTypes
<1>4. Dialled'
  BY <1>0, SessionsAssumption DEF SessionTypes, Dialled
<1>5. RoutesLive'
  BY <1>0, SessionsAssumption DEF SessionTypes, Dialled, RoutesLive, RequestTypes, CmdRecord
<1> QED
  BY <1>1, <1>2, <1>3, <1>4, <1>5 DEF SessionInv, TypeOK

LEMMA ReceiveStep ==
    ASSUME SessionInv, NEW a \in Agents, AgentReceive(a)
    PROVE  SessionInv'
<1> USE DEF AgentReceive, TakeNext, agentVars, hubVars, cmdVars, handlerVars
<1>0. TypeOK /\ ChannelTypes /\ RequestTypes /\ SessionTypes
        /\ Dialled /\ RoutesLive
  BY DEF SessionInv, TypeOK
<1>a. /\ current[a] \in Sessions /\ Head(outq[current[a]]) \in DownMsgs
      /\ Tail(outq[current[a]]) \in Seq(DownMsgs)
  <2>1. current[a] \in Sessions
    BY <1>0 DEF SessionTypes
  <2> QED
    BY <1>0, <2>1, HeadTail DEF ChannelTypes
<1>1. ChannelTypes'
  BY <1>0, <1>a DEF ChannelTypes
<1>2. RequestTypes'
  <2> DEFINE m == Head(outq[current[a]])
  <2>1. CASE m.type = "command"
    <3> DEFINE r == m.req
    <3>1. r \in Cmds
      BY <1>a, <2>1, DownMsgFacts
    <3>2. handling' = [handling EXCEPT ![a] = r] /\ taken' = [taken EXCEPT ![r] = @ + 1]
      BY <2>1
    <3>3. cmd' = cmd /\ accepted' = accepted
      OBVIOUS
    <3> HIDE DEF m, r
    <3> QED
      BY <1>0, <3>1, <3>2, <3>3 DEF RequestTypes
  <2>2. CASE m.type # "command"
    BY <1>0, <2>2 DEF RequestTypes
  <2> QED
    BY <2>1, <2>2
<1>3. SessionTypes'
  BY <1>0, SessionsAssumption, UpMsgFacts DEF SessionTypes, ChannelTypes
<1>4. Dialled'
  BY <1>0, SessionsAssumption DEF SessionTypes, Dialled
<1>5. RoutesLive'
  BY <1>0, SessionsAssumption DEF SessionTypes, Dialled, RoutesLive, RequestTypes, CmdRecord
<1> QED
  BY <1>1, <1>2, <1>3, <1>4, <1>5 DEF SessionInv, TypeOK

LEMMA AnswersStep ==
    ASSUME SessionInv, NEW a \in Agents, NEW ok \in BOOLEAN, AgentAnswers(a, ok)
    PROVE  SessionInv'
<1> USE DEF AgentAnswers, agentVars, hubVars, cmdVars, handlerVars
<1>0. TypeOK /\ ChannelTypes /\ RequestTypes /\ SessionTypes
        /\ Dialled /\ RoutesLive
  BY DEF SessionInv, TypeOK
<1>a. handling[a] \in Cmds
  BY <1>0 DEF RequestTypes
<1>1. ChannelTypes'
  <2>1. [type |-> "ack", req |-> handling[a], ok |-> ok] \in UpMsgs
    BY <1>a, UpMsgFacts
  <2> QED
    BY <1>0, <2>1, SendUpType DEF ChannelTypes
<1>2. RequestTypes'
  BY <1>0, <1>a DEF RequestTypes
<1>3. SessionTypes'
  BY <1>0, SessionsAssumption, UpMsgFacts DEF SessionTypes, ChannelTypes
<1>4. Dialled'
  BY <1>0, SessionsAssumption DEF SessionTypes, Dialled
<1>5. RoutesLive'
  BY <1>0, SessionsAssumption DEF SessionTypes, Dialled, RoutesLive, RequestTypes, CmdRecord
<1> QED
  BY <1>1, <1>2, <1>3, <1>4, <1>5 DEF SessionInv, TypeOK

LEMMA HelloStep ==
    ASSUME SessionInv, NEW s \in Sessions, HandleHello(s)
    PROVE  SessionInv'
<1> USE DEF HandleHello, Reading, Take, agentVars, hubVars, cmdVars, handlerVars
<1>0. TypeOK /\ ChannelTypes /\ RequestTypes /\ SessionTypes
        /\ Dialled /\ RoutesLive
  BY DEF SessionInv, TypeOK
<1>1. ChannelTypes'
  <2>1. up' \in [Sessions -> Seq(UpMsgs)]
    BY <1>0, ReadingTypes
  <2>2. outq' \in [Sessions -> Seq(DownMsgs)]
    BY <1>0, DownMsgFacts DEF ChannelTypes
  <2> QED
    BY <2>1, <2>2 DEF ChannelTypes
<1>2. RequestTypes'
  BY <1>0, UpMsgFacts, DownMsgFacts
     DEF RequestTypes, CmdRecord, Results, SessionTypes, ChannelTypes
<1>3. SessionTypes'
  BY <1>0, SessionsAssumption, UpMsgFacts DEF SessionTypes, ChannelTypes
<1>4. Dialled'
  BY <1>0, SessionsAssumption DEF SessionTypes, Dialled
<1>5. RoutesLive'
  BY <1>0, SessionsAssumption DEF SessionTypes, Dialled, RoutesLive, RequestTypes, CmdRecord
<1> QED
  BY <1>1, <1>2, <1>3, <1>4, <1>5 DEF SessionInv, TypeOK

LEMMA HandleAnnounceStep ==
    ASSUME SessionInv, NEW s \in Sessions, HandleAnnounce(s)
    PROVE  SessionInv'
<1> USE DEF HandleAnnounce, Reading, Take, agentVars, hubVars, cmdVars, handlerVars
<1>0. TypeOK /\ ChannelTypes /\ RequestTypes /\ SessionTypes
        /\ Dialled /\ RoutesLive
  BY DEF SessionInv, TypeOK
<1>1. ChannelTypes'
  <2>1. up' \in [Sessions -> Seq(UpMsgs)]
    BY <1>0, ReadingTypes
  <2>2. outq' \in [Sessions -> Seq(DownMsgs)]
    BY <1>0, DownMsgFacts DEF ChannelTypes
  <2> QED
    BY <2>1, <2>2 DEF ChannelTypes
<1>2. RequestTypes'
  BY <1>0, UpMsgFacts, DownMsgFacts
     DEF RequestTypes, CmdRecord, Results, SessionTypes, ChannelTypes
<1>3. SessionTypes'
  BY <1>0, SessionsAssumption, UpMsgFacts DEF SessionTypes, ChannelTypes
<1>4. Dialled'
  BY <1>0, SessionsAssumption DEF SessionTypes, Dialled
<1>5. RoutesLive'
  BY <1>0, SessionsAssumption DEF SessionTypes, Dialled, RoutesLive, RequestTypes, CmdRecord
<1> QED
  BY <1>1, <1>2, <1>3, <1>4, <1>5 DEF SessionInv, TypeOK

LEMMA HandleRetireStep ==
    ASSUME SessionInv, NEW s \in Sessions, HandleRetire(s)
    PROVE  SessionInv'
<1> USE DEF HandleRetire, Reading, Take, agentVars, hubVars, cmdVars, handlerVars
<1>0. TypeOK /\ ChannelTypes /\ RequestTypes /\ SessionTypes
        /\ Dialled /\ RoutesLive
  BY DEF SessionInv, TypeOK
<1>1. ChannelTypes'
  <2>1. up' \in [Sessions -> Seq(UpMsgs)]
    BY <1>0, ReadingTypes
  <2>2. outq' \in [Sessions -> Seq(DownMsgs)]
    BY <1>0, DownMsgFacts DEF ChannelTypes
  <2> QED
    BY <2>1, <2>2 DEF ChannelTypes
<1>2. RequestTypes'
  BY <1>0, UpMsgFacts, DownMsgFacts
     DEF RequestTypes, CmdRecord, Results, SessionTypes, ChannelTypes
<1>3. SessionTypes'
  BY <1>0, SessionsAssumption, UpMsgFacts DEF SessionTypes, ChannelTypes
<1>4. Dialled'
  BY <1>0, SessionsAssumption DEF SessionTypes, Dialled
<1>5. RoutesLive'
  BY <1>0, SessionsAssumption DEF SessionTypes, Dialled, RoutesLive, RequestTypes, CmdRecord
<1> QED
  BY <1>1, <1>2, <1>3, <1>4, <1>5 DEF SessionInv, TypeOK

LEMMA AckStep ==
    ASSUME SessionInv, NEW s \in Sessions, HandleAck(s)
    PROVE  SessionInv'
<1> USE DEF HandleAck, Reading, Take, agentVars, hubVars, cmdVars, handlerVars
<1>0. TypeOK /\ ChannelTypes /\ RequestTypes /\ SessionTypes
        /\ Dialled /\ RoutesLive
  BY DEF SessionInv, TypeOK
<1>1. ChannelTypes'
  <2>1. up' \in [Sessions -> Seq(UpMsgs)]
    BY <1>0, ReadingTypes
  <2>2. outq' \in [Sessions -> Seq(DownMsgs)]
    BY <1>0, DownMsgFacts DEF ChannelTypes
  <2> QED
    BY <2>1, <2>2 DEF ChannelTypes
<1>2. RequestTypes'
  <2>1. Head(up[s]).req \in Cmds /\ Head(up[s]).ok \in BOOLEAN
    BY <1>0, ReadingTypes, UpMsgFacts
  <2>2. Ended("ok") \in CmdRecord /\ Ended("refused") \in CmdRecord
    BY EndedType DEF Results
  <2>3. cmd' \in [Cmds -> CmdRecord]
    BY <1>0, <2>1, <2>2 DEF RequestTypes
  <2> QED
    BY <1>0, <2>3 DEF RequestTypes
<1>3. SessionTypes'
  BY <1>0, SessionsAssumption, UpMsgFacts DEF SessionTypes, ChannelTypes
<1>4. Dialled'
  BY <1>0, SessionsAssumption DEF SessionTypes, Dialled
<1>5. RoutesLive'
  <2>1. \A c \in Cmds : cmd'[c].state = "waiting" => cmd'[c] = cmd[c]
    BY <1>0 DEF RequestTypes, Ended
  <2> QED
    BY <1>0, <2>1 DEF RoutesLive
<1> QED
  BY <1>1, <1>2, <1>3, <1>4, <1>5 DEF SessionInv, TypeOK

LEMMA EndStep ==
    ASSUME SessionInv, NEW s \in Sessions, EndSession(s)
    PROVE  SessionInv'
<1> USE DEF EndSession, TearDown, IsConn, WaitingOn, agentVars, hubVars, cmdVars, handlerVars
<1>0. TypeOK /\ ChannelTypes /\ RequestTypes /\ SessionTypes
        /\ Dialled /\ RoutesLive
  BY DEF SessionInv, TypeOK
<1>1. ChannelTypes'
  BY <1>0, SessionsAssumption, UpMsgFacts, DownMsgFacts, SendUpType, OfferType
     DEF ChannelTypes, SessionTypes
<1>2. RequestTypes'
  <2>1. Ended("disconnected") \in CmdRecord
    BY EndedType DEF Results
  <2> QED
    BY <1>0, <2>1 DEF RequestTypes
<1>3. SessionTypes'
  BY <1>0, SessionsAssumption, UpMsgFacts DEF SessionTypes, ChannelTypes
<1>4. Dialled'
  BY <1>0, SessionsAssumption DEF SessionTypes, Dialled
<1>5. RoutesLive'
  <2>1. "disconnected" \in Results
    BY DEF Results
  <2>2. Ended("disconnected").state = "disconnected"
    BY <2>1, EndedType
  <2> QED
    BY <1>0, <2>2, SessionsAssumption DEF SessionTypes, Dialled, RoutesLive, RequestTypes, CmdRecord
<1> QED
  BY <1>1, <1>2, <1>3, <1>4, <1>5 DEF SessionInv, TypeOK

LEMMA RestartStep ==
    ASSUME SessionInv, HubRestart
    PROVE  SessionInv'
<1> USE DEF HubRestart, agentVars, hubVars, cmdVars, handlerVars
<1>0. TypeOK /\ ChannelTypes /\ RequestTypes /\ SessionTypes
        /\ Dialled /\ RoutesLive
  BY DEF SessionInv, TypeOK
<1>1. ChannelTypes'
  <2>1. <<>> \in Seq(UpMsgs) /\ <<>> \in Seq(DownMsgs)
    BY EmptySeq
  <2> QED
    BY <2>1 DEF ChannelTypes
<1>2. RequestTypes'
  <2>1. Ended("hub_gone") \in CmdRecord
    BY EndedType DEF Results
  <2> QED
    BY <1>0, <2>1 DEF RequestTypes
<1>3. SessionTypes'
  BY <1>0, SessionsAssumption, UpMsgFacts DEF SessionTypes, ChannelTypes
<1>4. Dialled'
  BY <1>0, SessionsAssumption DEF SessionTypes, Dialled
<1>5. RoutesLive'
  <2>1. \A c \in Cmds : cmd'[c].state # "waiting"
    <3> SUFFICES ASSUME NEW c \in Cmds PROVE cmd'[c].state # "waiting"
      OBVIOUS
    <3>1. cmd'[c] = IF cmd[c].state = "waiting" THEN Ended("hub_gone") ELSE cmd[c]
      OBVIOUS
    <3> QED
      BY <3>1 DEF Ended
  <2> QED
    BY <1>0, <2>1 DEF RoutesLive
<1> QED
  BY <1>1, <1>2, <1>3, <1>4, <1>5 DEF SessionInv, TypeOK

LEMMA RequestStep ==
    ASSUME SessionInv, NEW c \in Cmds, NEW s \in Sessions \cup {None}, Request(c, s),
           s # None => s \in hubUp
    PROVE  SessionInv'
<1> USE DEF Request, agentVars, hubVars, handlerVars
<1>0. TypeOK /\ ChannelTypes /\ RequestTypes /\ SessionTypes
        /\ Dialled /\ RoutesLive
  BY DEF SessionInv, TypeOK
<1>1. ChannelTypes'
  <2>1. CASE s = None
    BY <1>0, <2>1 DEF ChannelTypes
  <2>2. CASE s # None
    <3>1. Offer(outq[s], [type |-> "command", req |-> c]) \in Seq(DownMsgs)
      BY <1>0, <2>2, OfferType, DownMsgFacts DEF ChannelTypes
    <3> QED
      BY <1>0, <2>2, <3>1 DEF ChannelTypes
  <2> QED
    BY <2>1, <2>2
<1>2. RequestTypes'
  <2>1. CASE s = None
    <3>1. Ended("no_owner") \in CmdRecord
      BY EndedType DEF Results
    <3> QED
      BY <1>0, <2>1, <3>1 DEF RequestTypes
  <2>2. CASE s # None
    <3>1. [state |-> "waiting", sess |-> s] \in CmdRecord
      BY <2>2 DEF CmdRecord
    <3> QED
      BY <1>0, <2>2, <3>1 DEF RequestTypes
  <2> QED
    BY <2>1, <2>2
<1>3. SessionTypes'
  BY <1>0, SessionsAssumption, UpMsgFacts DEF SessionTypes, ChannelTypes
<1>4. Dialled'
  BY <1>0, SessionsAssumption DEF SessionTypes, Dialled
<1>5. RoutesLive'
  <2>1. \A e \in Cmds : cmd'[e].state = "waiting" => cmd'[e].sess \in hubUp
    <3>1. CASE s = None
      BY <1>0, <3>1 DEF RequestTypes, RoutesLive, Ended
    <3>2. CASE s # None
      BY <1>0, <3>2 DEF RequestTypes, RoutesLive
    <3> QED
      BY <3>1, <3>2
  <2> QED
    BY <1>0, <2>1 DEF RoutesLive
<1> QED
  BY <1>1, <1>2, <1>3, <1>4, <1>5 DEF SessionInv, TypeOK

LEMMA SendStep ==
    ASSUME SessionInv, NEW c \in Cmds,
           \/ \E d \in Devices : SendCommand(c, d)
           \/ \E a \in Agents : AddDevice(c, a)
    PROVE  /\ SessionInv'
           /\ \E s \in Sessions \cup {None} : Request(c, s)
<1>1. /\ \A d \in Devices : route[d] \in Sessions \cup {None}
      /\ \A a \in Agents : agentConn[a] \in Sessions \cup {None}
      /\ \A d \in Devices : route[d] # None => route[d] \in hubUp
      /\ \A a \in Agents : agentConn[a] # None => agentConn[a] \in hubUp
  BY DEF SessionInv, TypeOK, SessionTypes, RoutesLive
<1>2. PICK s \in Sessions \cup {None} : Request(c, s) /\ (s # None => s \in hubUp)
  BY <1>1 DEF SendCommand, AddDevice
<1> QED
  BY <1>2, RequestStep

LEMMA TimeoutStep ==
    ASSUME SessionInv, NEW c \in Cmds, Timeout(c)
    PROVE  SessionInv'
<1> USE DEF Timeout, agentVars, hubVars, handlerVars
<1>0. TypeOK /\ ChannelTypes /\ RequestTypes /\ SessionTypes
        /\ Dialled /\ RoutesLive
  BY DEF SessionInv, TypeOK
<1>a. Ended("timeout") \in CmdRecord /\ Ended("timeout").state = "timeout"
  BY EndedType DEF Results
<1>1. ChannelTypes'
  BY <1>0 DEF ChannelTypes
<1>2. RequestTypes'
  BY <1>0, <1>a DEF RequestTypes
<1>3. SessionTypes'
  BY <1>0, SessionsAssumption, UpMsgFacts DEF SessionTypes, ChannelTypes
<1>4. Dialled'
  BY <1>0, SessionsAssumption DEF SessionTypes, Dialled
<1>5. RoutesLive'
  BY <1>0, <1>a DEF RoutesLive, RequestTypes
<1> QED
  BY <1>1, <1>2, <1>3, <1>4, <1>5 DEF SessionInv, TypeOK

LEMMA StepSessionInv == SessionInv /\ [Next]_vars => SessionInv'
<1> SUFFICES ASSUME SessionInv, [Next]_vars PROVE SessionInv'
  OBVIOUS
<1>1. CASE Next
  BY <1>1, AnnounceStep, RetireStep, ConnectStep, BreakStep, NoticeStep,
     ReceiveStep, AnswersStep, HelloStep, HandleAnnounceStep, HandleRetireStep,
     AckStep, EndStep, RestartStep, SendStep, TimeoutStep DEF Next, HubReads
<1>2. CASE UNCHANGED vars
  BY <1>2 DEF vars, agentVars, hubVars, cmdVars, handlerVars, SessionInv, TypeOK,
     ChannelTypes, RequestTypes, SessionTypes, Dialled, RoutesLive
<1> QED
  BY <1>1, <1>2

(* The variables keep their types in every behaviour. *)
THEOREM SessionsTypeCorrect == Spec => []TypeOK
<1>1. SessionInv => TypeOK
  BY DEF SessionInv
<1> QED
  BY <1>1, InitSessionInv, StepSessionInv, PTL DEF Spec

(* Catalog, routes, agent routes and waiting requests always rest on running *)
(* sessions: the hub never offers a message to a queue nobody reads.         *)
THEOREM RoutesAlwaysLive == Spec => []RoutesLive
<1>1. SessionInv => RoutesLive
  BY DEF SessionInv
<1> QED
  BY <1>1, InitSessionInv, StepSessionInv, PTL DEF Spec

----------------------------------------------------------------------------
(* A handler is asked once, and the viewer is told what it said.             *)

(* Message m is command c. *)
Is(m, c) == m.type = "command" /\ m.req = c

(* A request is in one place of one out-queue at most ... *)
QueuedOnce ==
    \A c \in Cmds : \A s, t \in Sessions : \A i \in DOMAIN outq[s], j \in DOMAIN outq[t] :
        Is(outq[s][i], c) /\ Is(outq[t][j], c) => s = t /\ i = j

(* ... which it reaches when it is made, and leaves to be handled. *)
QueuedUntaken ==
    \A c \in Cmds : \A s \in Sessions : \A i \in DOMAIN outq[s] :
        Is(outq[s][i], c) => taken[c] = 0 /\ (cmd[c].state # "new" /\ cmd[c].state # "no_owner")

(* One handler at a time works on a request that was taken once and has had  *)
(* no answer of its agent yet.                                               *)
HandledOnce ==
    /\ \A a \in Agents : \A c \in Cmds : handling[a] = c =>
          /\ taken[c] = 1 /\ c \notin accepted
          /\ cmd[c].state # "new" /\ cmd[c].state # "no_owner"
          /\ cmd[c].state # "ok" /\ cmd[c].state # "refused"
    /\ \A a, b \in Agents : \A c \in Cmds : handling[a] = c /\ handling[b] = c => a = b
    /\ \A c \in Cmds : c \in accepted => taken[c] = 1

(* What a message says if it is an answer: its handler is done, and said so. *)
Truthful(m) ==
    m.type = "ack" =>
        /\ taken[m.req] = 1 /\ (m.ok <=> m.req \in accepted)
        /\ \A a \in Agents : handling[a] # m.req

(* An answer on its way to the hub is true. *)
AckedTrue == \A s \in Sessions : \A i \in DOMAIN up[s] : Truthful(up[s][i])

OnceInv == QueuedOnce /\ QueuedUntaken /\ HandledOnce /\ AckedTrue /\ AnswersTrue

(* What becomes of a request that gets no answer of its agent in this step. *)
Unanswered(c) ==
    \/ cmd'[c].state = cmd[c].state
    \/ /\ cmd'[c].state # "new" /\ cmd'[c].state # "no_owner"
       /\ cmd'[c].state # "ok" /\ cmd'[c].state # "refused"
    \/ cmd[c].state = "new" /\ cmd'[c].state = "no_owner"

(* What a queue holds when its oldest message has been taken. *)
LEMMA TailFacts ==
    ASSUME NEW S, NEW q \in Seq(S), q # <<>>
    PROVE  \A j \in DOMAIN Tail(q) : j + 1 \in DOMAIN q /\ Tail(q)[j] = q[j + 1]
  OBVIOUS

LEMMA ListIsSeq ==
    ASSUME NEW S, NEW n \in Nat, NEW f \in [1..n -> S]
    PROVE  f \in Seq(S)
  OBVIOUS

LEMMA ConcatFacts ==
    ASSUME NEW S, NEW p \in Seq(S), NEW q \in Seq(S)
    PROVE  \A j \in DOMAIN (p \o q) : \/ \E i \in DOMAIN p : (p \o q)[j] = p[i]
                                     \/ \E i \in DOMAIN q : (p \o q)[j] = q[i]
<1> SUFFICES ASSUME NEW j \in 1..(Len(p) + Len(q))
             PROVE  \/ \E i \in DOMAIN p : (p \o q)[j] = p[i]
                    \/ \E i \in DOMAIN q : (p \o q)[j] = q[i]
  OBVIOUS
<1>1. CASE j <= Len(p)
  BY <1>1
<1>2. CASE j > Len(p)
  <2>1. j - Len(p) \in DOMAIN q /\ (p \o q)[j] = q[j - Len(p)]
    BY <1>2
  <2> QED
    BY <2>1
<1> QED
  BY <1>1, <1>2

(* _offer puts the message last, and moves the others by at most one. *)
OfferedLast(q, m) ==
    \E k \in Nat : \A j \in DOMAIN Offer(q, m) :
        \/ j = Len(Offer(q, m)) /\ Offer(q, m)[j] = m
        \/ j + k \in DOMAIN q /\ Offer(q, m)[j] = q[j + k]

LEMMA OfferFacts ==
    ASSUME NEW S, NEW q \in Seq(S), NEW m \in S
    PROVE  OfferedLast(q, m)
<1> USE DEF OfferedLast
<1>1. CASE Len(q) < OutqSize
  <2>1. Offer(q, m) = Append(q, m)
    BY <1>1 DEF Offer
  <2>2. \A j \in DOMAIN Append(q, m) :
           \/ j = Len(Append(q, m)) /\ Append(q, m)[j] = m
           \/ j + 0 \in DOMAIN q /\ Append(q, m)[j] = q[j + 0]
    OBVIOUS
  <2> QED
    BY <2>1, <2>2
<1>2. CASE ~(Len(q) < OutqSize)
  <2>1. Offer(q, m) = Append(Tail(q), m)
    BY <1>2 DEF Offer
  <2>2. q # <<>>
    BY <1>2, SessionsAssumption
  <2>3. Tail(q) \in Seq(S)
    BY <2>2
  <2>4. \A j \in DOMAIN Append(Tail(q), m) :
           \/ j = Len(Append(Tail(q), m)) /\ Append(Tail(q), m)[j] = m
           \/ j \in DOMAIN Tail(q) /\ Append(Tail(q), m)[j] = Tail(q)[j]
    BY <2>3
  <2>5. \A j \in DOMAIN Append(Tail(q), m) :
           \/ j = Len(Append(Tail(q), m)) /\ Append(Tail(q), m)[j] = m
           \/ j + 1 \in DOMAIN q /\ Append(Tail(q), m)[j] = q[j + 1]
    BY <2>2, <2>4, TailFacts
  <2> QED
    BY <2>1, <2>5
<1> QED
  BY <1>1, <1>2

(* Queues that only lose commands, or move up, keep what is said of them. *)
LEMMA QueuesShrink ==
    ASSUME QueuedOnce, QueuedUntaken, NEW K \in [Sessions -> Nat],
           \A s \in Sessions : \A j \in DOMAIN outq'[s] : outq'[s][j].type = "command" =>
              j \in Nat /\ j + K[s] \in DOMAIN outq[s] /\ outq[s][j + K[s]] = outq'[s][j],
           \A c \in Cmds : \A s \in Sessions : \A j \in DOMAIN outq'[s] :
              Is(outq'[s][j], c) => taken'[c] = taken[c],
           \A c \in Cmds : (cmd[c].state # "new" /\ cmd[c].state # "no_owner") =>
              (cmd'[c].state # "new" /\ cmd'[c].state # "no_owner")
    PROVE  QueuedOnce' /\ QueuedUntaken'
<1>1. QueuedOnce'
  <2> SUFFICES ASSUME NEW c \in Cmds, NEW s \in Sessions, NEW t \in Sessions,
                      NEW i \in DOMAIN outq'[s], NEW j \in DOMAIN outq'[t],
                      Is(outq'[s][i], c), Is(outq'[t][j], c)
               PROVE  s = t /\ i = j
    BY DEF QueuedOnce
  <2>1. /\ i + K[s] \in DOMAIN outq[s] /\ Is(outq[s][i + K[s]], c) /\ i \in Nat
        /\ j + K[t] \in DOMAIN outq[t] /\ Is(outq[t][j + K[t]], c) /\ j \in Nat
    BY DEF Is
  <2>2. s = t /\ i + K[s] = j + K[t]
    BY <2>1 DEF QueuedOnce
  <2>3. \E k \in Nat : K[s] = k /\ K[t] = k
    BY <2>2
  <2>4. i \in Nat /\ j \in Nat
    BY <2>1
  <2>5. PICK k \in Nat : i + k = j + k
    BY <2>2, <2>3
  <2>6. i = j
    BY <2>4, <2>5
  <2> QED
    BY <2>2, <2>6
<1>2. QueuedUntaken'
  <2> SUFFICES ASSUME NEW c \in Cmds, NEW s \in Sessions, NEW i \in DOMAIN outq'[s],
                      Is(outq'[s][i], c)
               PROVE  taken'[c] = 0 /\ (cmd'[c].state # "new" /\ cmd'[c].state # "no_owner")
    BY DEF QueuedUntaken
  <2>1. i + K[s] \in DOMAIN outq[s] /\ Is(outq[s][i + K[s]], c)
    BY DEF Is
  <2>2. taken[c] = 0 /\ (cmd[c].state # "new" /\ cmd[c].state # "no_owner")
    BY <2>1 DEF QueuedUntaken
  <2> QED
    BY <2>2
<1> QED
  BY <1>1, <1>2

(* Answers that are not joined by others keep what is said of them. *)
LEMMA AnswersShrink ==
    ASSUME AckedTrue, UNCHANGED handlerVars,
           \A s \in Sessions : \A j \in DOMAIN up'[s] : up'[s][j].type = "ack" =>
              \E i \in DOMAIN up[s] : up[s][i] = up'[s][j]
    PROVE  AckedTrue'
  BY DEF AckedTrue, Truthful, handlerVars

(* A step of the links and the devices leaves the requests as they are. *)
LEMMA QuietOnce ==
    ASSUME OnceInv, UNCHANGED cmdVars,
           \A s \in Sessions : \A j \in DOMAIN up'[s] : up'[s][j].type = "ack" =>
              \E i \in DOMAIN up[s] : up[s][i] = up'[s][j]
    PROVE  OnceInv'
<1>1. AckedTrue'
  BY AnswersShrink DEF OnceInv, cmdVars, handlerVars
<1> QED
  BY <1>1 DEF OnceInv, cmdVars, handlerVars, QueuedOnce, QueuedUntaken, HandledOnce,
              AnswersTrue

(* A message of another kind than an answer joins those on the way to the hub. *)
LEMMA SaidOnce ==
    ASSUME SessionInv, OnceInv, UNCHANGED cmdVars, NEW a \in Agents, NEW m \in UpMsgs,
           m.type # "ack", up' = SendUp(a, m)
    PROVE  OnceInv'
<1>1. up \in [Sessions -> Seq(UpMsgs)]
  BY DEF SessionInv, TypeOK, ChannelTypes
<1>2. \A q \in Seq(UpMsgs) : \A j \in DOMAIN Append(q, m) :
         \/ Append(q, m)[j] = m
         \/ j \in DOMAIN q /\ Append(q, m)[j] = q[j]
  OBVIOUS
<1>3. \A s \in Sessions : \A j \in DOMAIN up'[s] : up'[s][j].type = "ack" =>
         \E i \in DOMAIN up[s] : up[s][i] = up'[s][j]
  BY <1>1, <1>2 DEF SendUp
<1> QED
  BY <1>3, QuietOnce

(* The hub reads the oldest message of a session. *)
LEMMA ReadOnce ==
    ASSUME SessionInv, OnceInv, UNCHANGED cmdVars, NEW s \in Sessions,
           up[s] # <<>>, Take(s)
    PROVE  OnceInv'
<1>1. up \in [Sessions -> Seq(UpMsgs)]
  BY DEF SessionInv, TypeOK, ChannelTypes
<1>2. \A j \in DOMAIN Tail(up[s]) : j + 1 \in DOMAIN up[s] /\ Tail(up[s])[j] = up[s][j + 1]
  BY <1>1, TailFacts
<1>3. \A t \in Sessions : \A j \in DOMAIN up'[t] : up'[t][j].type = "ack" =>
         \E i \in DOMAIN up[t] : up[t][i] = up'[t][j]
  BY <1>1, <1>2 DEF Take
<1> QED
  BY <1>3, QuietOnce

LEMMA ConnectOnce ==
    ASSUME SessionInv, OnceInv, NEW a \in Agents, NEW s \in Sessions, Connect(a, s)
    PROVE  OnceInv'
<1>1. up \in [Sessions -> Seq(UpMsgs)]
  BY DEF SessionInv, TypeOK, ChannelTypes
<1>2. Cardinality(published[a]) \in Nat
  BY SessionsAssumption, FS_Subset, FS_CardinalityType
     DEF SessionInv, TypeOK, SessionTypes
<1>3. PICK order \in [1..Cardinality(published[a]) -> published[a]] :
         up' = [up EXCEPT ![s] = <<[type |-> "hello"]>> \o
                   [i \in DOMAIN order |-> [type |-> "announce", dev |-> order[i]]]]
  BY DEF Connect, Dial
<1> DEFINE msgs == [i \in DOMAIN order |-> [type |-> "announce", dev |-> order[i]]]
<1>4. msgs \in [1..Cardinality(published[a]) -> {m \in UpMsgs : m.type # "ack"}]
  BY <1>2, UpMsgFacts DEF SessionInv, TypeOK, SessionTypes
<1> HIDE DEF msgs
<1>5. msgs \in Seq({m \in UpMsgs : m.type # "ack"})
  BY <1>2, <1>4, ListIsSeq
<1>6. \A j \in DOMAIN (<<[type |-> "hello"]>> \o msgs) :
         (<<[type |-> "hello"]>> \o msgs)[j].type # "ack"
  <2> DEFINE X == {m \in UpMsgs : m.type # "ack"}
  <2> DEFINE h == <<[type |-> "hello"]>>
  <2>1. h \in Seq(X)
    BY UpMsgFacts
  <2>2. \A i \in DOMAIN h : h[i] \in X
    BY UpMsgFacts
  <2>3. \A i \in DOMAIN msgs : msgs[i] \in X
    BY <1>5
  <2>4. \A x \in X : x.type # "ack"
    OBVIOUS
  <2> HIDE DEF h, X
  <2>5. msgs \in Seq(X)
    BY <1>5 DEF X
  <2>6. \A j \in DOMAIN (h \o msgs) : (h \o msgs)[j] \in X
    BY <2>1, <2>2, <2>3, <2>5, ConcatFacts
  <2> QED
    BY <2>4, <2>6 DEF h
<1>7. \A t \in Sessions : \A j \in DOMAIN up'[t] : up'[t][j].type = "ack" =>
         \E i \in DOMAIN up[t] : up[t][i] = up'[t][j]
  BY <1>1, <1>3, <1>6 DEF msgs
<1> QED
  BY <1>7, QuietOnce DEF Connect, Dial

(* The welcome joins the out-queue and is no command. *)
LEMMA HelloOnce ==
    ASSUME SessionInv, OnceInv, NEW s \in Sessions, HandleHello(s)
    PROVE  OnceInv'
<1>0. /\ up \in [Sessions -> Seq(UpMsgs)] /\ outq \in [Sessions -> Seq(DownMsgs)]
      /\ up[s] # <<>> /\ up' = [up EXCEPT ![s] = Tail(@)] /\ cmd' = cmd
      /\ UNCHANGED handlerVars
      /\ outq' = [outq EXCEPT ![s] = Append(@, [type |-> "welcome"])]
  BY DEF SessionInv, TypeOK, ChannelTypes, HandleHello, Reading, Take
<1>1. \A q \in Seq(DownMsgs) : \A j \in DOMAIN Append(q, [type |-> "welcome"]) :
         \/ Append(q, [type |-> "welcome"])[j].type # "command"
         \/ j \in Nat /\ j \in DOMAIN q /\ Append(q, [type |-> "welcome"])[j] = q[j]
  BY DownMsgFacts
<1> DEFINE K == [t \in Sessions |-> 0]
<1>2. \A t \in Sessions : \A j \in DOMAIN outq'[t] : outq'[t][j].type = "command" =>
         j \in Nat /\ j + K[t] \in DOMAIN outq[t] /\ outq[t][j + K[t]] = outq'[t][j]
  BY <1>0, <1>1
<1>3. K \in [Sessions -> Nat]
  OBVIOUS
<1> HIDE DEF K
<1>4. QueuedOnce' /\ QueuedUntaken'
  BY <1>0, <1>2, <1>3, QueuesShrink DEF OnceInv, handlerVars
<1>5. \A j \in DOMAIN Tail(up[s]) : j + 1 \in DOMAIN up[s] /\ Tail(up[s])[j] = up[s][j + 1]
  BY <1>0, TailFacts
<1>6. AckedTrue'
  BY <1>0, <1>5, AnswersShrink DEF OnceInv
<1> QED
  BY <1>0, <1>4, <1>6 DEF OnceInv, HandledOnce, AnswersTrue, handlerVars

(* An answer the hub reads is true. *)
LEMMA AckOnce ==
    ASSUME SessionInv, OnceInv, NEW s \in Sessions, HandleAck(s)
    PROVE  OnceInv'
<1>0. /\ up \in [Sessions -> Seq(UpMsgs)] /\ cmd \in [Cmds -> CmdRecord]
      /\ up[s] # <<>> /\ up' = [up EXCEPT ![s] = Tail(@)] /\ outq' = outq
      /\ taken' = taken /\ accepted' = accepted /\ handling' = handling
      /\ Head(up[s]).type = "ack" /\ Head(up[s]) \in UpMsgs
  BY DEF SessionInv, TypeOK, ChannelTypes, RequestTypes, HandleAck, Reading, Take, handlerVars
<1> DEFINE ack == Head(up[s])
<1>1. ack.req \in Cmds /\ ack.ok \in BOOLEAN
  BY <1>0, UpMsgFacts
<1>2. Truthful(ack) /\ ack.type = "ack"
  BY <1>0 DEF OnceInv, AckedTrue
<1>3. cmd' = IF cmd[ack.req].state = "waiting"
             THEN [cmd EXCEPT ![ack.req] = Ended(IF ack.ok THEN "ok" ELSE "refused")]
             ELSE cmd
  BY DEF HandleAck
<1> HIDE DEF ack
<1>4. \A e \in Cmds :
         \/ cmd'[e] = cmd[e]
         \/ /\ e = ack.req /\ cmd[e].state = "waiting"
            /\ cmd'[e].state = IF ack.ok THEN "ok" ELSE "refused"
  BY <1>0, <1>1, <1>3 DEF Ended
<1>5. QueuedOnce' /\ QueuedUntaken'
  <2>1. ASSUME NEW e \in Cmds, cmd[e].state # "new", cmd[e].state # "no_owner"
        PROVE  cmd'[e].state # "new" /\ cmd'[e].state # "no_owner"
    BY <1>4, <2>1
  <2> QED
    BY <1>0, <2>1 DEF OnceInv, QueuedOnce, QueuedUntaken
<1>6. \A j \in DOMAIN Tail(up[s]) : j + 1 \in DOMAIN up[s] /\ Tail(up[s])[j] = up[s][j + 1]
  BY <1>0, TailFacts
<1>7. AckedTrue'
  BY <1>0, <1>6, AnswersShrink DEF OnceInv, handlerVars
<1>8. HandledOnce'
  BY <1>0, <1>2, <1>4 DEF OnceInv, HandledOnce, Truthful
<1>9. AnswersTrue'
  BY <1>0, <1>1, <1>2, <1>4 DEF OnceInv, AnswersTrue, Truthful
<1> QED
  BY <1>5, <1>7, <1>8, <1>9 DEF OnceInv

(* A request is taken when it leaves the queue, in which it was once. *)
LEMMA ReceiveOnce ==
    ASSUME SessionInv, OnceInv, NEW a \in Agents, AgentReceive(a)
    PROVE  OnceInv'
<1> DEFINE s == current[a]
<1>0. /\ outq \in [Sessions -> Seq(DownMsgs)] /\ up' = up
      /\ taken \in [Cmds -> Nat] /\ s \in Sessions /\ s # None
      /\ handling \in [Agents -> Cmds \cup {None}] /\ handling[a] = None /\ None \notin Cmds
      /\ outq[s] # <<>> /\ outq' = [outq EXCEPT ![s] = Tail(@)] /\ cmd' = cmd
      /\ Head(outq[s]) \in DownMsgs /\ accepted' = accepted
  BY SessionsAssumption
     DEF SessionInv, TypeOK, ChannelTypes, SessionTypes, RequestTypes, AgentReceive,
         TakeNext, agentVars
<1>1. \A j \in DOMAIN Tail(outq[s]) :
         j \in Nat /\ j + 1 \in DOMAIN outq[s] /\ Tail(outq[s])[j] = outq[s][j + 1]
  BY <1>0, TailFacts
<1> DEFINE m == Head(outq[s])
<1> DEFINE K == [t \in Sessions |-> IF t = s THEN 1 ELSE 0]
<1>2. K \in [Sessions -> Nat] /\ K[s] = 1 /\ \A t \in Sessions : t # s => K[t] = 0
  BY <1>0
<1>3. \A t \in Sessions : \A j \in DOMAIN outq'[t] : outq'[t][j].type = "command" =>
         j \in Nat /\ j + K[t] \in DOMAIN outq[t] /\ outq[t][j + K[t]] = outq'[t][j]
  <2> HIDE DEF K, s
  <2> SUFFICES ASSUME NEW t \in Sessions, NEW j \in DOMAIN outq'[t]
               PROVE  j \in Nat /\ j + K[t] \in DOMAIN outq[t]
                        /\ outq[t][j + K[t]] = outq'[t][j]
    OBVIOUS
  <2>1. CASE t = s
    BY <1>0, <1>1, <1>2, <2>1
  <2>2. CASE t # s
    <3>1. outq'[t] = outq[t] /\ K[t] = 0 /\ outq[t] \in Seq(DownMsgs)
      BY <1>0, <1>2, <2>2
    <3> QED
      BY <3>1
  <2> QED
    BY <2>1, <2>2
<1>4. CASE m.type = "command"
  <2> DEFINE r == m.req
  <2>1. r \in Cmds
    BY <1>0, <1>4, DownMsgFacts
  <2>2. taken' = [taken EXCEPT ![r] = @ + 1] /\ handling' = [handling EXCEPT ![a] = r]
    BY <1>4 DEF AgentReceive, TakeNext
  <2>3. 1 \in DOMAIN outq[s] /\ Is(outq[s][1], r)
    BY <1>0, <1>4 DEF Is
  <2>4. taken[r] = 0 /\ (cmd[r].state # "new" /\ cmd[r].state # "no_owner")
    BY <1>0, <2>1, <2>3 DEF OnceInv, QueuedUntaken
  <2>c. (cmd[r].state # "ok" /\ cmd[r].state # "refused") /\ r \notin accepted
    BY <2>1, <2>4 DEF OnceInv, AnswersTrue, HandledOnce
  <2> HIDE DEF K, r, s, m
  <2>5. \A e \in Cmds : \A t \in Sessions : \A j \in DOMAIN outq'[t] :
           Is(outq'[t][j], e) => e # r
    <3> SUFFICES ASSUME NEW t \in Sessions, NEW j \in DOMAIN outq'[t], Is(outq'[t][j], r)
                 PROVE  FALSE
      BY <2>1
    <3>1. j \in Nat /\ j + K[t] \in DOMAIN outq[t] /\ Is(outq[t][j + K[t]], r)
      BY <1>3 DEF Is
    <3>2. t = s /\ j + K[t] = 1
      BY <1>0, <2>1, <2>3, <3>1 DEF OnceInv, QueuedOnce
    <3>3. j = 0 /\ outq'[t] = Tail(outq[s])
      BY <1>0, <1>2, <3>1, <3>2
    <3>4. 0 \notin DOMAIN Tail(outq[s])
      BY <1>0
    <3> QED
      BY <3>3, <3>4
  <2>6. \A e \in Cmds : e # r => taken'[e] = taken[e]
    BY <1>0, <2>2
  <2>7. QueuedOnce' /\ QueuedUntaken'
    <3>1. \A e \in Cmds : \A t \in Sessions : \A j \in DOMAIN outq'[t] :
             Is(outq'[t][j], e) => taken'[e] = taken[e]
      BY <2>5, <2>6
    <3>2. \A e \in Cmds : (cmd[e].state # "new" /\ cmd[e].state # "no_owner") =>
             (cmd'[e].state # "new" /\ cmd'[e].state # "no_owner")
      BY <1>0
    <3> QED
      BY <1>2, <1>3, <3>1, <3>2, QueuesShrink DEF OnceInv
  <2>8. taken'[r] = 1
    BY <1>0, <2>1, <2>2, <2>4
  <2>9. HandledOnce'
    <3>1. \A b \in Agents : b # a => handling'[b] = handling[b] /\ handling[b] # r
      BY <1>0, <2>1, <2>2, <2>4 DEF OnceInv, HandledOnce
    <3>2. handling'[a] = r
      BY <1>0, <2>2
    <3>3. ASSUME NEW b \in Agents, NEW c \in Cmds, handling'[b] = c
          PROVE  /\ taken'[c] = 1 /\ c \notin accepted'
                 /\ cmd'[c].state # "new" /\ cmd'[c].state # "no_owner"
                 /\ cmd'[c].state # "ok" /\ cmd'[c].state # "refused"
      <4>1. CASE b = a
        BY <1>0, <2>4, <2>c, <2>8, <3>2, <3>3, <4>1
      <4>2. CASE b # a
        <5>1. c # r /\ handling[b] = c
          BY <3>1, <3>3, <4>2
        <5> QED
          BY <1>0, <2>6, <5>1 DEF OnceInv, HandledOnce
      <4> QED
        BY <4>1, <4>2
    <3>4. ASSUME NEW b \in Agents, NEW e \in Agents, NEW c \in Cmds,
                 handling'[b] = c, handling'[e] = c
          PROVE  b = e
      BY <3>1, <3>2, <3>4 DEF OnceInv, HandledOnce
    <3>5. \A c \in Cmds : c \in accepted' => taken'[c] = 1
      BY <1>0, <2>6, <2>8 DEF OnceInv, HandledOnce
    <3> QED
      BY <3>3, <3>4, <3>5 DEF HandledOnce
  <2>10. AckedTrue'
    <3> SUFFICES ASSUME NEW t \in Sessions, NEW j \in DOMAIN up[t], up[t][j].type = "ack"
                 PROVE  Truthful(up[t][j])'
      BY <1>0 DEF AckedTrue, Truthful
    <3>1. Truthful(up[t][j])
      BY DEF OnceInv, AckedTrue
    <3>2. up[t][j] \in UpMsgs
      BY DEF SessionInv, TypeOK, ChannelTypes
    <3>3. up[t][j].req \in Cmds
      BY <3>2, UpMsgFacts
    <3>4. up[t][j].req # r
      BY <2>4, <3>1 DEF Truthful
    <3>5. \A b \in Agents : handling'[b] \in {handling[b], r}
      BY <1>0, <2>2
    <3> QED
      BY <1>0, <2>6, <3>1, <3>3, <3>4, <3>5 DEF Truthful
  <2>11. AnswersTrue'
    BY <1>0, <2>1, <2>4, <2>c, <2>6, <2>8 DEF OnceInv, AnswersTrue
  <2> QED
    BY <2>7, <2>9, <2>10, <2>11 DEF OnceInv
<1>5. CASE m.type # "command"
  <2>1. taken' = taken /\ handling' = handling
    BY <1>5 DEF AgentReceive, TakeNext
  <2> HIDE DEF K, s, m
  <2>2. QueuedOnce' /\ QueuedUntaken'
    BY <1>0, <1>2, <1>3, <2>1, QueuesShrink DEF OnceInv
  <2> QED
    BY <1>0, <2>1, <2>2 DEF OnceInv, AckedTrue, Truthful, HandledOnce, AnswersTrue
<1> QED
  BY <1>4, <1>5

(* The answer of a handler is sent when it is at its end. *)
LEMMA AnswersOnce ==
    ASSUME SessionInv, OnceInv, NEW a \in Agents, NEW ok \in BOOLEAN, AgentAnswers(a, ok)
    PROVE  OnceInv'
<1> SUFFICES ASSUME NEW r, r = handling[a], NEW k, k = [type |-> "ack", req |-> r, ok |-> ok]
             PROVE  OnceInv'
  OBVIOUS
<1>0. /\ up \in [Sessions -> Seq(UpMsgs)] /\ handling \in [Agents -> Cmds \cup {None}]
      /\ r \in Cmds /\ r # None /\ cmd' = cmd /\ outq' = outq /\ taken' = taken
      /\ None \notin Cmds /\ handling' = [handling EXCEPT ![a] = None]
      /\ accepted' = (IF ok THEN accepted \cup {r} ELSE accepted) /\ up' = SendUp(a, k)
  BY SessionsAssumption DEF SessionInv, TypeOK, ChannelTypes, RequestTypes, AgentAnswers
<1>1. k \in UpMsgs /\ k.req = r /\ k.ok = ok /\ k.type = "ack"
  BY <1>0, UpMsgFacts
<1>2. /\ taken[r] = 1 /\ r \notin accepted
      /\ cmd[r].state # "new" /\ cmd[r].state # "no_owner"
      /\ cmd[r].state # "ok" /\ cmd[r].state # "refused"
      /\ \A b \in Agents : b # a => handling[b] # r
  BY <1>0 DEF OnceInv, HandledOnce
<1>3. \A b \in Agents : handling'[b] # r /\ (handling'[b] = handling[b] \/ handling'[b] = None)
  BY <1>0, <1>2
<1>4. QueuedOnce' /\ QueuedUntaken'
  BY <1>0 DEF OnceInv, QueuedOnce, QueuedUntaken
<1>5. HandledOnce'
  BY <1>0, <1>2, <1>3 DEF OnceInv, HandledOnce
<1>6. AckedTrue'
  <2>1. \A q \in Seq(UpMsgs) : \A j \in DOMAIN Append(q, k) :
           \/ Append(q, k)[j] = k
           \/ j \in DOMAIN q /\ Append(q, k)[j] = q[j]
    BY <1>1
  <2>2. \A t \in Sessions : \A j \in DOMAIN up'[t] :
           up'[t][j] = k \/ (j \in DOMAIN up[t] /\ up'[t][j] = up[t][j])
    BY <1>0, <2>1 DEF SendUp
  <2>3. Truthful(k)'
    BY <1>0, <1>1, <1>2, <1>3 DEF Truthful
  <2>4. ASSUME NEW t \in Sessions, NEW j \in DOMAIN up[t], NEW m, m = up[t][j]
        PROVE  Truthful(m)'
    <3>1. Truthful(m)
      BY <2>4 DEF OnceInv, AckedTrue
    <3>2. m.type = "ack" => m.req \in Cmds
      BY <1>0, <2>4, UpMsgFacts
    <3>3. m.type = "ack" => m.req # r
      BY <3>1 DEF Truthful
    <3> QED
      BY <1>0, <1>3, <3>1, <3>2, <3>3 DEF Truthful
  <2> SUFFICES ASSUME NEW t \in Sessions, NEW j \in DOMAIN up'[t], NEW m, m = up'[t][j]
               PROVE  Truthful(m)'
    BY DEF AckedTrue
  <2> QED
    BY <2>2, <2>3, <2>4
<1>7. AnswersTrue'
  BY <1>0, <1>2 DEF OnceInv, AnswersTrue
<1> QED
  BY <1>4, <1>5, <1>6, <1>7 DEF OnceInv

(* The end of a session, or of the hub, empties queues and answers nobody "ok". *)
LEMMA CutOnce ==
    ASSUME OnceInv, NEW Gone \in SUBSET Sessions, UNCHANGED handlerVars,
           \A s \in Sessions : s \in Gone => outq'[s] = <<>> /\ up'[s] = <<>>,
           \A s \in Sessions : s \notin Gone => outq'[s] = outq[s] /\ up'[s] = up[s],
           \A c \in Cmds : Unanswered(c)
    PROVE  OnceInv'
<1> USE DEF handlerVars, Unanswered
<1>1. \A s \in Sessions : \A j \in DOMAIN outq'[s] : s \notin Gone
  OBVIOUS
<1>2. \A s \in Sessions : \A j \in DOMAIN up'[s] : s \notin Gone
  OBVIOUS
<1>3. QueuedOnce'
  BY <1>1 DEF OnceInv, QueuedOnce
<1>4. QueuedUntaken'
  BY <1>1 DEF OnceInv, QueuedUntaken
<1>5. AckedTrue'
  BY <1>2 DEF OnceInv, AckedTrue, Truthful
<1>6. HandledOnce'
  BY DEF OnceInv, HandledOnce
<1>7. AnswersTrue'
  BY DEF OnceInv, AnswersTrue
<1> QED
  BY <1>3, <1>4, <1>5, <1>6, <1>7 DEF OnceInv

LEMMA StillOnce ==
    ASSUME OnceInv, UNCHANGED <<outq, up>>, UNCHANGED handlerVars,
           \A c \in Cmds : Unanswered(c)
    PROVE  OnceInv'
<1>1. /\ \A s \in Sessions : s \in {} => outq'[s] = <<>> /\ up'[s] = <<>>
      /\ \A s \in Sessions : s \notin {} => outq'[s] = outq[s] /\ up'[s] = up[s]
  OBVIOUS
<1>2. {} \in SUBSET Sessions
  OBVIOUS
<1> QED
  BY <1>1, <1>2, CutOnce

LEMMA EndOnce ==
    ASSUME SessionInv, OnceInv, NEW s \in Sessions, EndSession(s)
    PROVE  OnceInv'
<1>1. /\ up' = [up EXCEPT ![s] = <<>>] /\ outq' = [outq EXCEPT ![s] = <<>>]
      /\ up \in [Sessions -> Seq(UpMsgs)] /\ outq \in [Sessions -> Seq(DownMsgs)]
      /\ UNCHANGED handlerVars
  BY DEF SessionInv, TypeOK, ChannelTypes, EndSession, TearDown
<1>2. \A c \in Cmds : Unanswered(c)
  BY DEF EndSession, TearDown, Ended, Unanswered
<1>3. {s} \in SUBSET Sessions
  OBVIOUS
<1>4. /\ \A t \in Sessions : t \in {s} => outq'[t] = <<>> /\ up'[t] = <<>>
      /\ \A t \in Sessions : t \notin {s} => outq'[t] = outq[t] /\ up'[t] = up[t]
  BY <1>1
<1> QED
  BY <1>1, <1>2, <1>3, <1>4, CutOnce

LEMMA RestartOnce ==
    ASSUME SessionInv, OnceInv, HubRestart
    PROVE  OnceInv'
<1>1. /\ up' = [s \in Sessions |-> <<>>] /\ outq' = [s \in Sessions |-> <<>>]
      /\ UNCHANGED handlerVars
  BY DEF HubRestart
<1>2. \A c \in Cmds : Unanswered(c)
  BY DEF HubRestart, Ended, Unanswered
<1>3. /\ \A s \in Sessions : s \in Sessions => outq'[s] = <<>> /\ up'[s] = <<>>
      /\ \A s \in Sessions : s \notin Sessions => outq'[s] = outq[s] /\ up'[s] = up[s]
  BY <1>1
<1>4. Sessions \in SUBSET Sessions
  OBVIOUS
<1> QED
  BY <1>1, <1>2, <1>3, <1>4, CutOnce

LEMMA TimeoutOnce ==
    ASSUME SessionInv, OnceInv, NEW c \in Cmds, Timeout(c)
    PROVE  OnceInv'
<1>1. /\ up' = up /\ outq' = outq /\ UNCHANGED handlerVars
      /\ cmd \in [Cmds -> CmdRecord]
  BY DEF SessionInv, TypeOK, RequestTypes, Timeout, agentVars
<1>2. \A e \in Cmds : Unanswered(e)
  BY <1>1 DEF Timeout, Ended, Unanswered
<1> QED
  BY <1>1, <1>2, StillOnce

(* A new request joins one queue, in which, as in all others, it is not yet. *)
LEMMA OfferedOnce ==
    ASSUME SessionInv, OnceInv, NEW c \in Cmds, NEW t \in Sessions, NEW r \in CmdRecord,
           cmd[c].state = "new", r.state = "waiting", cmd' = [cmd EXCEPT ![c] = r],
           outq' = [outq EXCEPT ![t] = Offer(@, [type |-> "command", req |-> c])],
           UNCHANGED <<up, handlerVars>>
    PROVE  OnceInv'
<1>0. /\ outq \in [Sessions -> Seq(DownMsgs)] /\ cmd \in [Cmds -> CmdRecord]
      /\ taken[c] = 0
      /\ taken' = taken /\ accepted' = accepted /\ handling' = handling
  BY DEF SessionInv, TypeOK, ChannelTypes, RequestTypes, OnceInv, AnswersTrue, handlerVars
<1> DEFINE m == [type |-> "command", req |-> c]
<1> DEFINE n == Len(Offer(outq[t], m))
<1>1. m \in DownMsgs /\ Is(m, c) /\ \A e \in Cmds : Is(m, e) => e = c
  BY DownMsgFacts DEF Is
<1> HIDE DEF m
<1>2. outq[t] \in Seq(DownMsgs) /\ outq'[t] = Offer(outq[t], m)
  BY <1>0 DEF m
<1>3. PICK k \in Nat : \A j \in DOMAIN Offer(outq[t], m) :
         \/ j = Len(Offer(outq[t], m)) /\ Offer(outq[t], m)[j] = m
         \/ j + k \in DOMAIN outq[t] /\ Offer(outq[t], m)[j] = outq[t][j + k]
  <2>1. outq[t] \in Seq(DownMsgs)
    BY <1>2
  <2>2. OfferedLast(outq[t], m)
    BY <1>1, <2>1, OfferFacts
  <2> QED
    BY <2>2 DEF OfferedLast
<1>4. \A j \in DOMAIN outq'[t] : \/ j = n /\ outq'[t][j] = m
                                 \/ j + k \in DOMAIN outq[t] /\ outq'[t][j] = outq[t][j + k]
  BY <1>2, <1>3
<1>5. \A s \in Sessions : s # t => outq'[s] = outq[s]
  BY <1>0
<1>6. \A s \in Sessions : DOMAIN outq'[s] \subseteq Nat
  <2>1. Offer(outq[t], m) \in Seq(DownMsgs)
    BY <1>1, <1>2, OfferType, Zenon
  <2>2. \A s \in Sessions : outq'[s] \in Seq(DownMsgs)
    BY <1>0, <1>2, <1>5, <2>1
  <2> QED
    BY <2>2
<1> HIDE DEF n
<1>7. \A s \in Sessions : \A i \in DOMAIN outq[s] : ~ Is(outq[s][i], c)
  BY DEF OnceInv, QueuedUntaken
<1>8. \A e \in Cmds : \A s \in Sessions : \A i \in DOMAIN outq'[s] :
         Is(outq'[s][i], e) =>
            \/ e = c /\ s = t /\ i = n
            \/ e # c /\ s = t /\ i + k \in DOMAIN outq[t] /\ Is(outq[t][i + k], e)
            \/ e # c /\ s # t /\ i \in DOMAIN outq[s] /\ Is(outq[s][i], e)
  BY <1>1, <1>4, <1>5, <1>7
<1>9. QueuedOnce'
  <2> SUFFICES ASSUME NEW e \in Cmds, NEW s \in Sessions, NEW u \in Sessions,
                      NEW i \in DOMAIN outq'[s], NEW j \in DOMAIN outq'[u],
                      Is(outq'[s][i], e), Is(outq'[u][j], e)
               PROVE  s = u /\ i = j
    BY DEF QueuedOnce
  <2>0. i \in Nat /\ j \in Nat
    BY <1>6
  <2>1. CASE e = c
    BY <1>8, <2>1
  <2>2. CASE e # c
    <3>1. \/ s = t /\ i + k \in DOMAIN outq[t] /\ Is(outq[t][i + k], e)
          \/ s # t /\ i \in DOMAIN outq[s] /\ Is(outq[s][i], e)
      BY <1>8, <2>2
    <3>2. \/ u = t /\ j + k \in DOMAIN outq[t] /\ Is(outq[t][j + k], e)
          \/ u # t /\ j \in DOMAIN outq[u] /\ Is(outq[u][j], e)
      BY <1>8, <2>2
    <3>3. \/ s = t /\ u = t /\ i + k = j + k
          \/ s = u /\ i = j
      BY <3>1, <3>2 DEF OnceInv, QueuedOnce
    <3> QED
      BY <2>0, <3>3
  <2> QED
    BY <2>1, <2>2
<1>10. \A e \in Cmds : /\ e # c => cmd'[e] = cmd[e]
                       /\ e = c => cmd'[e].state = "waiting"
  BY <1>0
<1>11. QueuedUntaken'
  BY <1>0, <1>8, <1>10 DEF OnceInv, QueuedUntaken
<1>12. AckedTrue' /\ HandledOnce' /\ AnswersTrue'
  BY <1>0, <1>10 DEF OnceInv, AckedTrue, Truthful, HandledOnce, AnswersTrue
<1> QED
  BY <1>9, <1>11, <1>12 DEF OnceInv

LEMMA RequestOnce ==
    ASSUME SessionInv, OnceInv, NEW c \in Cmds, NEW s \in Sessions \cup {None}, Request(c, s)
    PROVE  OnceInv'
<1>0. cmd \in [Cmds -> CmdRecord] /\ up' = up /\ UNCHANGED handlerVars /\ cmd[c].state = "new"
  BY DEF SessionInv, TypeOK, RequestTypes, Request, agentVars
<1>1. CASE s = None
  <2>1. outq' = outq /\ cmd' = [cmd EXCEPT ![c] = Ended("no_owner")]
    BY <1>1 DEF Request
  <2>2. \A e \in Cmds : Unanswered(e)
    BY <1>0, <2>1 DEF Unanswered, Ended
  <2> QED
    BY <1>0, <2>1, <2>2, StillOnce
<1>2. CASE s # None
  <2>1. [state |-> "waiting", sess |-> s] \in CmdRecord
    BY <1>2 DEF CmdRecord
  <2> QED
    BY <1>0, <1>2, <2>1, OfferedOnce DEF Request
<1> QED
  BY <1>1, <1>2

LEMMA StepOnce == SessionInv /\ OnceInv /\ [Next]_vars => OnceInv'
<1> SUFFICES ASSUME SessionInv, OnceInv, [Next]_vars PROVE OnceInv'
  OBVIOUS
<1>1. CASE \E d \in Devices : Announce(d) \/ Retire(d)
  <2>1. PICK d \in Devices : Announce(d) \/ Retire(d)
    BY <1>1
  <2>2. Owner[d] \in Agents /\ UNCHANGED cmdVars
    BY <2>1, SessionsAssumption DEF Announce, Retire
  <2>3. /\ [type |-> "announce", dev |-> d] \in UpMsgs
        /\ [type |-> "retire", dev |-> d] \in UpMsgs
    BY UpMsgFacts
  <2> QED
    BY <2>1, <2>2, <2>3, SaidOnce DEF Announce, Retire
<1>2. CASE \E a \in Agents, s \in Sessions : Connect(a, s)
  BY <1>2, ConnectOnce
<1>3. CASE \E s \in Sessions : Break(s)
  BY <1>3, QuietOnce DEF Break
<1>4. CASE \E s \in Sessions : HandleAnnounce(s) \/ HandleRetire(s)
  BY <1>4, ReadOnce DEF HandleAnnounce, HandleRetire, Reading
<1>5. CASE \E s \in Sessions : HandleHello(s) \/ HandleAck(s)
  BY <1>5, HelloOnce, AckOnce
<1>6. CASE (\E s \in Sessions : EndSession(s)) \/ HubRestart
  BY <1>6, EndOnce, RestartOnce
<1>7. CASE \E a \in Agents : AgentNotices(a)
  BY <1>7, QuietOnce DEF AgentNotices
<1>8. CASE \E a \in Agents : AgentReceive(a)
  BY <1>8, ReceiveOnce
<1>9. CASE \E c \in Cmds : \/ \E d \in Devices : SendCommand(c, d)
                           \/ \E a \in Agents : AddDevice(c, a)
                           \/ Timeout(c)
  BY <1>9, SendStep, RequestOnce, TimeoutOnce
<1>11. CASE \E a \in Agents, ok \in BOOLEAN : AgentAnswers(a, ok)
  BY <1>11, AnswersOnce
<1>10. CASE UNCHANGED vars
  BY <1>10, QuietOnce DEF vars, agentVars, cmdVars, handlerVars
<1> QED
  BY <1>1, <1>2, <1>3, <1>4, <1>5, <1>6, <1>7, <1>8, <1>9, <1>10, <1>11 DEF Next, HubReads

LEMMA InitOnce == Init => OnceInv
<1> SUFFICES ASSUME Init PROVE OnceInv
  OBVIOUS
<1>1. QueuedOnce /\ QueuedUntaken /\ AckedTrue
  BY DEF Init, QueuedOnce, QueuedUntaken, AckedTrue
<1>2. HandledOnce /\ AnswersTrue
  BY SessionsAssumption DEF Init, HandledOnce, AnswersTrue
<1> QED
  BY <1>1, <1>2 DEF OnceInv

(* What a viewer is told of its request is true: "ok" that a handler of the   *)
(* agent accepted it, "refused" that one did not, "no_owner" that none was    *)
(* asked; and none is asked twice, however sessions break, overflow, overlap. *)
THEOREM OkIsTrue == Spec => []AnswersTrue
<1>1. OnceInv => AnswersTrue
  BY DEF OnceInv
<1> QED
  BY <1>1, InitSessionInv, StepSessionInv, InitOnce, StepOnce, PTL DEF Spec

----------------------------------------------------------------------------
(* What the end of a session may not touch.                                 *)

(* The add-device route of an agent goes only with the session it leads to:  *)
(* the late end of a replaced session leaves the newer route alone.          *)
THEOREM RouteOfNewer == Spec => NewerSessionKept
<1>1. ASSUME SessionInv, [Next]_vars, NEW a \in Agents,
             agentConn[a] # None, agentConn'[a] = None
      PROVE  agentConn[a] \notin hubUp'
  <2>0. agentConn \in [Agents -> Sessions \cup {None}] /\ None \notin Sessions
    BY <1>1, SessionsAssumption DEF SessionInv, TypeOK, SessionTypes
  <2>1. agentConn' # agentConn
    BY <1>1
  <2>2. \/ \E s \in Sessions : HandleHello(s) \/ EndSession(s)
        \/ HubRestart
    BY <1>1, <2>1 DEF Next, HubReads, Announce, Retire, Connect, Dial, Break,
       HandleAnnounce, HandleRetire, HandleAck, AgentNotices, AgentReceive, TakeNext,
       AgentAnswers, SendCommand, AddDevice, Request, Timeout, hubVars, vars
  <2>3. ASSUME NEW s \in Sessions, HandleHello(s) PROVE FALSE
    BY <1>1, <2>0, <2>3 DEF HandleHello
  <2>4. ASSUME NEW s \in Sessions, EndSession(s)
        PROVE  agentConn[a] = s /\ s \notin hubUp'
    <3>1. /\ hubUp' = hubUp \ {s}
          /\ agentConn' = IF agentConn[agentOf[s]] = s
                          THEN [agentConn EXCEPT ![agentOf[s]] = None] ELSE agentConn
      BY <2>4 DEF EndSession, TearDown, IsConn
    <3> QED
      BY <1>1, <2>0, <3>1
  <2> QED
    BY <2>2, <2>3, <2>4 DEF HubRestart
<1>2. SessionInv /\ [Next]_vars =>
        [\A a \in Agents : agentConn[a] # None /\ agentConn'[a] = None
            => agentConn[a] \notin hubUp']_vars
  BY <1>1
<1> QED
  BY <1>2, InitSessionInv, StepSessionInv, PTL DEF Spec, NewerSessionKept

(* A request fails with "disconnected" only at the end of the very session   *)
(* that it was sent down.                                                    *)
THEOREM FailsWithItsSession == Spec => FailsOnlyWithItsSession
<1>1. ASSUME SessionInv, [Next]_vars, NEW c \in Cmds,
             cmd[c].state = "waiting", cmd'[c].state = "disconnected"
      PROVE  cmd[c].sess \in hubUp \ hubUp'
  <2>0. cmd \in [Cmds -> CmdRecord]
    BY <1>1 DEF SessionInv, TypeOK, RequestTypes
  <2>1. cmd' # cmd
    BY <1>1
  <2>2. \/ \E s \in Sessions : HandleAck(s) \/ EndSession(s)
        \/ HubRestart
        \/ \E e \in Cmds : \/ \E d \in Devices : SendCommand(e, d)
                           \/ \E a \in Agents : AddDevice(e, a)
                           \/ Timeout(e)
    BY <1>1, <2>1 DEF Next, HubReads, Announce, Retire, Connect, Dial, Break,
       HandleAnnounce, HandleRetire, HandleHello, AgentNotices, AgentReceive, TakeNext,
       AgentAnswers, cmdVars, handlerVars, vars
  <2>3. ASSUME NEW s \in Sessions, HandleAck(s) PROVE FALSE
    BY <1>1, <2>0, <2>3 DEF HandleAck, Ended
  <2>4. ASSUME NEW s \in Sessions, EndSession(s)
        PROVE  cmd[c].sess = s /\ s \in hubUp /\ s \notin hubUp'
    BY <1>1, <2>0, <2>4 DEF EndSession, TearDown, WaitingOn
  <2>5. ASSUME HubRestart PROVE FALSE
    <3>1. cmd'[c].state = "hub_gone"
      BY <1>1, <2>5 DEF HubRestart, Ended
    <3> QED
      BY <1>1, <3>1
  <2>6. ASSUME NEW e \in Cmds, NEW s \in Sessions \cup {None}, Request(e, s) PROVE FALSE
    BY <1>1, <2>0, <2>6 DEF Request, Ended
  <2>7. ASSUME NEW e \in Cmds, \/ \E d \in Devices : SendCommand(e, d)
                               \/ \E a \in Agents : AddDevice(e, a)
        PROVE  FALSE
    BY <1>1, <2>6, <2>7, SendStep
  <2>8. ASSUME NEW e \in Cmds, Timeout(e) PROVE FALSE
    BY <1>1, <2>0, <2>8 DEF Timeout, Ended
  <2> QED
    BY <2>2, <2>3, <2>4, <2>5, <2>7, <2>8
<1>2. SessionInv /\ [Next]_vars =>
        [\A c \in Cmds : cmd[c].state = "waiting" /\ cmd'[c].state = "disconnected"
            => cmd[c].sess \in hubUp \ hubUp']_vars
  BY <1>1
<1> QED
  BY <1>2, InitSessionInv, StepSessionInv, PTL DEF Spec, FailsOnlyWithItsSession

----------------------------------------------------------------------------
(* The catalog follows what an agent publishes.                             *)

About(m, d) == m.type \in {"announce", "retire"} /\ m.dev = d

(* Once the messages of q have been handled, device d is listed exactly if   *)
(* it is in P: the last message about it says so, or, if there is none, it   *)
(* is in the catalog C already.                                              *)
Leads(q, d, P, C) ==
    \/ \E i \in DOMAIN q : /\ About(q[i], d)
                           /\ \A j \in DOMAIN q : j > i => ~About(q[j], d)
                           /\ q[i].type = "announce" <=> d \in P
    \/ /\ \A i \in DOMAIN q : ~About(q[i], d)
       /\ d \in C <=> d \in P

LEMMA LeadsTail ==
    ASSUME NEW S, NEW q \in Seq(S), q # <<>>, NEW d, NEW P, NEW C, NEW D, Leads(q, d, P, C),
           \/ ~About(Head(q), d) /\ (d \in C <=> d \in D)
           \/ About(Head(q), d) /\ (Head(q).type = "announce" <=> d \in D)
    PROVE  Leads(Tail(q), d, P, D)
<1>1. /\ Head(q) = q[1] /\ 1 \in DOMAIN q /\ DOMAIN q \subseteq Nat
      /\ \A j \in DOMAIN Tail(q) : j + 1 \in DOMAIN q /\ Tail(q)[j] = q[j + 1] /\ j \in Nat
      /\ \A j \in DOMAIN q : j = 1 \/ (j - 1 \in DOMAIN Tail(q) /\ Tail(q)[j - 1] = q[j])
  OBVIOUS
<1>2. ASSUME NEW i \in DOMAIN q, About(q[i], d),
             \A j \in DOMAIN q : j > i => ~About(q[j], d),
             q[i].type = "announce" <=> d \in P
      PROVE  Leads(Tail(q), d, P, D)
  <2>1. CASE i = 1
    <3>1. \A j \in DOMAIN Tail(q) : ~About(Tail(q)[j], d)
      <4>1. \A j \in DOMAIN Tail(q) : j # 0
        OBVIOUS
      <4> QED
        BY <1>1, <1>2, <2>1, <4>1
    <3>2. d \in D <=> d \in P
      BY <1>1, <1>2, <2>1
    <3> QED
      BY <3>1, <3>2 DEF Leads
  <2>2. CASE i # 1
    <3>1. i - 1 \in DOMAIN Tail(q) /\ Tail(q)[i - 1] = q[i]
      BY <1>1, <2>2
    <3>2. ASSUME NEW j \in DOMAIN Tail(q), j > i - 1 PROVE ~About(Tail(q)[j], d)
      <4>1. j + 1 > i
        BY <1>1, <3>2
      <4> QED
        BY <1>1, <1>2, <4>1
    <3> QED
      BY <1>2, <3>1, <3>2 DEF Leads
  <2> QED
    BY <2>1, <2>2
<1>3. ASSUME \A i \in DOMAIN q : ~About(q[i], d), d \in C <=> d \in P
      PROVE  Leads(Tail(q), d, P, D)
  BY <1>1, <1>3 DEF Leads
<1> QED
  BY <1>2, <1>3 DEF Leads

LEMMA LeadsAppend ==
    ASSUME NEW S, NEW q \in Seq(S), NEW m, NEW d, NEW P, NEW C, NEW Q,
           \/ ~About(m, d) /\ (d \in P <=> d \in Q) /\ Leads(q, d, P, C)
           \/ About(m, d) /\ (m.type = "announce" <=> d \in Q)
    PROVE  Leads(Append(q, m), d, Q, C)
<1> DEFINE r == Append(q, m)
           n == Len(q) + 1
<1>1. /\ n \in DOMAIN r /\ r[n] = m /\ n \in Nat
      /\ \A j \in DOMAIN q : j \in DOMAIN r /\ r[j] = q[j] /\ j < n
      /\ \A j \in DOMAIN r : j = n \/ j \in DOMAIN q
      /\ \A j \in DOMAIN r : ~(j > n)
  OBVIOUS
<1> HIDE DEF r, n
<1>2. CASE About(m, d)
  BY <1>1, <1>2 DEF Leads, r
<1>3. CASE ~About(m, d)
  <2>1. Leads(q, d, P, C) /\ (d \in P <=> d \in Q)
    BY <1>3
  <2>2. Leads(r, d, Q, C)
    BY <1>1, <1>3, <2>1 DEF Leads
  <2> QED
    BY <2>2 DEF r
<1> QED
  BY <1>2, <1>3

(* A session carries messages about its agent's devices only, and a session  *)
(* that is used was dialled.                                                 *)
OwnDevices ==
    /\ \A a \in Agents : /\ current[a] # None => agentOf[current[a]] = a
                         /\ \A d \in published[a] : Owner[d] = a
    /\ \A s \in Sessions : \A d \in mine[s] : Owner[d] = agentOf[s]
    /\ \A s \in Sessions : \A i \in DOMAIN up[s] : \A d \in Devices :
          About(up[s][i], d) => Owner[d] = agentOf[s]

(* An agent that never overlapped has one session at the hub at most, and    *)
(* what is on its way there leads the catalog to what it publishes.          *)
InStep ==
    \A a \in Agents : a \notin overlap =>
        /\ \A s, t \in hubUp : agentOf[s] = a /\ agentOf[t] = a => s = t
        /\ current[a] \in hubUp =>
              \A d \in Devices :
                 Owner[d] = a => Leads(up[current[a]], d, published[a], catalog)

HealInv == OwnDevices /\ InStep

(* What is sent up is appended to the queue of the sender's session. *)
LEMMA SentUp ==
    ASSUME TypeOK, NEW a \in Agents, NEW m \in UpMsgs, up' = SendUp(a, m)
    PROVE  \A s \in Sessions :
              /\ up[s] \in Seq(UpMsgs)
              /\ s = current[a] => up'[s] = Append(up[s], m)
              /\ s # current[a] => up'[s] = up[s]
  BY SessionsAssumption DEF TypeOK, ChannelTypes, SessionTypes, SendUp

LEMMA AppendFacts ==
    ASSUME NEW S, NEW q \in Seq(S), NEW m
    PROVE  \A j \in DOMAIN Append(q, m) :
              Append(q, m)[j] = m \/ (j \in DOMAIN q /\ Append(q, m)[j] = q[j])
  OBVIOUS

(* A change of the device set, said on the session if there is one. *)
LEMMA ChangeHeal ==
    ASSUME SessionInv, HealInv, NEW d \in Devices, Announce(d) \/ Retire(d)
    PROVE  HealInv'
<1> DEFINE a == Owner[d]
<1>0. /\ a \in Agents /\ TypeOK /\ published \in [Agents -> SUBSET Devices]
      /\ current \in [Agents -> Sessions \cup {None}]
      /\ UNCHANGED <<current, agentOf, overlap, hubUp, mine, catalog>>
  BY SessionsAssumption DEF SessionInv, TypeOK, SessionTypes, Announce, Retire, hubVars
<1>1. PICK m \in UpMsgs :
         /\ up' = SendUp(a, m) /\ About(m, d) /\ \A e \in Devices : About(m, e) => e = d
         /\ m.type = "announce" <=> d \in published'[a]
         /\ \A e \in Devices, b \in Agents :
               e # d \/ b # a => (e \in published[b] <=> e \in published'[b])
  <2>1. CASE Announce(d)
    <3> DEFINE m == [type |-> "announce", dev |-> d]
    <3>1. m \in UpMsgs /\ About(m, d) /\ \A e \in Devices : About(m, e) => e = d
      BY UpMsgFacts DEF About
    <3>2. up' = SendUp(a, m) /\ published' = [published EXCEPT ![a] = @ \cup {d}]
      BY <2>1 DEF Announce
    <3> QED
      BY <1>0, <3>1, <3>2
  <2>2. CASE Retire(d)
    <3> DEFINE m == [type |-> "retire", dev |-> d]
    <3>1. m \in UpMsgs /\ About(m, d) /\ \A e \in Devices : About(m, e) => e = d
      BY UpMsgFacts DEF About
    <3>2. up' = SendUp(a, m) /\ published' = [published EXCEPT ![a] = @ \ {d}]
      BY <2>2 DEF Retire
    <3> QED
      BY <1>0, <3>1, <3>2
  <2> QED
    BY <2>1, <2>2
<1> HIDE DEF a
<1>2. \A s \in Sessions : /\ up[s] \in Seq(UpMsgs)
                          /\ s = current[a] => up'[s] = Append(up[s], m)
                          /\ s # current[a] => up'[s] = up[s]
  BY <1>0, <1>1, SentUp
<1>3. OwnDevices'
  <2>1. ASSUME NEW s \in Sessions, NEW i \in DOMAIN up'[s], NEW e \in Devices,
               About(up'[s][i], e)
        PROVE  Owner[e] = agentOf[s]
    <3>1. CASE s # current[a]
      BY <1>2, <2>1, <3>1 DEF HealInv, OwnDevices
    <3>2. CASE s = current[a]
      <4>1. agentOf[s] = a
        BY <1>0, <3>2, SessionsAssumption DEF HealInv, OwnDevices
      <4>2. up'[s][i] = m \/ (i \in DOMAIN up[s] /\ up'[s][i] = up[s][i])
        BY <1>2, <3>2, AppendFacts
      <4> QED
        BY <1>1, <2>1, <4>1, <4>2 DEF HealInv, OwnDevices, a
    <3> QED
      BY <3>1, <3>2
  <2>2. ASSUME NEW b \in Agents, NEW e \in published'[b] PROVE Owner[e] = b
    <3>1. published'[b] \subseteq Devices
      BY <1>0, <2>2 DEF Announce, Retire
    <3>2. CASE e = d /\ b = a
      BY <3>2 DEF a
    <3>3. CASE ~(e = d /\ b = a)
      BY <1>1, <2>2, <3>1, <3>3 DEF HealInv, OwnDevices
    <3> QED
      BY <3>2, <3>3
  <2> QED
    BY <1>0, <2>1, <2>2 DEF HealInv, OwnDevices
<1>4. ASSUME NEW b \in Agents, b \notin overlap, current[b] \in hubUp,
             NEW e \in Devices, Owner[e] = b
      PROVE  Leads(up'[current[b]], e, published'[b], catalog)
  <2>0. current[b] \in Sessions /\ Leads(up[current[b]], e, published[b], catalog)
    BY <1>0, <1>4 DEF HealInv, InStep, TypeOK, SessionTypes
  <2>1. CASE b = a
    <3>1. up'[current[b]] = Append(up[current[b]], m) /\ up[current[b]] \in Seq(UpMsgs)
      BY <1>2, <2>0, <2>1
    <3>2. CASE e = d
      BY <1>1, <2>1, <3>1, <3>2, LeadsAppend
    <3>3. CASE e # d
      <4>1. ~About(m, e) /\ (e \in published[b] <=> e \in published'[b])
        BY <1>1, <3>3
      <4> QED
        BY <2>0, <3>1, <4>1, LeadsAppend
    <3> QED
      BY <3>2, <3>3
  <2>2. CASE b # a
    <3>1. current[b] # current[a]
      BY <1>0, <2>0, <2>2, SessionsAssumption DEF HealInv, OwnDevices
    <3>2. up'[current[b]] = up[current[b]]
      BY <1>2, <2>0, <3>1
    <3>3. e \in published[b] <=> e \in published'[b]
      BY <1>1, <2>2
    <3> QED
      BY <2>0, <3>2, <3>3 DEF Leads
  <2> QED
    BY <2>1, <2>2
<1>5. InStep'
  BY <1>0, <1>4 DEF HealInv, InStep
<1> QED
  BY <1>3, <1>5 DEF HealInv

(* The list r is message m and then the list q. *)
Consed(m, q, r) ==
    /\ \A j \in DOMAIN q : j + 1 \in DOMAIN r /\ r[j + 1] = q[j]
    /\ \A j \in DOMAIN r : \/ j = 1 /\ r[j] = m
                           \/ j - 1 \in DOMAIN q /\ r[j] = q[j - 1] /\ j = (j - 1) + 1

LEMMA ConsFacts ==
    ASSUME NEW S, NEW m \in S, NEW q \in Seq(S)
    PROVE  Consed(m, q, <<m>> \o q)
  BY DEF Consed

LEMMA UpToFacts ==
    ASSUME NEW k \in Nat
    PROVE  IsFiniteSet(1..k) /\ Cardinality(1..k) = k
<1>1. 1 \in Int /\ k \in Int
  OBVIOUS
<1>2. IsFiniteSet(1..k) /\ Cardinality(1..k) = (IF 1 > k THEN 0 ELSE k - 1 + 1)
  BY <1>1, FS_Interval
<1>3. (IF 1 > k THEN 0 ELSE k - 1 + 1) = k
  OBVIOUS
<1> QED
  BY <1>2, <1>3

(* A new session announces each device that its agent publishes, once. *)
LEMMA ConnectSays ==
    ASSUME SessionInv, NEW a \in Agents, NEW s \in Sessions, Connect(a, s)
    PROVE  /\ \A t \in Sessions : t # s => up'[t] = up[t]
           /\ \A d \in published[a] : \E i \in DOMAIN up'[s] :
                 /\ About(up'[s][i], d) /\ up'[s][i].type = "announce"
                 /\ \A j \in DOMAIN up'[s] : About(up'[s][j], d) => j = i
           /\ \A d \in Devices : \A j \in DOMAIN up'[s] :
                 About(up'[s][j], d) => d \in published[a]
<1> DEFINE P == published[a]
           n == Cardinality(P)
           h == [type |-> "hello"]
<1>1. P \subseteq Devices /\ IsFiniteSet(P) /\ n \in Nat /\ up \in [Sessions -> Seq(UpMsgs)]
  BY SessionsAssumption, FS_Subset, FS_CardinalityType
     DEF SessionInv, TypeOK, SessionTypes, ChannelTypes
<1> HIDE DEF n
<1>2. PICK order \in [1..n -> P] :
         /\ \A i, j \in DOMAIN order : i # j => order[i] # order[j]
         /\ up' = [up EXCEPT ![s] = <<h>> \o
                      [i \in DOMAIN order |-> [type |-> "announce", dev |-> order[i]]]]
  BY DEF Connect, Dial, n
<1> DEFINE anns == [i \in DOMAIN order |-> [type |-> "announce", dev |-> order[i]]]
<1>3. \A d \in P : \E i \in 1..n : order[i] = d
  <2>1. order \in Injection(1..n, P)
    BY <1>2 DEF Injection, IsInjective
  <2>2. IsFiniteSet(1..n) /\ Cardinality(1..n) = n
    BY <1>1, UpToFacts
  <2>3. order \in Surjection(1..n, P)
    BY <1>1, <2>1, <2>2, FS_Injection DEF n
  <2> QED
    BY <2>3 DEF Surjection
<1>4. /\ anns \in [1..n -> UpMsgs]
      /\ \A i \in 1..n : anns[i] = [type |-> "announce", dev |-> order[i]]
  BY <1>1, <1>2, UpMsgFacts
<1>5. \A i \in 1..n : /\ anns[i].type = "announce" /\ order[i] \in P
                      /\ \A d : About(anns[i], d) <=> d = order[i]
  BY <1>2, <1>4 DEF About
<1>6. \A i, j \in 1..n : order[i] = order[j] => i = j
  BY <1>2
<1> HIDE DEF anns, P
<1>7. anns \in Seq(UpMsgs) /\ DOMAIN anns = 1..n
  BY <1>1, <1>4, ListIsSeq
<1> DEFINE r == <<h>> \o anns
<1>8. h \in UpMsgs /\ \A d : ~About(h, d)
  BY UpMsgFacts DEF About
<1> HIDE DEF h
<1>9. /\ \A j \in 1..n : j + 1 \in DOMAIN r /\ r[j + 1] = anns[j]
      /\ \A j \in DOMAIN r : \/ r[j] = h
                             \/ j - 1 \in 1..n /\ r[j] = anns[j - 1] /\ j = (j - 1) + 1
  <2>1. Consed(h, anns, r)
    BY <1>7, <1>8, ConsFacts
  <2> HIDE DEF r
  <2> QED
    BY <1>7, <2>1 DEF Consed
<1>10. up'[s] = r /\ \A t \in Sessions : t # s => up'[t] = up[t]
  BY <1>1, <1>2 DEF anns
<1> HIDE DEF r
<1>11. ASSUME NEW d \in P
       PROVE  \E i \in DOMAIN r : /\ About(r[i], d) /\ r[i].type = "announce"
                                  /\ \A j \in DOMAIN r : About(r[j], d) => j = i
  <2>1. PICK i \in 1..n : order[i] = d
    BY <1>3
  <2>2. ASSUME NEW j \in DOMAIN r, About(r[j], d) PROVE j = i + 1
    <3>1. j - 1 \in 1..n /\ r[j] = anns[j - 1] /\ j = (j - 1) + 1
      BY <1>8, <1>9, <2>2
    <3>2. j - 1 = i
      BY <1>5, <1>6, <2>1, <2>2, <3>1
    <3> QED
      BY <3>1, <3>2
  <2>3. i + 1 \in DOMAIN r /\ About(r[i + 1], d) /\ r[i + 1].type = "announce"
    BY <1>5, <1>9, <2>1
  <2> QED
    BY <2>2, <2>3
<1>12. ASSUME NEW d \in Devices, NEW j \in DOMAIN r, About(r[j], d) PROVE d \in P
  BY <1>5, <1>8, <1>9, <1>12, ZenonT(30)
<1> QED
  BY <1>10, <1>11, <1>12 DEF P

(* Steps that add no session, no device and no agent's name to what is under *)
(* way, and leave in step what was.                                          *)
LEMMA OwnKept ==
    ASSUME SessionInv, HealInv, UNCHANGED <<published, agentOf>>,
           \A b \in Agents : current'[b] \in {current[b], None},
           \A s \in Sessions : \A i \in DOMAIN up'[s] : \A d \in Devices :
              About(up'[s][i], d) => \E j \in DOMAIN up[s] : About(up[s][j], d),
           \A s \in Sessions : \A d \in mine'[s] : d \in mine[s] \/ Owner[d] = agentOf[s]
    PROVE  OwnDevices'
  BY DEF HealInv, OwnDevices

LEMMA StepKept ==
    ASSUME SessionInv, HealInv, UNCHANGED <<published, agentOf, overlap>>,
           hubUp' \subseteq hubUp,
           \A b \in Agents : current'[b] \in {current[b], None},
           \A b \in Agents, d \in Devices :
              /\ b \notin overlap /\ current[b] \in hubUp' /\ Owner[d] = b
              /\ Leads(up[current[b]], d, published[b], catalog)
              => Leads(up'[current[b]], d, published[b], catalog')
    PROVE  InStep'
<1>1. None \notin hubUp
  BY SessionsAssumption DEF SessionInv, TypeOK, SessionTypes
<1>2. ASSUME NEW b \in Agents, b \notin overlap, current'[b] \in hubUp',
             NEW d \in Devices, Owner[d] = b
      PROVE  Leads(up'[current'[b]], d, published'[b], catalog')
  <2>1. current'[b] = current[b] /\ published'[b] = published[b]
    BY <1>1, <1>2
  <2>2. Leads(up[current[b]], d, published[b], catalog)
    BY <1>2, <2>1 DEF HealInv, InStep
  <2>3. Leads(up'[current[b]], d, published[b], catalog')
    BY <1>2, <2>1, <2>2
  <2> QED
    BY <2>1, <2>3
<1>3. \A b \in Agents : b \notin overlap' =>
         \A s, t \in hubUp' : agentOf'[s] = b /\ agentOf'[t] = b => s = t
  BY DEF HealInv, InStep
<1> QED
  BY <1>2, <1>3 DEF InStep

LEMMA ConnectHeal ==
    ASSUME SessionInv, HealInv, NEW a \in Agents, NEW s \in Sessions, Connect(a, s)
    PROVE  HealInv'
<1>0. /\ current \in [Agents -> Sessions \cup {None}] /\ agentOf \in [Sessions -> Agents \cup {None}]
      /\ hubUp \subseteq Sessions /\ catalog \subseteq Devices /\ None \notin Agents \cup Sessions
      /\ Owner \in [Devices -> Agents] /\ published \in [Agents -> SUBSET Devices]
      /\ mine \in [Sessions -> SUBSET Devices]
  BY SessionsAssumption DEF SessionInv, TypeOK, SessionTypes
<1>1. /\ current[a] = None /\ agentOf[s] = None
      /\ current' = [current EXCEPT ![a] = s] /\ agentOf' = [agentOf EXCEPT ![s] = a]
      /\ hubUp' = hubUp \cup {s}
      /\ overlap' = IF \E t \in hubUp : agentOf[t] = a THEN overlap \cup {a} ELSE overlap
      /\ UNCHANGED <<published, mine, catalog>>
  BY DEF Connect, Dial
<1>2. s \notin hubUp /\ mine[s] = {} /\ \A b \in Agents : current[b] # s
  BY <1>0, <1>1 DEF SessionInv, Dialled, HealInv, OwnDevices
<1>3. OwnDevices'
  <2>1. \A b \in Agents : /\ current'[b] # None => agentOf'[current'[b]] = b
                          /\ \A d \in published'[b] : Owner[d] = b
    BY <1>0, <1>1, <1>2 DEF HealInv, OwnDevices
  <2>2. \A t \in Sessions : \A d \in mine'[t] : Owner[d] = agentOf'[t]
    BY <1>0, <1>1, <1>2 DEF HealInv, OwnDevices
  <2>3. ASSUME NEW t \in Sessions, NEW i \in DOMAIN up'[t], NEW d \in Devices, About(up'[t][i], d)
        PROVE  Owner[d] = agentOf'[t]
    <3>1. CASE t = s
      BY <1>0, <1>1, <2>3, <3>1, ConnectSays DEF HealInv, OwnDevices
    <3>2. CASE t # s
      <4>1. up'[t] = up[t] /\ agentOf'[t] = agentOf[t]
        BY <1>0, <1>1, <3>2, ConnectSays
      <4> QED
        BY <2>3, <4>1 DEF HealInv, OwnDevices
    <3> QED
      BY <3>1, <3>2
  <2> QED
    BY <2>1, <2>2, <2>3 DEF OwnDevices
<1>4. ASSUME NEW b \in Agents, b \notin overlap'
      PROVE  \A t, u \in hubUp' : agentOf'[t] = b /\ agentOf'[u] = b => t = u
  <2>1. b \notin overlap /\ (b = a => \A t \in hubUp : agentOf[t] # a)
    BY <1>1, <1>4
  <2>2. \A t, u \in hubUp : agentOf[t] = b /\ agentOf[u] = b => t = u
    BY <2>1 DEF HealInv, InStep
  <2>3. agentOf'[s] = a /\ \A t \in hubUp : agentOf'[t] = agentOf[t]
    BY <1>0, <1>1, <1>2
  <2> QED
    BY <1>1, <2>1, <2>2, <2>3
<1>5. ASSUME NEW b \in Agents, b \notin overlap', current'[b] \in hubUp',
             NEW d \in Devices, Owner[d] = b
      PROVE  Leads(up'[current'[b]], d, published'[b], catalog')
  <2>1. CASE b = a
    <3>1. current'[b] = s /\ published'[b] = published[a] /\ catalog' = catalog
      BY <1>0, <1>1, <2>1
    <3>2. CASE d \in published[a]
      <4>1. PICK i \in DOMAIN up'[s] :
               /\ About(up'[s][i], d) /\ up'[s][i].type = "announce"
               /\ \A j \in DOMAIN up'[s] : About(up'[s][j], d) => j = i
        BY <3>2, ConnectSays
      <4>2. \A j \in DOMAIN up'[s] : j > i => ~About(up'[s][j], d)
        <5>1. up'[s] \in Seq(UpMsgs)
          BY ConnectStep DEF SessionInv, TypeOK, ChannelTypes
        <5>2. i \in Nat /\ ~(i > i)
          BY <5>1
        <5> QED
          BY <4>1, <5>2
      <4> QED
        BY <3>1, <3>2, <4>1, <4>2 DEF Leads
    <3>3. CASE d \notin published[a]
      <4>1. \A j \in DOMAIN up'[s] : ~About(up'[s][j], d)
        BY <3>3, ConnectSays
      <4>2. d \notin catalog
        <5>1. ASSUME d \in catalog PROVE FALSE
          <6>1. route[d] \in hubUp /\ d \in mine[route[d]]
            BY <5>1 DEF SessionInv, RoutesLive
          <6>2. agentOf[route[d]] = a
            BY <1>0, <1>5, <2>1, <6>1 DEF HealInv, OwnDevices
          <6> QED
            BY <1>1, <1>5, <2>1, <6>1, <6>2
        <5> QED
          BY <5>1
      <4> QED
        BY <3>1, <3>3, <4>1, <4>2 DEF Leads
    <3> QED
      BY <3>2, <3>3
  <2>2. CASE b # a
    <3>1. /\ b \notin overlap /\ current'[b] = current[b] /\ published'[b] = published[b]
          /\ catalog' = catalog /\ current[b] # s
      BY <1>0, <1>1, <1>2, <1>5, <2>2
    <3>2. current[b] \in hubUp
      BY <1>1, <1>5, <3>1
    <3>3. up'[current[b]] = up[current[b]]
      BY <1>0, <3>1, <3>2, ConnectSays
    <3>4. Leads(up[current[b]], d, published[b], catalog)
      BY <1>5, <3>1, <3>2 DEF HealInv, InStep
    <3> QED
      BY <3>1, <3>3, <3>4
  <2> QED
    BY <2>1, <2>2
<1>6. InStep'
  BY <1>4, <1>5 DEF InStep
<1> QED
  BY <1>3, <1>6 DEF HealInv

(* Steps that touch neither what is published nor what is on its way.        *)
LEMMA QuietHeal ==
    ASSUME SessionInv, HealInv, hubUp' \subseteq hubUp,
           UNCHANGED <<published, agentOf, overlap, up, mine, catalog>>,
           \A b \in Agents : current'[b] \in {current[b], None}
    PROVE  HealInv'
<1>1. OwnDevices'
  BY OwnKept
<1>2. InStep'
  BY StepKept
<1> QED
  BY <1>1, <1>2 DEF HealInv

LEMMA NoticeHeal ==
    ASSUME SessionInv, HealInv, NEW a \in Agents, AgentNotices(a)
    PROVE  HealInv'
<1>1. current \in [Agents -> Sessions \cup {None}]
  BY DEF SessionInv, TypeOK, SessionTypes
<1>2. \A b \in Agents : current'[b] \in {current[b], None}
  BY <1>1 DEF AgentNotices
<1> QED
  BY <1>2, QuietHeal DEF AgentNotices, hubVars

(* An acknowledgement says nothing about devices. *)
LEMMA AnswersHeal ==
    ASSUME SessionInv, HealInv, NEW a \in Agents, NEW ok \in BOOLEAN, AgentAnswers(a, ok)
    PROVE  HealInv'
<1>0. UNCHANGED <<published, current, agentOf, overlap, hubUp, mine, catalog>>
  BY DEF AgentAnswers, hubVars
<1>1. CASE up' = up
  BY <1>0, <1>1, QuietHeal
<1>2. CASE up' # up
  <2>1. PICK m \in UpMsgs : up' = SendUp(a, m) /\ \A d : ~About(m, d)
    <3>1. handling[a] \in Cmds
      BY DEF SessionInv, TypeOK, RequestTypes, AgentAnswers
    <3>2. [type |-> "ack", req |-> handling[a], ok |-> ok] \in UpMsgs
      BY <3>1, UpMsgFacts
    <3> QED
      BY <3>2 DEF AgentAnswers, About
  <2>2. \A s \in Sessions : /\ up[s] \in Seq(UpMsgs)
                            /\ s = current[a] => up'[s] = Append(up[s], m)
                            /\ s # current[a] => up'[s] = up[s]
    BY <2>1, SentUp DEF SessionInv
  <2>3. ASSUME NEW s \in Sessions, NEW i \in DOMAIN up'[s], NEW d \in Devices, About(up'[s][i], d)
        PROVE  \E j \in DOMAIN up[s] : About(up[s][j], d)
    <3>1. CASE s # current[a]
      BY <2>2, <2>3, <3>1
    <3>2. CASE s = current[a]
      <4>1. up'[s][i] = m \/ (i \in DOMAIN up[s] /\ up'[s][i] = up[s][i])
        BY <2>2, <3>2, AppendFacts
      <4> QED
        BY <2>1, <2>3, <4>1
    <3> QED
      BY <3>1, <3>2
  <2>4. OwnDevices'
    BY <1>0, <2>3, OwnKept
  <2>5. ASSUME NEW s \in Sessions, NEW d \in Devices, NEW P, NEW C, Leads(up[s], d, P, C)
        PROVE  Leads(up'[s], d, P, C)
    <3>1. CASE s # current[a]
      BY <2>2, <2>5, <3>1
    <3>2. CASE s = current[a]
      <4>1. up'[s] = Append(up[s], m) /\ up[s] \in Seq(UpMsgs) /\ ~About(m, d)
        BY <2>1, <2>2, <3>2
      <4>2. Leads(Append(up[s], m), d, P, C)
        BY <2>5, <4>1, LeadsAppend
      <4> QED
        BY <4>1, <4>2
    <3> QED
      BY <3>1, <3>2
  <2>6. hubUp \subseteq Sessions
    BY DEF SessionInv, TypeOK, SessionTypes
  <2>7. InStep'
    BY <1>0, <2>5, <2>6, StepKept
  <2> QED
    BY <2>4, <2>7 DEF HealInv
<1> QED
  BY <1>1, <1>2

(* A message that the hub takes from a session changes the catalog at the    *)
(* device it is about, as it says, and nowhere else.                         *)
LEMMA ReadHeal ==
    ASSUME SessionInv, HealInv, NEW s \in Sessions, HubReads(s)
    PROVE  HealInv'
<1> DEFINE m == Head(up[s])
<1>0. /\ UNCHANGED <<published, current, agentOf, overlap, hubUp>>
      /\ s \in hubUp /\ up[s] \in Seq(UpMsgs) /\ up[s] # <<>>
      /\ up'[s] = Tail(up[s]) /\ \A t \in Sessions : t # s => up'[t] = up[t]
      /\ hubUp \subseteq Sessions
      /\ m \in UpMsgs /\ 1 \in DOMAIN up[s] /\ m = up[s][1]
  BY DEF HubReads, HandleHello, HandleAnnounce, HandleRetire, HandleAck, Reading, Take,
         SessionInv, TypeOK, ChannelTypes, SessionTypes
<1>1. /\ \A d \in Devices : ~About(m, d) => (d \in catalog <=> d \in catalog')
      /\ \A d \in Devices : About(m, d) => (m.type = "announce" <=> d \in catalog')
      /\ \A t \in Sessions : \A d \in mine'[t] :
            d \in mine[t] \/ (t = s /\ d \in Devices /\ About(m, d))
  <2>0. mine \in [Sessions -> SUBSET Devices] /\ (m.type \in {"announce", "retire"} => m.dev \in Devices)
    BY <1>0, UpMsgFacts DEF SessionInv, TypeOK, SessionTypes
  <2>1. CASE HandleHello(s)
    <3>1. m.type = "hello" /\ catalog' = catalog /\ mine' = mine
      BY <2>1 DEF HandleHello, Reading
    <3> QED
      BY <3>1 DEF About
  <2>2. CASE HandleAck(s)
    <3>1. m.type = "ack" /\ catalog' = catalog /\ mine' = mine
      BY <2>2 DEF HandleAck, Reading
    <3> QED
      BY <3>1 DEF About
  <2>3. CASE HandleAnnounce(s)
    <3>1. /\ m.type = "announce" /\ catalog' = catalog \cup {m.dev}
          /\ mine' = [mine EXCEPT ![s] = @ \cup {m.dev}]
      BY <2>3 DEF HandleAnnounce, Reading
    <3> HIDE DEF m
    <3> QED
      BY <2>0, <3>1 DEF About
  <2>4. CASE HandleRetire(s)
    <3>1. /\ m.type = "retire" /\ catalog' = catalog \ {m.dev}
          /\ mine' = [mine EXCEPT ![s] = @ \ {m.dev}]
      BY <2>4 DEF HandleRetire, Reading
    <3> HIDE DEF m
    <3> QED
      BY <2>0, <3>1 DEF About
  <2> QED
    BY <2>1, <2>2, <2>3, <2>4 DEF HubReads
<1>2. \A d \in Devices : About(m, d) => Owner[d] = agentOf[s]
  BY <1>0 DEF HealInv, OwnDevices
<1> HIDE DEF m
<1>3. \A j \in DOMAIN Tail(up[s]) : \E i \in DOMAIN up[s] : up[s][i] = Tail(up[s])[j]
  <2>1. \A j \in DOMAIN Tail(up[s]) : j + 1 \in DOMAIN up[s] /\ Tail(up[s])[j] = up[s][j + 1]
    BY <1>0, TailFacts
  <2> QED
    BY <2>1
<1>4. OwnDevices'
  <2>1. \A t \in Sessions : \A i \in DOMAIN up'[t] : \A d \in Devices :
           About(up'[t][i], d) => \E j \in DOMAIN up[t] : About(up[t][j], d)
    BY <1>0, <1>3
  <2>2. \A t \in Sessions : \A d \in mine'[t] : d \in mine[t] \/ Owner[d] = agentOf[t]
    BY <1>1, <1>2
  <2> QED
    BY <1>0, <2>1, <2>2, OwnKept
<1>5. ASSUME NEW b \in Agents, NEW d \in Devices, b \notin overlap, current[b] \in hubUp,
             Owner[d] = b, Leads(up[current[b]], d, published[b], catalog)
      PROVE  Leads(up'[current[b]], d, published[b], catalog')
  <2>1. CASE current[b] = s
    <3>1. \/ ~About(m, d) /\ (d \in catalog <=> d \in catalog')
          \/ About(m, d) /\ (m.type = "announce" <=> d \in catalog')
      BY <1>1
    <3>2. Leads(Tail(up[s]), d, published[b], catalog')
      BY <1>0, <1>5, <2>1, <3>1, LeadsTail DEF m
    <3> QED
      BY <1>0, <2>1, <3>2
  <2>2. CASE current[b] # s
    <3>1. agentOf[current[b]] = b
      BY <1>0, <1>5, SessionsAssumption DEF HealInv, OwnDevices
    <3>2. agentOf[s] # b
      BY <1>0, <1>5, <2>2, <3>1 DEF HealInv, InStep
    <3>3. d \in catalog <=> d \in catalog'
      BY <1>1, <1>2, <1>5, <3>2
    <3>4. up'[current[b]] = up[current[b]]
      BY <1>0, <1>5, <2>2
    <3> QED
      BY <1>5, <3>3, <3>4 DEF Leads
  <2> QED
    BY <2>1, <2>2
<1>6. InStep'
  BY <1>0, <1>5, StepKept
<1> QED
  BY <1>4, <1>6 DEF HealInv

(* The end of a session retires devices of its own agent only, which either  *)
(* overlapped or has no other session at the hub.                            *)
LEMMA EndHeal ==
    ASSUME SessionInv, HealInv, NEW s \in Sessions, EndSession(s)
    PROVE  HealInv'
<1>0. /\ UNCHANGED <<published, current, agentOf, overlap, mine>>
      /\ s \in hubUp /\ hubUp' = hubUp \ {s} /\ catalog' = catalog \ mine[s]
      /\ up' = [up EXCEPT ![s] = <<>>] /\ up \in [Sessions -> Seq(UpMsgs)]
      /\ hubUp \subseteq Sessions
  BY DEF EndSession, TearDown, SessionInv, TypeOK, ChannelTypes, SessionTypes
<1>1. up'[s] = <<>> /\ \A t \in Sessions : t # s => up'[t] = up[t]
  BY <1>0
<1>2. OwnDevices'
  <2>1. \A t \in Sessions : \A i \in DOMAIN up'[t] : \A d \in Devices :
           About(up'[t][i], d) => \E j \in DOMAIN up[t] : About(up[t][j], d)
    BY <1>1
  <2> QED
    BY <1>0, <2>1, OwnKept
<1>3. ASSUME NEW b \in Agents, NEW d \in Devices, b \notin overlap, current[b] \in hubUp',
             Owner[d] = b, Leads(up[current[b]], d, published[b], catalog)
      PROVE  Leads(up'[current[b]], d, published[b], catalog')
  <2>1. current[b] \in hubUp /\ current[b] # s
    BY <1>0, <1>3
  <2>2. agentOf[current[b]] = b
    BY <1>0, <2>1, SessionsAssumption DEF HealInv, OwnDevices
  <2>3. agentOf[s] # b
    BY <1>0, <1>3, <2>1, <2>2 DEF HealInv, InStep
  <2>4. d \notin mine[s]
    BY <1>0, <1>3, <2>3 DEF HealInv, OwnDevices
  <2>5. (d \in catalog <=> d \in catalog') /\ up'[current[b]] = up[current[b]]
    BY <1>0, <1>1, <2>1, <2>4
  <2> QED
    BY <1>3, <2>5 DEF Leads
<1>4. InStep'
  BY <1>0, <1>3, StepKept
<1> QED
  BY <1>2, <1>4 DEF HealInv

LEMMA RestartHeal == ASSUME SessionInv, HealInv, HubRestart PROVE HealInv'
<1>1. /\ UNCHANGED <<published, current, agentOf, overlap>> /\ hubUp' = {}
      /\ up' = [t \in Sessions |-> <<>>] /\ mine' = [t \in Sessions |-> {}]
  BY DEF HubRestart
<1>2. OwnDevices'
  BY <1>1, OwnKept
<1>3. InStep'
  BY <1>1 DEF InStep
<1> QED
  BY <1>2, <1>3 DEF HealInv

LEMMA StepHeal == SessionInv /\ HealInv /\ [Next]_vars => HealInv'
<1> SUFFICES ASSUME SessionInv, HealInv, [Next]_vars PROVE HealInv'
  OBVIOUS
<1>1. CASE \E d \in Devices : Announce(d) \/ Retire(d)
  BY <1>1, ChangeHeal
<1>2. CASE \E a \in Agents, s \in Sessions : Connect(a, s)
  BY <1>2, ConnectHeal
<1>3. CASE \E s \in Sessions : Break(s)
  BY <1>3, QuietHeal DEF Break, hubVars
<1>4. CASE \E s \in Sessions : HubReads(s)
  BY <1>4, ReadHeal
<1>5. CASE (\E s \in Sessions : EndSession(s)) \/ HubRestart
  BY <1>5, EndHeal, RestartHeal
<1>6. CASE \/ \E a \in Agents : AgentNotices(a) \/ AgentReceive(a)
           \/ \E a \in Agents, ok \in BOOLEAN : AgentAnswers(a, ok)
  <2>1. ASSUME NEW a \in Agents, AgentReceive(a) PROVE HealInv'
    BY <2>1, QuietHeal DEF AgentReceive, TakeNext, agentVars, hubVars
  <2> QED
    BY <1>6, <2>1, NoticeHeal, AnswersHeal
<1>7. CASE \E c \in Cmds : \/ \E d \in Devices : SendCommand(c, d)
                           \/ \E a \in Agents : AddDevice(c, a)
                           \/ Timeout(c)
  BY <1>7, QuietHeal DEF SendCommand, AddDevice, Request, Timeout, agentVars, hubVars
<1>8. CASE UNCHANGED vars
  BY <1>8, QuietHeal DEF vars, agentVars, hubVars
<1> QED
  BY <1>1, <1>2, <1>3, <1>4, <1>5, <1>6, <1>7, <1>8 DEF Next

LEMMA InitHeal == Init => HealInv
<1> SUFFICES ASSUME Init PROVE HealInv
  OBVIOUS
<1>1. OwnDevices
  BY DEF Init, OwnDevices
<1>2. InStep
  BY DEF Init, InStep
<1> QED
  BY <1>1, <1>2 DEF HealInv

(* What viewers are shown of an agent that always reconnected after its old  *)
(* session had ended is what it publishes, once its messages are handled.    *)
THEOREM CatalogFollows == Spec => []CatalogHeals
<1>1. SessionInv /\ HealInv => CatalogHeals
  <2> SUFFICES ASSUME SessionInv, HealInv, NEW a \in Agents, Settled(a), a \notin overlap
               PROVE  Listed(a) = published[a]
    BY DEF CatalogHeals
  <2>1. current[a] \in hubUp /\ up[current[a]] = <<>>
    BY DEF Settled
  <2>2. \A d \in Devices : Owner[d] = a => (d \in catalog <=> d \in published[a])
    BY <2>1 DEF HealInv, InStep, Leads
  <2>3. \A d \in published[a] : Owner[d] = a
    BY DEF HealInv, OwnDevices
  <2>4. published[a] \subseteq Devices /\ catalog \subseteq Devices
    BY DEF SessionInv, TypeOK, SessionTypes
  <2> QED
    BY <2>2, <2>3, <2>4 DEF Listed
<1> QED
  BY <1>1, InitSessionInv, StepSessionInv, InitHeal, StepHeal, PTL DEF Spec
=============================================================================
