-------------------------- MODULE SlashMenu_proofs --------------------------
(* The menus of a recording's files are as new as the picks that asked for   *)
(* them, for every number of recordings, commands and documents.             *)
EXTENDS SlashMenu, FiniteSetTheorems, TLAPS

Got == UNION {[K -> Made] : K \in SUBSET Lists}

FileModes == {"existing", "exported"}

Requests ==
    [type : {"list"}, of : Lists] \cup [type : FileModes, rec : Recs]
    \cup [type : {"block"}, of : Blocks]

Answers ==
    [type : {"list"}, of : Lists, made : Made]
    \cup [type : FileModes, rec : Recs, files : Files]
    \cup [type : {"block"}, of : Blocks, ok : BOOLEAN]
    \cup [type : {"document"}, dir : Documents]

QtTypes ==
    /\ wired \in BOOLEAN /\ acts \in 0..MaxActs
    /\ dir \in Documents /\ dir <= acts
    /\ disk \in [Recs -> Nat] /\ exporting \in Seq(Recs)

ChannelTypes == up \in Seq(Requests) /\ down \in Seq(Answers)

PageTypes ==
    /\ docDir \in Documents
    /\ lists \in [Lists -> Made]
    /\ existing \in [Recs -> SUBSET Files] /\ exports \in [Recs -> SUBSET Files]
    /\ pendingRec \subseteq Picks
    /\ query \subseteq Calls \cup [type : {"files"}, q : Picks]
    /\ menu \subseteq Calls \cup [type : {"files"}, q : Picks, files : Files]
    /\ awaiting \subseteq Blocks /\ owed \subseteq awaiting

One(S) == \E x : S = {x}

(* A pick, a call that waits and a menu exclude each other. *)
Exclusive ==
    \/ query = {} /\ menu = {} /\ (pendingRec = {} \/ One(pendingRec))
    \/ query = {} /\ pendingRec = {} /\ One(menu)
    \/ menu = {} /\ pendingRec = {} /\ One(query)

Types == QtTypes /\ ChannelTypes /\ PageTypes /\ Exclusive

----------------------------------------------------------------------------
(* Values.                                                                  *)

LEMMA NeedsFacts ==
    /\ \A cmd \in DOMAIN Needs : Needs[cmd] \in Seq(Lists)
    /\ DOMAIN Needs = {"rec", "proc", "cam", "dev", "meta"}
<1>1. DOMAIN Needs = {"rec", "proc", "cam", "dev", "meta"}
  BY DEF Needs
<1>2. /\ Needs["rec"] = <<"rec">> /\ Needs["proc"] = <<"proc">>
      /\ Needs["cam"] = <<"cams", "media">> /\ Needs["dev"] = <<>> /\ Needs["meta"] = <<>>
  BY DEF Needs
<1>3. /\ <<"rec">> \in Seq(Lists) /\ <<"proc">> \in Seq(Lists)
      /\ <<"cams", "media">> \in Seq(Lists) /\ <<>> \in Seq(Lists)
  BY DEF Lists
<1> QED
  BY <1>1, <1>2, <1>3

LEMMA MessageFacts ==
    /\ \A k \in Lists : ListRequest(k) \in Requests
    /\ \A k \in Lists, v \in Made : List(k, v) \in Answers
    /\ \A mode \in FileModes, r \in Recs : FilesRequest(mode, r) \in Requests
    /\ \A k \in Blocks : BlockRequest(k) \in Requests
    /\ \A k \in Blocks, ok \in BOOLEAN : Block(k, ok) \in Answers
    /\ \A d \in Documents : Document(d) \in Answers
  BY DEF ListRequest, List, FilesRequest, BlockRequest, Block, Document, Requests, Answers

LEMMA FilesOfFacts ==
    ASSUME dir \in Documents, NEW mode \in FileModes, NEW r \in Recs, NEW n \in Nat
    PROVE  FilesOf(mode, r, n) \in Answers
  BY DEF FilesOf, Answers, Files

LEMMA RequestFacts ==
    ASSUME NEW m \in Requests
    PROVE  /\ m.type = "list" => m.of \in Lists
           /\ m.type \in FileModes => m.rec \in Recs
           /\ m.type = "block" => m.of \in Blocks /\ m = BlockRequest(m.of)
  BY DEF Requests, FileModes, BlockRequest

LEMMA AnswerFacts ==
    ASSUME NEW m \in Answers
    PROVE  /\ m.type = "list" => m.of \in Lists /\ m.made \in Made
           /\ m.type \in FileModes => m.rec \in Recs /\ m.files \in Files
           /\ m.type = "block" => m.of \in Blocks /\ m.ok \in BOOLEAN
           /\ m.type = "document" => m.dir \in Documents
  BY DEF Answers, FileModes

LEMMA CallFacts ==
    ASSUME NEW q \in Calls \cup [type : {"files"}, q : Picks]
    PROVE  /\ q.type = "lists" => q.cmd \in DOMAIN Needs /\ q.got \in Got
           /\ q.type = "files" => q.q \in Picks
           /\ q.type \in {"lists", "files"}
  BY DEF Calls, Got

LEMMA MenuFacts ==
    ASSUME NEW m \in Calls \cup [type : {"files"}, q : Picks, files : Files]
    PROVE  /\ m.type = "lists" => m.cmd \in DOMAIN Needs /\ m.got \in Got
           /\ m.type = "files" => m.q \in Picks /\ m.files \in Files
           /\ m.type \in {"lists", "files"}
  BY DEF Calls, Got

(* A call of the source waits or answers, for lists only. *)
AsksOnly ==
    /\ \A q \in query' : q \in Calls /\ q.type = "lists"
    /\ \A m \in menu' : m \in Calls /\ m.type = "lists"
    /\ \/ query' = {} /\ menu' = {}
       \/ query' = {} /\ One(menu')
       \/ menu' = {} /\ One(query')

LEMMA AskFacts ==
    ASSUME NEW cmd \in DOMAIN Needs, NEW got \in Got, Ask(cmd, got)
    PROVE  AsksOnly
<1>1. [type |-> "lists", cmd |-> cmd, got |-> got] \in Calls
  BY DEF Calls, Got
<1> DEFINE call == [type |-> "lists", cmd |-> cmd, got |-> got]
<1>2. call.type = "lists" /\ call \in Calls
  BY <1>1
<1>3. /\ query' \in {{}, {call}} /\ menu' \in {{}, {call}}
      /\ query' = {} \/ menu' = {}
  BY DEF Ask
<1> HIDE DEF call
<1> QED
  BY <1>2, <1>3 DEF AsksOnly, One

LEMMA ResolveFacts ==
    ASSUME PageTypes, query = {} \/ One(query), NEW k \in Lists, NEW v \in Made,
           Resolve(k, v)
    PROVE  (query # {} /\ AsksOnly) \/ UNCHANGED <<query, menu>>
<1>1. ASSUME NEW q \in query, q.type = "lists",
             Ask(q.cmd, [j \in DOMAIN q.got \cup {k} |-> IF j = k THEN v ELSE q.got[j]])
      PROVE  AsksOnly
  <2>1. q.cmd \in DOMAIN Needs /\ q.got \in Got
    BY <1>1, CallFacts DEF PageTypes
  <2>2. PICK K \in SUBSET Lists : q.got \in [K -> Made]
    BY <2>1 DEF Got
  <2>3. [j \in DOMAIN q.got \cup {k} |-> IF j = k THEN v ELSE q.got[j]] \in [K \cup {k} -> Made]
    BY <2>2
  <2>4. [j \in DOMAIN q.got \cup {k} |-> IF j = k THEN v ELSE q.got[j]] \in Got
    BY <2>3 DEF Got
  <2> QED
    BY <1>1, <2>1, <2>4, AskFacts
<1>2. CASE \E q \in query : q.type = "lists" /\ k \notin DOMAIN q.got
             /\ \E i \in DOMAIN Needs[q.cmd] : Needs[q.cmd][i] = k
  <2>1. PICK q \in query :
           Ask(q.cmd, [j \in DOMAIN q.got \cup {k} |-> IF j = k THEN v ELSE q.got[j]])
    BY <1>2 DEF Resolve
  <2>2. One(query) => q.type = "lists"
    BY <1>2, <2>1 DEF One
  <2> QED
    BY <1>1, <2>1, <2>2
<1> QED
  BY <1>2 DEF Resolve

----------------------------------------------------------------------------
(* Every step keeps the types.                                              *)

LEMMA HeadFacts ==
    ASSUME NEW S, NEW q \in Seq(S), q # <<>>
    PROVE  Head(q) \in S /\ Tail(q) \in Seq(S) /\ 1 \in DOMAIN q /\ Head(q) = q[1]
  OBVIOUS

LEMMA AskedTypes ==
    ASSUME PageTypes, AsksOnly, pendingRec = {},
           UNCHANGED <<docDir, lists, pendingRec, existing, exports, blockVars>>
    PROVE  PageTypes' /\ Exclusive'
  BY DEF blockVars, PageTypes, AsksOnly, Exclusive

LEMMA InitTypes == Init => Types
<1> SUFFICES ASSUME Init PROVE Types
  OBVIOUS
<1>1. 0 \in Documents /\ {} \in Made /\ {0} \in Made /\ 0 <= 0
  BY SlashAssumption DEF Documents, Made
<1>2. QtTypes
  BY <1>1, SlashAssumption DEF Init, QtTypes
<1>3. ChannelTypes
  <2>1. \A v \in {{}, {0}}, k \in Lists : List(k, v) \in Answers
    BY <1>1, MessageFacts
  <2>2. "rec" \in Lists /\ "proc" \in Lists /\ "cams" \in Lists /\ "media" \in Lists
    BY DEF Lists
  <2>3. \A v \in {{}, {0}} :
           /\ <<List("rec", v), List("proc", v), List("cams", v), List("media", v)>>
                 \in Seq(Answers)
           /\ <<List("cams", v), List("media", v)>> \in Seq(Answers)
    BY <2>1, <2>2
  <2>4. up = <<>> /\ \E v \in {{}, {0}} :
           \/ down = <<List("rec", v), List("proc", v), List("cams", v), List("media", v)>>
           \/ down = <<List("cams", v), List("media", v)>>
    BY DEF Init
  <2>5. down \in Seq(Answers)
    BY <2>3, <2>4
  <2> QED
    BY <2>4, <2>5 DEF ChannelTypes
<1>4. PageTypes /\ Exclusive
  BY <1>1 DEF Init, PageTypes, Exclusive
<1> QED
  BY <1>2, <1>3, <1>4 DEF Types

LEMMA TypeTypes ==
    ASSUME Types, Type
    PROVE  Types'
<1> USE DEF Types
<1>1. PICK cmd \in DOMAIN Needs :
         /\ Send([i \in DOMAIN Needs[cmd] |-> ListRequest(Needs[cmd][i])])
         /\ Ask(cmd, [k \in {Needs[cmd][i] : i \in DOMAIN Needs[cmd]}
                              \cap {k \in Lists : lists[k] # {}} |-> lists[k]])
  BY DEF Type
<1> DEFINE n  == Needs[cmd]
           K  == {n[i] : i \in DOMAIN n} \cap {k \in Lists : lists[k] # {}}
           ms == [i \in DOMAIN n |-> ListRequest(n[i])]
<1>2. n \in Seq(Lists)
  BY NeedsFacts
<1>3. ms \in Seq(Requests)
  <2>1. \A i \in 1..Len(n) : ListRequest(n[i]) \in Requests
    BY <1>2, MessageFacts
  <2> QED
    BY <1>2, <2>1
<1>4. [k \in K |-> lists[k]] \in Got
  <2>1. [k \in K |-> lists[k]] \in [K -> Made] /\ K \in SUBSET Lists
    BY DEF PageTypes
  <2> QED
    BY <2>1 DEF Got
<1>5. AsksOnly
  BY <1>1, <1>4, AskFacts
<1>6. PageTypes' /\ Exclusive'
  BY <1>5, AskedTypes DEF Type
<1>7. ChannelTypes'
  <2>1. up' = up \o ms
    BY <1>1 DEF Send
  <2>2. down' = down
    BY DEF Type
  <2> HIDE DEF ms
  <2> QED
    BY <1>3, <2>1, <2>2 DEF ChannelTypes
<1>8. QtTypes'
  <2>1. acts < MaxActs /\ acts' = acts + 1 /\ UNCHANGED <<wired, dir, disk, exporting>>
    BY DEF Type, qtVars
  <2>2. acts \in Nat /\ MaxActs \in Nat /\ dir \in Nat /\ dir <= acts
    BY SlashAssumption DEF QtTypes, Documents
  <2>3. acts' \in 0..MaxActs /\ dir <= acts'
    BY <2>1, <2>2
  <2> QED
    BY <2>1, <2>3 DEF QtTypes
<1> QED
  BY <1>6, <1>7, <1>8

LEMMA QueryOne ==
    ASSUME Exclusive
    PROVE  query = {} \/ One(query)
  BY DEF Exclusive

LEMMA ResolvedTypes ==
    ASSUME PageTypes, Exclusive, NEW k \in Lists, NEW v \in Made, Resolve(k, v),
           lists' \in [Lists -> Made],
           UNCHANGED <<docDir, pendingRec, existing, exports, blockVars>>
    PROVE  PageTypes' /\ Exclusive'
<1>1. CASE query # {} /\ AsksOnly
  <2>1. pendingRec = {}
    BY <1>1 DEF Exclusive
  <2> QED
    BY <1>1, <2>1 DEF blockVars, PageTypes, AsksOnly, Exclusive
<1>2. CASE UNCHANGED <<query, menu>>
  BY <1>2 DEF blockVars, PageTypes, Exclusive
<1> QED
  BY <1>1, <1>2, QueryOne, ResolveFacts

LEMMA TimeoutTypes ==
    ASSUME Types, Timeout
    PROVE  Types'
<1> USE DEF Types
<1>1. PICK k \in Lists : Resolve(k, lists[k])
  BY DEF Timeout
<1>2. PageTypes' /\ Exclusive'
  BY <1>1, ResolvedTypes DEF Timeout, PageTypes
<1>3. QtTypes' /\ ChannelTypes'
  BY DEF Timeout, qtVars, QtTypes, ChannelTypes
<1> QED
  BY <1>2, <1>3

LEMMA ShowFacts ==
    ASSUME NEW q \in Picks, NEW f \in Files, Show(q, f)
    PROVE  /\ query' = {}
           /\ menu' \in {{}, {[type |-> "files", q |-> q, files |-> f]}}
           /\ menu' # {} => ~(q.mode = "exported" /\ f.ver = 0)
           /\ menu' \subseteq Calls \cup [type : {"files"}, q : Picks, files : Files]
           /\ menu' = {} \/ One(menu')
  BY DEF Show, One

LEMMA StageTwoTypes ==
    ASSUME Types, StageTwo
    PROVE  Types'
<1> USE DEF Types
<1>1. /\ pendingRec' = {} /\ UNCHANGED <<docDir, lists, existing, exports, blockVars>>
      /\ UNCHANGED <<qtVars, down, up, acts>>
  BY DEF StageTwo, StageTwoLeaving
<1>2. PICK q \in pendingRec :
         LET known == IF q.mode = "existing" THEN existing[q.rec] ELSE exports[q.rec] IN
         IF known # {} THEN \E f \in known : Show(q, f)
         ELSE query' = {[type |-> "files", q |-> q]} /\ menu' = {}
  BY DEF StageTwo, StageTwoLeaving
<1>3. q \in Picks /\ q.rec \in Recs
  BY DEF PageTypes, Picks
<1>4. existing[q.rec] \subseteq Files /\ exports[q.rec] \subseteq Files
  BY <1>3 DEF PageTypes
<1>5. PageTypes' /\ Exclusive'
  <2>1. CASE query' = {[type |-> "files", q |-> q]} /\ menu' = {}
    <3> DEFINE call == [type |-> "files", q |-> q]
    <3>1. call \in [type : {"files"}, q : Picks] /\ query' = {call}
      BY <1>3, <2>1
    <3> HIDE DEF call
    <3>2. One(query')
      BY <3>1 DEF One
    <3>3. PageTypes'
      BY <1>1, <2>1, <3>1 DEF blockVars, PageTypes
    <3> QED
      BY <1>1, <2>1, <3>2, <3>3 DEF Exclusive
  <2>2. ASSUME NEW f \in Files, Show(q, f) PROVE PageTypes' /\ Exclusive'
    <3>1. /\ query' = {}
          /\ menu' = {} \/ One(menu')
          /\ menu' \subseteq Calls \cup [type : {"files"}, q : Picks, files : Files]
      BY <1>3, <2>2, ShowFacts
    <3> QED
      BY <1>1, <3>1 DEF blockVars, PageTypes, Exclusive
  <2> QED
    BY <1>2, <1>4, <2>1, <2>2
<1>6. QtTypes' /\ ChannelTypes'
  BY <1>1 DEF qtVars, QtTypes, ChannelTypes
<1> QED
  BY <1>5, <1>6

LEMMA PickFilesTypes ==
    ASSUME Types, menu # {}, NEW mode \in FileModes, NEW r \in Recs, NEW since \in Nat,
           PickFiles(mode, r, since),
           existing' \in [Recs -> SUBSET Files], exports' \in [Recs -> SUBSET Files]
    PROVE  Types'
<1> USE DEF Types
<1>1. Unasked(r) \in BOOLEAN
  BY DEF Unasked
<1> DEFINE p == [mode |-> mode, rec |-> r, since |-> since, alone |-> Unasked(r),
                 at |-> docDir]
<1>2. p \in Picks
  BY <1>1 DEF Picks, FileModes, PageTypes
<1>3. pendingRec' = {p} /\ menu' = {} /\ up' = up \o <<FilesRequest(mode, r)>>
      /\ UNCHANGED <<qtVars, down, docDir, lists, query, blockVars, acts>>
  BY DEF PickFiles, Send
<1> HIDE DEF p
<1>4. query = {}
  BY DEF Exclusive, One
<1>5. PageTypes'
  BY <1>2, <1>3 DEF blockVars, PageTypes
<1>6. Exclusive'
  BY <1>3, <1>4 DEF Exclusive, One
<1>7. ChannelTypes'
  <2>1. FilesRequest(mode, r) \in Requests
    BY MessageFacts
  <2> QED
    BY <1>3, <2>1 DEF ChannelTypes
<1>8. QtTypes'
  BY <1>3 DEF qtVars, QtTypes
<1> QED
  BY <1>5, <1>6, <1>7, <1>8

LEMMA PickRecTypes ==
    ASSUME Types, PickRec \/ PickExport
    PROVE  Types'
<1>1. CASE PickRec
  <2>1. PICK r \in Recs : /\ menu # {} /\ PickFiles("existing", r, disk[r])
                          /\ existing' = [existing EXCEPT ![r] = {}] /\ exports' = exports
    BY <1>1 DEF PickRec, PickRecForgetting
  <2>2. /\ "existing" \in FileModes /\ disk[r] \in Nat
        /\ existing' \in [Recs -> SUBSET Files] /\ exports' \in [Recs -> SUBSET Files]
    BY <2>1 DEF FileModes, Types, QtTypes, PageTypes
  <2> QED
    BY <2>1, <2>2, PickFilesTypes
<1>2. CASE PickExport
  <2>1. PICK m \in menu : /\ m.type = "files"
                          /\ PickFiles("exported", m.q.rec, disk[m.q.rec] + 1)
                          /\ exports' = [exports EXCEPT ![m.q.rec] = {}]
                          /\ existing' = existing
    BY <1>2 DEF PickExport
  <2>2. m.q.rec \in Recs
    BY <2>1, MenuFacts DEF Types, PageTypes, Picks
  <2>3. /\ "exported" \in FileModes /\ disk[m.q.rec] + 1 \in Nat
        /\ existing' \in [Recs -> SUBSET Files] /\ exports' \in [Recs -> SUBSET Files]
    BY <2>1, <2>2 DEF FileModes, Types, QtTypes, PageTypes
  <2> QED
    BY <2>1, <2>2, <2>3, PickFilesTypes
<1> QED
  BY <1>1, <1>2

LEMMA PickBlockTypes ==
    ASSUME Types, PickBlock
    PROVE  Types'
<1> USE DEF Types
<1>1. PICK k \in Blocks :
         /\ awaiting' = awaiting \cup {k} /\ owed' \in {owed, owed \cup {k}}
         /\ up' = up \o <<BlockRequest(k)>>
  BY DEF PickBlock, Send
<1>2. /\ menu # {} /\ menu' = {}
      /\ UNCHANGED <<qtVars, down, docDir, lists, pendingRec, existing, exports, query, acts>>
  BY DEF PickBlock
<1>3. PageTypes'
  BY <1>1, <1>2 DEF PageTypes
<1>4. Exclusive'
  BY <1>2 DEF Exclusive, One
<1>5. ChannelTypes'
  <2>1. BlockRequest(k) \in Requests
    BY MessageFacts
  <2> QED
    BY <1>1, <1>2, <2>1 DEF ChannelTypes
<1>6. QtTypes'
  BY <1>2 DEF qtVars, QtTypes
<1> QED
  BY <1>3, <1>4, <1>5, <1>6

(* A menu is only open, or waited for, when nothing is pending. *)
LEMMA DismissTypes ==
    ASSUME Types, PickFile \/ PickMedia \/ Escape
    PROVE  Types'
<1> USE DEF Types
<1>1. /\ menu' = {} /\ query' = {}
      /\ UNCHANGED <<qtVars, down, up, docDir, lists, pendingRec, existing, exports,
                     blockVars, acts>>
  BY DEF PickFile, PickMedia, Escape, Dismiss
<1>2. PageTypes' /\ Exclusive'
  BY <1>1 DEF blockVars, PageTypes, Exclusive
<1>3. QtTypes' /\ ChannelTypes'
  BY <1>1 DEF qtVars, QtTypes, ChannelTypes
<1> QED
  BY <1>2, <1>3

LEMMA ReceivedFacts ==
    ASSUME Types, NEW types, Receiving(types)
    PROVE  /\ Head(down) \in Answers /\ Head(down).type \in types /\ down # <<>>
           /\ down' = Tail(down) /\ down' \in Seq(Answers)
  BY DEF Receiving, Types, ChannelTypes

LEMMA ReceiveListTypes ==
    ASSUME Types, ReceiveList
    PROVE  Types'
<1> USE DEF Types
<1> DEFINE m == Head(down)
<1>1. /\ m.of \in Lists /\ m.made \in Made /\ down' \in Seq(Answers)
  <2>1. Receiving({"list"})
    BY DEF ReceiveList
  <2>2. m \in Answers /\ m.type = "list" /\ down' \in Seq(Answers)
    BY <2>1, ReceivedFacts
  <2> QED
    BY <2>2, AnswerFacts
<1>2. /\ lists' = [lists EXCEPT ![m.of] = m.made] /\ Resolve(m.of, m.made)
      /\ UNCHANGED <<qtVars, up, docDir, pendingRec, existing, exports, blockVars, acts>>
  BY DEF ReceiveList
<1> HIDE DEF m
<1>3. PageTypes' /\ Exclusive'
  <2>1. lists' \in [Lists -> Made]
    BY <1>1, <1>2 DEF PageTypes
  <2> QED
    BY <1>1, <1>2, <2>1, ResolvedTypes
<1>4. QtTypes' /\ ChannelTypes'
  BY <1>1, <1>2 DEF qtVars, QtTypes, ChannelTypes
<1> QED
  BY <1>3, <1>4

LEMMA ReceiveFilesTypes ==
    ASSUME Types, ReceiveFiles
    PROVE  Types'
<1> USE DEF Types
<1> DEFINE m == Head(down)
<1>1. /\ m.rec \in Recs /\ m.files \in Files /\ down' \in Seq(Answers)
  <2>1. Receiving({"existing", "exported"})
    BY DEF ReceiveFiles
  <2>2. m \in Answers /\ m.type \in FileModes /\ down' \in Seq(Answers)
    BY <2>1, ReceivedFacts DEF FileModes
  <2> QED
    BY <2>2, AnswerFacts
<1>2. /\ existing' = [existing EXCEPT ![m.rec] = {m.files}]
      /\ exports' \in {exports, [exports EXCEPT ![m.rec] = {m.files}]}
      /\ UNCHANGED <<qtVars, up, docDir, lists, pendingRec, blockVars, acts>>
  BY DEF ReceiveFiles
<1>3. \/ UNCHANGED <<query, menu>>
      \/ query # {} /\ \E q \in Picks : Show(q, m.files)
  <2>1. ASSUME NEW q \in query, q.type = "files" PROVE q.q \in Picks
    BY <2>1, CallFacts DEF PageTypes
  <2>2. CASE \E q \in query : q.type = "files" /\ q.q.mode = m.type /\ q.q.rec = m.rec
    <3>1. PICK q \in query : Show(q.q, m.files)
      BY <2>2 DEF ReceiveFiles
    <3>2. q.type = "files"
      BY <2>2, <3>1, QueryOne DEF One
    <3> QED
      BY <2>1, <3>1, <3>2
  <2>3. CASE ~ \E q \in query : q.type = "files" /\ q.q.mode = m.type /\ q.q.rec = m.rec
    BY <2>3 DEF ReceiveFiles
  <2> QED
    BY <2>2, <2>3
<1> HIDE DEF m
<1>4. existing' \in [Recs -> SUBSET Files] /\ exports' \in [Recs -> SUBSET Files]
  BY <1>1, <1>2 DEF PageTypes
<1>5. PageTypes' /\ Exclusive'
  <2>1. CASE UNCHANGED <<query, menu>>
    BY <1>2, <1>4, <2>1 DEF blockVars, PageTypes, Exclusive
  <2>2. ASSUME query # {}, NEW q \in Picks, Show(q, m.files) PROVE PageTypes' /\ Exclusive'
    <3>1. /\ query' = {}
          /\ menu' = {} \/ One(menu')
          /\ menu' \subseteq Calls \cup [type : {"files"}, q : Picks, files : Files]
      BY <1>1, <2>2, ShowFacts
    <3>2. pendingRec = {}
      BY <2>2 DEF Exclusive
    <3> QED
      BY <1>2, <1>4, <3>1, <3>2 DEF blockVars, PageTypes, Exclusive
  <2> QED
    BY <1>3, <2>1, <2>2
<1>6. QtTypes' /\ ChannelTypes'
  BY <1>1, <1>2 DEF qtVars, QtTypes, ChannelTypes
<1> QED
  BY <1>5, <1>6

LEMMA ReceiveOtherTypes ==
    ASSUME Types, ReceiveBlock \/ ReceiveDocument
    PROVE  Types'
<1> USE DEF Types
<1>1. CASE ReceiveBlock
  <2>1. down' \in Seq(Answers)
    BY <1>1, ReceivedFacts DEF ReceiveBlock, ReceiveBlockEnding
  <2>2. /\ awaiting' \subseteq Blocks /\ owed' \subseteq awaiting'
        /\ UNCHANGED <<qtVars, up, docDir, lists, pendingRec, existing, exports, query, menu,
                       acts>>
    BY <1>1 DEF ReceiveBlock, ReceiveBlockEnding, PageTypes
  <2> QED
    BY <2>1, <2>2 DEF qtVars, QtTypes, ChannelTypes, PageTypes, Exclusive
<1>2. CASE ReceiveDocument
  <2>1. /\ down' \in Seq(Answers) /\ Head(down).dir \in Documents
    BY <1>2, ReceivedFacts, AnswerFacts DEF ReceiveDocument
  <2>2. /\ docDir' = Head(down).dir
        /\ (menu' = {} /\ query' = {}) \/ UNCHANGED <<menu, query>>
        /\ UNCHANGED <<qtVars, up, lists, pendingRec, existing, exports, blockVars, acts>>
    BY <1>2 DEF ReceiveDocument
  <2> QED
    BY <2>1, <2>2 DEF qtVars, blockVars, QtTypes, ChannelTypes, PageTypes, Exclusive
<1> QED
  BY <1>1, <1>2

LEMMA PageKept ==
    ASSUME PageTypes, Exclusive, UNCHANGED pageVars
    PROVE  PageTypes' /\ Exclusive'
  BY DEF pageVars, blockVars, PageTypes, Exclusive

(* What Qt leaves alone when it takes a request. *)
LEMMA QtFacts ==
    ASSUME Types, Qt
    PROVE  /\ up # <<>> /\ up' = Tail(up) /\ Head(up) \in Requests /\ up' \in Seq(Requests)
           /\ UNCHANGED <<docDir, lists, pendingRec, existing, exports, query, menu, awaiting>>
           /\ UNCHANGED <<wired, dir, disk>> /\ owed' \subseteq owed
           /\ HandleExport \/ UNCHANGED exporting
           /\ acts' = acts \/ (acts < MaxActs /\ acts' = acts + 1)
<1> USE DEF qtVars, pageVars, blockVars, Handling
<1>1. up # <<>> /\ up' = Tail(up)
  BY DEF Qt, HandleList, HandleExisting, HandleExport, HandleBlock, AnswerBlock, LosePhoto
<1>2. Head(up) \in Requests /\ up' \in Seq(Requests)
  BY <1>1 DEF Types, ChannelTypes
<1>3. CASE HandleList
  BY <1>1, <1>2, <1>3 DEF HandleList, ListFound, NothingListed
<1>4. CASE HandleExisting \/ HandleExport \/ AnswerBlock
  BY <1>1, <1>2, <1>4 DEF HandleExisting, HandleExport, AnswerBlock
<1>5. CASE LosePhoto
  BY <1>1, <1>2, <1>5 DEF LosePhoto
<1> QED
  BY <1>3, <1>4, <1>5 DEF Qt, HandleBlock

(* What Qt answers, when it is asked for a list, and for a block. *)
LEMMA ListAnswer ==
    ASSUME Types, HandleList
    PROVE  down' = down \/ \E v \in Made : down' = Append(down, List(Head(up).of, v))
<1>1. {} \in Made /\ {dir} \in Made
  BY DEF Made, Types, QtTypes
<1> QED
  BY <1>1 DEF HandleList, ListFound, NothingListed, Emit

LEMMA BlockAnswer ==
    ASSUME HandleBlock
    PROVE  \/ \E ok \in BOOLEAN : down' = Append(down, Block(Head(up).of, ok))
           \/ LosePhoto /\ down' = down
  BY DEF HandleBlock, AnswerBlock, LosePhoto, Emit

LEMMA QtPageTypes ==
    ASSUME Types, Qt
    PROVE  PageTypes' /\ Exclusive'
  BY QtFacts DEF Types, PageTypes, Exclusive

LEMMA QtSteps ==
    ASSUME Types, Qt
    PROVE  Types'
<1> USE DEF Types
<1> DEFINE m == Head(up)
<1>1. m \in Requests /\ up' \in Seq(Requests)
  BY QtFacts
<1>2. PageTypes' /\ Exclusive' /\ UNCHANGED <<wired, dir, disk>>
  BY QtFacts, QtPageTypes
<1>0. acts' \in 0..MaxActs /\ dir <= acts'
  <2>1. acts \in Nat /\ MaxActs \in Nat /\ dir \in Nat /\ dir <= acts /\ acts <= MaxActs
    BY SlashAssumption DEF QtTypes, Documents
  <2> QED
    BY <2>1, QtFacts
<1> HIDE DEF m
<1>3. CASE HandleList
  <2>1. m.of \in Lists
    BY <1>1, <1>3, RequestFacts DEF HandleList, Handling, m
  <2>2. \A v \in Made : List(m.of, v) \in Answers
    BY <2>1, MessageFacts
  <2>3. down' \in Seq(Answers)
    BY <1>3, <2>2, ListAnswer DEF ChannelTypes, m
  <2>4. exporting' = exporting
    BY <1>3 DEF HandleList, qtVars
  <2> QED
    BY <1>0, <1>1, <1>2, <2>3, <2>4 DEF QtTypes, ChannelTypes
<1>4. CASE HandleExisting
  <2>1. m.rec \in Recs
    BY <1>1, <1>4, RequestFacts DEF HandleExisting, Handling, m, FileModes
  <2>2. FilesOf("existing", m.rec, disk[m.rec]) \in Answers
    BY <2>1, FilesOfFacts DEF QtTypes, FileModes
  <2>3. down' \in Seq(Answers)
    BY <1>4, <2>2 DEF HandleExisting, Emit, ChannelTypes, m
  <2> QED
    BY <1>0, <1>1, <1>2, <1>4, <2>3 DEF HandleExisting, qtVars, QtTypes, ChannelTypes
<1>5. CASE HandleExport
  <2>1. m.rec \in Recs
    BY <1>1, <1>5, RequestFacts DEF HandleExport, Handling, m, FileModes
  <2>2. exporting' \in Seq(Recs)
    BY <1>5, <2>1 DEF HandleExport, QtTypes, m
  <2> QED
    BY <1>0, <1>1, <1>2, <1>5, <2>2 DEF HandleExport, QtTypes, ChannelTypes
<1>6. CASE HandleBlock
  <2>1. m.of \in Blocks
    BY <1>1, <1>6, RequestFacts DEF HandleBlock, AnswerBlock, LosePhoto, Handling, m
  <2>2. \A ok \in BOOLEAN : Block(m.of, ok) \in Answers
    BY <2>1, MessageFacts
  <2>3. down' \in Seq(Answers)
    BY <1>6, <2>2, BlockAnswer DEF ChannelTypes, m
  <2>4. exporting' = exporting
    BY <1>6 DEF HandleBlock, AnswerBlock, LosePhoto, qtVars
  <2> QED
    BY <1>0, <1>1, <1>2, <2>3, <2>4 DEF QtTypes, ChannelTypes
<1> QED
  BY <1>3, <1>4, <1>5, <1>6 DEF Qt

LEMMA EndExportTypes ==
    ASSUME Types, EndExport
    PROVE  Types'
<1> USE DEF Types
<1> DEFINE r == exporting[Len(exporting)]
<1>1. exporting \in Seq(Recs) /\ exporting # <<>> /\ r \in Recs
  BY DEF EndExport, QtTypes
<1>2. /\ \/ disk' = [disk EXCEPT ![r] = @ + 1] /\ Emit(FilesOf("exported", r, disk[r] + 1))
         \/ UNCHANGED disk /\ Emit(FilesOf("exported", r, 0))
      /\ exporting' = SubSeq(exporting, 1, Len(exporting) - 1)
      /\ UNCHANGED <<wired, dir, up, pageVars, acts>>
  BY DEF EndExport
<1> HIDE DEF r
<1>3. exporting' \in Seq(Recs)
  BY <1>1, <1>2
<1>4. disk' \in [Recs -> Nat] /\ disk[r] + 1 \in Nat
  BY <1>1, <1>2 DEF QtTypes
<1>5. down' \in Seq(Answers)
  <2>1. FilesOf("exported", r, disk[r] + 1) \in Answers /\ FilesOf("exported", r, 0) \in Answers
    BY <1>1, <1>4, FilesOfFacts DEF QtTypes, FileModes
  <2>2. \/ down' = Append(down, FilesOf("exported", r, disk[r] + 1))
        \/ down' = Append(down, FilesOf("exported", r, 0))
    BY <1>2 DEF Emit
  <2> QED
    BY <2>1, <2>2, SMTT(30) DEF ChannelTypes
<1>6. PageTypes' /\ Exclusive'
  BY <1>2, PageKept
<1> QED
  BY <1>2, <1>3, <1>4, <1>5, <1>6 DEF QtTypes, ChannelTypes

LEMMA OpenTypes ==
    ASSUME Types, Open
    PROVE  Types'
<1> USE DEF Types
<1>1. /\ acts < MaxActs /\ acts' = acts + 1 /\ dir' = dir + 1 /\ Emit(Document(dir'))
      /\ UNCHANGED <<wired, disk, exporting, up, pageVars>>
  BY DEF Open
<1>2. acts \in Nat /\ MaxActs \in Nat /\ dir \in Nat /\ dir <= acts
  BY SlashAssumption DEF QtTypes, Documents
<1>3. acts' \in 0..MaxActs /\ dir' <= acts' /\ dir' \in Documents
  BY <1>1, <1>2 DEF Documents
<1>4. QtTypes'
  BY <1>1, <1>3 DEF QtTypes
<1>5. ChannelTypes'
  BY <1>1, <1>3, MessageFacts DEF Emit, ChannelTypes
<1> QED
  BY <1>1, <1>4, <1>5, PageKept

LEMMA StepTypes == Types /\ [Next]_vars => Types'
<1> SUFFICES ASSUME Types, [Next]_vars PROVE Types'
  OBVIOUS
<1>1. CASE Page
  BY <1>1, ReceiveListTypes, ReceiveFilesTypes, ReceiveOtherTypes DEF Page
<1>2. CASE User
  BY <1>2, TypeTypes, StageTwoTypes, PickRecTypes, PickBlockTypes, DismissTypes, OpenTypes
     DEF User
<1>3. CASE UNCHANGED vars
  BY <1>3 DEF vars, qtVars, pageVars, blockVars, Types, QtTypes, ChannelTypes, PageTypes,
              Exclusive
<1> QED
  BY <1>1, <1>2, <1>3, TimeoutTypes, QtSteps, EndExportTypes DEF Next

----------------------------------------------------------------------------
(* What is on its way.                                                      *)

LEMMA LongerFacts ==
    ASSUME NEW S, NEW q \in Seq(S), NEW ms \in Seq(S)
    PROVE  /\ \A i \in DOMAIN q : i \in DOMAIN (q \o ms) /\ (q \o ms)[i] = q[i]
           /\ \A i \in DOMAIN (q \o ms) :
                 \/ i \in DOMAIN q /\ (q \o ms)[i] = q[i]
                 \/ \E j \in DOMAIN ms : (q \o ms)[i] = ms[j]
<1>1. ASSUME NEW i \in DOMAIN (q \o ms), i \notin DOMAIN q
      PROVE  \E j \in DOMAIN ms : (q \o ms)[i] = ms[j]
  <2>1. i - Len(q) \in DOMAIN ms /\ (q \o ms)[i] = ms[i - Len(q)]
    BY <1>1
  <2> QED
    BY <2>1
<1> QED
  BY <1>1

LEMMA AppendFacts ==
    ASSUME NEW S, NEW q \in Seq(S), NEW m \in S
    PROVE  /\ \A i \in DOMAIN q : i \in DOMAIN Append(q, m) /\ Append(q, m)[i] = q[i]
           /\ Len(q) + 1 \in DOMAIN Append(q, m) /\ Append(q, m)[Len(q) + 1] = m
           /\ \A i \in DOMAIN Append(q, m) :
                 \/ i \in DOMAIN q /\ Append(q, m)[i] = q[i] /\ i < Len(q) + 1
                 \/ i = Len(q) + 1 /\ Append(q, m)[i] = m
  OBVIOUS

LEMMA TailFacts ==
    ASSUME NEW S, NEW q \in Seq(S), q # <<>>
    PROVE  /\ \A i \in DOMAIN q : \/ i = 1 /\ q[i] = Head(q)
                                  \/ i - 1 \in DOMAIN Tail(q) /\ Tail(q)[i - 1] = q[i]
           /\ \A j \in DOMAIN Tail(q) : j + 1 \in DOMAIN q /\ Tail(q)[j] = q[j + 1] /\ j \in Nat
  OBVIOUS

(* How the two directions of the channel change: the page sends, or takes an *)
(* answer; Qt takes a request, or answers, or both.                          *)
PageSends ==
    /\ \E ms \in Seq(Requests) : up' = up \o ms
    /\ UNCHANGED down

LEMMA SendingFacts ==
    ASSUME Types, Type \/ PickRec \/ PickExport \/ PickBlock
    PROVE  PageSends
<1>1. ASSUME Type PROVE PageSends
  <2>1. PICK cmd \in DOMAIN Needs :
           up' = up \o [i \in DOMAIN Needs[cmd] |-> ListRequest(Needs[cmd][i])]
    BY <1>1 DEF Type, Send
  <2>2. [i \in DOMAIN Needs[cmd] |-> ListRequest(Needs[cmd][i])] \in Seq(Requests)
    <3>1. Needs[cmd] \in Seq(Lists)
      BY NeedsFacts
    <3>2. \A i \in 1..Len(Needs[cmd]) : ListRequest(Needs[cmd][i]) \in Requests
      BY <3>1, MessageFacts
    <3> QED
      BY <3>1, <3>2
  <2> QED
    BY <1>1, <2>1, <2>2 DEF PageSends, Type
<1>2. ASSUME PickRec \/ PickExport PROVE PageSends
  <2>1. PICK mode \in FileModes : \E r \in Recs :
           up' = up \o <<FilesRequest(mode, r)>> /\ down' = down
    <3>1. \A m \in menu : m.type = "files" => m.q.rec \in Recs
      BY MenuFacts DEF Types, PageTypes, Picks
    <3> QED
      BY <1>2, <3>1 DEF PickRec, PickExport, PickRecForgetting, PickFiles, Send, FileModes
  <2>2. \A r \in Recs : <<FilesRequest(mode, r)>> \in Seq(Requests)
    BY MessageFacts
  <2> QED
    BY <2>1, <2>2 DEF PageSends
<1>3. ASSUME PickBlock PROVE PageSends
  <2>1. PICK k \in Blocks : up' = up \o <<BlockRequest(k)>> /\ down' = down
    BY <1>3 DEF PickBlock, Send
  <2>2. <<BlockRequest(k)>> \in Seq(Requests)
    BY MessageFacts
  <2> QED
    BY <2>1, <2>2 DEF PageSends
<1> QED
  BY <1>1, <1>2, <1>3

(* Every block that is owed is on its way. *)
Awaited == \A k \in owed : Underway(k)

LEMMA SentComing ==
    ASSUME Types, PageSends, NEW k, Underway(k)
    PROVE  Underway(k)'
<1>1. PICK ms \in Seq(Requests) : up' = up \o ms
  BY DEF PageSends
<1>2. up \in Seq(Requests) /\ down' = down
  BY DEF Types, ChannelTypes, PageSends
<1> QED
  BY <1>1, <1>2, LongerFacts DEF Underway

LEMMA ReceivedComing ==
    ASSUME Types, NEW types, Receiving(types), UNCHANGED up, NEW k, Underway(k),
           ~(Head(down).type = "block" /\ Head(down).of = k)
    PROVE  Underway(k)'
<1>1. down \in Seq(Answers) /\ down # <<>> /\ down' = Tail(down)
  BY DEF Receiving, Types, ChannelTypes
<1>2. ASSUME NEW i \in DOMAIN down, down[i].type = "block", down[i].of = k
      PROVE  \E j \in DOMAIN down' : down'[j].type = "block" /\ down'[j].of = k
  <2>1. down[i] # Head(down)
    BY <1>2
  <2>2. i - 1 \in DOMAIN Tail(down) /\ Tail(down)[i - 1] = down[i]
    BY <1>1, <1>2, <2>1, TailFacts
  <2> QED
    BY <1>1, <1>2, <2>2
<1> QED
  BY <1>2 DEF Underway

(* A request for a block is taken by HandleBlock only, which answers it, or   *)
(* gives it up.                                                              *)
LEMMA HandledComing ==
    ASSUME Types, Qt, NEW k \in Blocks, Underway(k), k \in owed'
    PROVE  Underway(k)'
<1>1. /\ up \in Seq(Requests) /\ up # <<>> /\ up' = Tail(up) /\ down \in Seq(Answers)
  BY QtFacts DEF Types, ChannelTypes
<1>2. \A i \in DOMAIN down : i \in DOMAIN down' /\ down'[i] = down[i]
  <2>1. down' = down \/ \E m : down' = Append(down, m)
    BY ListAnswer, BlockAnswer DEF Qt, HandleExisting, HandleExport, Emit
  <2>2. \A m : \A i \in DOMAIN down : i \in DOMAIN Append(down, m) /\ Append(down, m)[i] = down[i]
    BY <1>1
  <2> QED
    BY <2>1, <2>2
<1>3. CASE Head(up) = BlockRequest(k)
  <2>1. Head(up).type = "block" /\ Head(up).of = k
    BY <1>3 DEF BlockRequest
  <2>2. HandleBlock
    BY <2>1 DEF Qt, HandleList, HandleExisting, HandleExport, Handling
  <2>3. CASE \E ok \in BOOLEAN : down' = Append(down, Block(k, ok))
    <3>1. PICK ok \in BOOLEAN : down' = Append(down, Block(k, ok))
      BY <2>3
    <3>2. Block(k, ok) \in Answers /\ Block(k, ok).type = "block" /\ Block(k, ok).of = k
      BY MessageFacts DEF Block
    <3>3. /\ Len(down) + 1 \in DOMAIN down' /\ down'[Len(down) + 1] = Block(k, ok)
      BY <1>1, <3>1, <3>2, AppendFacts
    <3> QED
      BY <3>2, <3>3 DEF Underway
  <2>4. CASE LosePhoto /\ down' = down
    <3>1. \E i \in DOMAIN down : down[i].type = "block" /\ down[i].of = k
      BY <2>1, <2>4 DEF LosePhoto
    <3> QED
      BY <2>4, <3>1 DEF Underway
  <2> QED
    BY <2>1, <2>2, <2>3, <2>4, BlockAnswer
<1>4. CASE Head(up) # BlockRequest(k)
  <2>1. ASSUME NEW i \in DOMAIN up, up[i] = BlockRequest(k)
        PROVE  \E j \in DOMAIN up' : up'[j] = BlockRequest(k)
    BY <1>1, <1>4, <2>1, TailFacts, ZenonT(30)
  <2> QED
    BY <1>2, <2>1 DEF Underway
<1> QED
  BY <1>3, <1>4

LEMMA StepAwaited == Types /\ Awaited /\ [Next]_vars => Awaited'
<1> SUFFICES ASSUME Types, Awaited, [Next]_vars PROVE Awaited'
  OBVIOUS
<1>1. ASSUME Type \/ PickRec \/ PickExport \/ PickBlock PROVE Awaited'
  <2>1. ASSUME NEW k \in owed' \ owed PROVE Underway(k)'
    <3>3. PickBlock
      BY <1>1, <2>1 DEF Type, PickRec, PickExport, PickRecForgetting, PickFiles, blockVars
    <3>4. PICK j \in Blocks :
             owed' = (IF Underway(j) THEN owed ELSE owed \cup {j}) /\ Send(<<BlockRequest(j)>>)
      BY <3>3 DEF PickBlock
    <3>5. k = j
      BY <2>1, <3>4
    <3>1. /\ k \in Blocks /\ up' = up \o <<BlockRequest(k)>> /\ up \in Seq(Requests)
      BY <3>4, <3>5 DEF Send, Types, ChannelTypes
    <3>2. Len(up) + 1 \in DOMAIN up' /\ up'[Len(up) + 1] = BlockRequest(k)
      BY <3>1
    <3> QED
      BY <3>2 DEF Underway
  <2> QED
    BY <1>1, <2>1, SendingFacts, SentComing DEF Awaited
<1>2. ASSUME ReceiveList \/ ReceiveFiles \/ ReceiveDocument PROVE Awaited'
  <2>1. PICK types : Receiving(types) /\ "block" \notin types
    BY <1>2 DEF ReceiveList, ReceiveFiles, ReceiveDocument
  <2>2. owed' = owed /\ up' = up /\ Head(down).type # "block"
    BY <1>2, <2>1 DEF ReceiveList, ReceiveFiles, ReceiveDocument, Receiving, blockVars
  <2> QED
    BY <2>1, <2>2, ReceivedComing DEF Awaited
<1>3. ASSUME ReceiveBlock PROVE Awaited'
  <2>1. Receiving({"block"}) /\ up' = up
    BY <1>3 DEF ReceiveBlock, ReceiveBlockEnding
  <2>2. Head(down).ok \in BOOLEAN /\ Head(down).type = "block"
    BY <2>1, ReceivedFacts, AnswerFacts
  <2>3. owed' = owed \ {Head(down).of}
    BY <1>3, <2>2 DEF ReceiveBlock, ReceiveBlockEnding, Types, PageTypes
  <2> QED
    BY <2>1, <2>3, ReceivedComing DEF Awaited
<1>4. ASSUME Qt PROVE Awaited'
  <2>1. owed' \subseteq owed /\ owed \subseteq Blocks
    BY <1>4, QtFacts DEF Types, PageTypes
  <2> QED
    BY <1>4, <2>1, HandledComing DEF Awaited
<1>5. ASSUME EndExport \/ Open PROVE Awaited'
  <2>1. /\ owed' = owed /\ up' = up /\ down \in Seq(Answers)
        /\ \E m : down' = Append(down, m)
    BY <1>5 DEF EndExport, Open, Emit, pageVars, blockVars, Types, ChannelTypes
  <2>2. \A m : \A i \in DOMAIN down : i \in DOMAIN Append(down, m) /\ Append(down, m)[i] = down[i]
    BY <2>1
  <2> QED
    BY <2>1, <2>2 DEF Awaited, Underway
<1>6. ASSUME \/ StageTwo \/ PickFile \/ PickMedia \/ Escape \/ Timeout \/ UNCHANGED vars
      PROVE  Awaited'
  <2>1. owed' = owed /\ up' = up /\ down' = down
    BY <1>6 DEF StageTwo, StageTwoLeaving, PickFile, PickMedia, Escape, Dismiss, Timeout, vars,
                pageVars, blockVars
  <2> QED
    BY <2>1 DEF Awaited, Underway
<1> QED
  BY <1>1, <1>2, <1>3, <1>4, <1>5, <1>6 DEF Next, Page, User

(* The page's and Qt's variables have their types; a menu, a wait and a pick *)
(* exclude each other; every block that is owed is on its way.               *)
THEOREM MenusTypeCorrect == Spec => []TypeOK
<1>1. Types /\ Awaited => TypeOK
  <2> SUFFICES ASSUME Types, Awaited PROVE TypeOK
    OBVIOUS
  <2>1. \A x : IsFiniteSet({x}) /\ Cardinality({x}) = 1
    BY FS_Singleton
  <2>2. Cardinality({}) = 0
    BY FS_EmptySet
  <2>3. Cardinality(pendingRec) + Cardinality(query) + Cardinality(menu) <= 1
    <3>1. \A S : One(S) => Cardinality(S) = 1
      BY <2>1 DEF One
    <3>2. /\ 0 + 0 + 0 <= 1 /\ 1 + 0 + 0 <= 1 /\ 0 + 1 + 0 <= 1 /\ 0 + 0 + 1 <= 1
      OBVIOUS
    <3>3. CASE query = {} /\ menu = {} /\ (pendingRec = {} \/ One(pendingRec))
      BY <2>2, <3>1, <3>2, <3>3
    <3>4. CASE query = {} /\ pendingRec = {} /\ One(menu)
      BY <2>2, <3>1, <3>2, <3>4
    <3>5. CASE menu = {} /\ pendingRec = {} /\ One(query)
      BY <2>2, <3>1, <3>2, <3>5
    <3> QED
      BY <3>3, <3>4, <3>5 DEF Types, Exclusive
  <2>4. \A k \in owed : Underway(k)
    BY DEF Awaited
  <2> QED
    BY <2>3, <2>4 DEF TypeOK, Types, QtTypes, PageTypes
<1>2. Init => Awaited
  BY DEF Init, Awaited
<1> QED
  BY <1>1, <1>2, InitTypes, StepTypes, StepAwaited, PTL DEF Spec

----------------------------------------------------------------------------
(* The page is told of documents and files in the order in which they were   *)
(* current.                                                                  *)

IsFiles(m)    == m.type \in FileModes
IsDocument(m) == m.type = "document"
Dated(m)      == IsFiles(m) \/ IsDocument(m)
DirOf(m)      == IF IsDocument(m) THEN m.dir ELSE m.files.dir

(* Between document a, which the page has, and document b, which Qt has, the *)
(* answers q come in order, and each document is announced before its files. *)
InOrder(q, a, b) ==
    /\ a <= b
    /\ \A i \in DOMAIN q : Dated(q[i]) =>
          a <= DirOf(q[i]) /\ DirOf(q[i]) <= b /\ (IsDocument(q[i]) => a < DirOf(q[i]))
    /\ \A i, j \in DOMAIN q : i < j /\ Dated(q[i]) /\ Dated(q[j]) =>
          /\ DirOf(q[i]) <= DirOf(q[j])
          /\ IsDocument(q[j]) => DirOf(q[i]) < DirOf(q[j])
    /\ \A i \in DOMAIN q : IsFiles(q[i]) =>
          \/ DirOf(q[i]) = a
          \/ \E j \in DOMAIN q : j < i /\ IsDocument(q[j]) /\ DirOf(q[j]) = DirOf(q[i])
    /\ \/ b = a
       \/ \E j \in DOMAIN q : IsDocument(q[j]) /\ DirOf(q[j]) = b

LEMMA DatedFacts ==
    ASSUME NEW m \in Answers, Dated(m)
    PROVE  DirOf(m) \in Nat /\ ~(IsFiles(m) /\ IsDocument(m))
<1>1. IsDocument(m) => m.dir \in Nat
  BY AnswerFacts DEF IsDocument, Documents
<1>2. IsFiles(m) => m.files.dir \in Nat
  BY AnswerFacts DEF IsFiles, Documents, Files
<1>3. ~(IsFiles(m) /\ IsDocument(m))
  BY DEF IsFiles, IsDocument, FileModes
<1> QED
  BY <1>1, <1>2, <1>3 DEF Dated, DirOf

LEMMA UndatedInOrder ==
    ASSUME NEW q \in Seq(Answers), NEW a \in Nat, NEW b \in Nat, InOrder(q, a, b),
           NEW m \in Answers, ~Dated(m)
    PROVE  InOrder(Append(q, m), a, b)
<1> DEFINE r == Append(q, m)
<1>1. /\ \A i \in DOMAIN q : i \in DOMAIN r /\ r[i] = q[i]
      /\ \A i \in DOMAIN r : Dated(r[i]) => i \in DOMAIN q /\ r[i] = q[i]
  BY AppendFacts
<1> HIDE DEF r
<1>2. InOrder(r, a, b)
  BY <1>1 DEF InOrder, Dated
<1> QED
  BY <1>2 DEF r

LEMMA FilesInOrder ==
    ASSUME NEW q \in Seq(Answers), NEW a \in Nat, NEW b \in Nat, InOrder(q, a, b),
           NEW m \in Answers, IsFiles(m), DirOf(m) = b
    PROVE  InOrder(Append(q, m), a, b)
<1> DEFINE r == Append(q, m)
           n == Len(q) + 1
<1>1. /\ \A i \in DOMAIN q : i \in DOMAIN r /\ r[i] = q[i]
      /\ n \in DOMAIN r /\ r[n] = m
      /\ \A i \in DOMAIN r : \/ i \in DOMAIN q /\ r[i] = q[i] /\ i < n
                             \/ i = n /\ r[i] = m
      /\ \A i \in DOMAIN q : ~(n < i)
      /\ \A i \in DOMAIN q : i < n
      /\ ~(n < n)
  BY AppendFacts
<1>2. ~IsDocument(m) /\ Dated(m) /\ b <= b
  BY DatedFacts DEF Dated
<1> HIDE DEF r, n
<1>3. a <= b
  BY DEF InOrder
<1>4. ASSUME NEW i \in DOMAIN r, Dated(r[i])
      PROVE  a <= DirOf(r[i]) /\ DirOf(r[i]) <= b /\ (IsDocument(r[i]) => a < DirOf(r[i]))
  BY <1>1, <1>2, <1>3, <1>4 DEF InOrder
<1>5. ASSUME NEW i \in DOMAIN r, NEW j \in DOMAIN r, i < j, Dated(r[i]), Dated(r[j])
      PROVE  /\ DirOf(r[i]) <= DirOf(r[j])
             /\ IsDocument(r[j]) => DirOf(r[i]) < DirOf(r[j])
  <2>1. CASE j = n
    BY <1>1, <1>2, <1>4, <1>5, <2>1
  <2>2. CASE j # n
    BY <1>1, <1>5, <2>2 DEF InOrder
  <2> QED
    BY <2>1, <2>2
<1>6. ASSUME NEW i \in DOMAIN r, IsFiles(r[i])
      PROVE  \/ DirOf(r[i]) = a
             \/ \E j \in DOMAIN r : j < i /\ IsDocument(r[j]) /\ DirOf(r[j]) = DirOf(r[i])
  <2>1. CASE i = n
    <3>1. r[i] = m
      BY <1>1, <2>1
    <3>2. ASSUME NEW j \in DOMAIN q, IsDocument(q[j]), DirOf(q[j]) = b
          PROVE  j \in DOMAIN r /\ j < i /\ IsDocument(r[j]) /\ DirOf(r[j]) = b
      BY <1>1, <2>1, <3>2
    <3> QED
      BY <3>1, <3>2 DEF InOrder
  <2>2. CASE i # n
    BY <1>1, <1>6, <2>2 DEF InOrder
  <2> QED
    BY <2>1, <2>2
<1>7. b = a \/ \E j \in DOMAIN r : IsDocument(r[j]) /\ DirOf(r[j]) = b
  BY <1>1 DEF InOrder
<1>8. InOrder(r, a, b)
  BY <1>3, <1>4, <1>5, <1>6, <1>7 DEF InOrder
<1> QED
  BY <1>8 DEF r

LEMMA DocumentInOrder ==
    ASSUME NEW q \in Seq(Answers), NEW a \in Nat, NEW b \in Nat, InOrder(q, a, b),
           NEW m \in Answers, IsDocument(m), DirOf(m) = b + 1
    PROVE  InOrder(Append(q, m), a, b + 1)
<1> DEFINE r == Append(q, m)
           n == Len(q) + 1
<1>1. /\ \A i \in DOMAIN q : i \in DOMAIN r /\ r[i] = q[i]
      /\ n \in DOMAIN r /\ r[n] = m
      /\ \A i \in DOMAIN r : \/ i \in DOMAIN q /\ r[i] = q[i] /\ i < n
                             \/ i = n /\ r[i] = m
      /\ \A i \in DOMAIN q : ~(n < i)
      /\ ~(n < n)
  BY AppendFacts
<1>2. ~IsFiles(m) /\ Dated(m)
  BY DatedFacts DEF Dated
<1>3. a <= b /\ a <= b + 1 /\ a < b + 1
  BY DEF InOrder
<1>4. \A i \in DOMAIN q : Dated(q[i]) => DirOf(q[i]) \in Nat
  BY DatedFacts
<1> HIDE DEF r, n
<1>5. ASSUME NEW i \in DOMAIN q, Dated(q[i])
      PROVE  /\ a <= DirOf(q[i]) /\ (IsDocument(q[i]) => a < DirOf(q[i]))
             /\ DirOf(q[i]) <= b + 1 /\ DirOf(q[i]) < b + 1
  <2>1. a <= DirOf(q[i]) /\ DirOf(q[i]) <= b /\ (IsDocument(q[i]) => a < DirOf(q[i]))
    BY <1>5 DEF InOrder
  <2> QED
    BY <1>4, <1>5, <2>1
<1>6. ASSUME NEW i \in DOMAIN r, Dated(r[i])
      PROVE  a <= DirOf(r[i]) /\ DirOf(r[i]) <= b + 1 /\ (IsDocument(r[i]) => a < DirOf(r[i]))
  BY <1>1, <1>3, <1>5, <1>6
<1>7. ASSUME NEW i \in DOMAIN r, NEW j \in DOMAIN r, i < j, Dated(r[i]), Dated(r[j])
      PROVE  /\ DirOf(r[i]) <= DirOf(r[j])
             /\ IsDocument(r[j]) => DirOf(r[i]) < DirOf(r[j])
  <2>1. CASE j = n
    BY <1>1, <1>5, <1>7, <2>1
  <2>2. CASE j # n
    BY <1>1, <1>7, <2>2 DEF InOrder
  <2> QED
    BY <2>1, <2>2
<1>8. ASSUME NEW i \in DOMAIN r, IsFiles(r[i])
      PROVE  \/ DirOf(r[i]) = a
             \/ \E j \in DOMAIN r : j < i /\ IsDocument(r[j]) /\ DirOf(r[j]) = DirOf(r[i])
  BY <1>1, <1>2, <1>8 DEF InOrder
<1>9. \E j \in DOMAIN r : IsDocument(r[j]) /\ DirOf(r[j]) = b + 1
  BY <1>1
<1>10. InOrder(r, a, b + 1)
  BY <1>3, <1>6, <1>7, <1>8, <1>9 DEF InOrder
<1> QED
  BY <1>10 DEF r

(* Files that are taken belong to the document that the page has.            *)
LEMMA TakenFiles ==
    ASSUME NEW q \in Seq(Answers), q # <<>>, NEW a \in Nat, NEW b \in Nat, InOrder(q, a, b),
           IsFiles(Head(q))
    PROVE  DirOf(Head(q)) = a
<1>1. 1 \in DOMAIN q /\ Head(q) = q[1] /\ \A j \in DOMAIN q : ~(j < 1)
  OBVIOUS
<1> QED
  BY <1>1 DEF InOrder

LEMMA TakenInOrder ==
    ASSUME NEW q \in Seq(Answers), q # <<>>, NEW a \in Nat, NEW b \in Nat, InOrder(q, a, b),
           ~IsDocument(Head(q))
    PROVE  InOrder(Tail(q), a, b)
<1> DEFINE r == Tail(q)
<1>1. /\ \A j \in DOMAIN r : j + 1 \in DOMAIN q /\ r[j] = q[j + 1] /\ j \in Nat
      /\ \A i \in DOMAIN q : \/ q[i] = Head(q)
                             \/ i - 1 \in DOMAIN r /\ r[i - 1] = q[i]
      /\ DOMAIN q \subseteq Nat
  BY TailFacts
<1> HIDE DEF r
<1>2. ASSUME NEW i \in DOMAIN r, NEW j \in DOMAIN r, i < j, Dated(r[i]), Dated(r[j])
      PROVE  /\ DirOf(r[i]) <= DirOf(r[j])
             /\ IsDocument(r[j]) => DirOf(r[i]) < DirOf(r[j])
  <2>1. i + 1 < j + 1
    BY <1>1, <1>2
  <2> QED
    BY <1>1, <1>2, <2>1 DEF InOrder
<1>3. ASSUME NEW i \in DOMAIN r, IsFiles(r[i])
      PROVE  \/ DirOf(r[i]) = a
             \/ \E j \in DOMAIN r : j < i /\ IsDocument(r[j]) /\ DirOf(r[j]) = DirOf(r[i])
  <2>1. ASSUME NEW j \in DOMAIN q, j < i + 1, IsDocument(q[j]), DirOf(q[j]) = DirOf(r[i])
        PROVE  j - 1 \in DOMAIN r /\ j - 1 < i /\ r[j - 1] = q[j]
    BY <1>1, <2>1
  <2>2. \/ DirOf(r[i]) = a
        \/ \E j \in DOMAIN q : j < i + 1 /\ IsDocument(q[j]) /\ DirOf(q[j]) = DirOf(r[i])
    BY <1>1, <1>3 DEF InOrder
  <2>3. CASE \E j \in DOMAIN q : j < i + 1 /\ IsDocument(q[j]) /\ DirOf(q[j]) = DirOf(r[i])
    <3>1. PICK j \in DOMAIN q : j < i + 1 /\ IsDocument(q[j]) /\ DirOf(q[j]) = DirOf(r[i])
      BY <2>3
    <3>2. j - 1 \in DOMAIN r /\ j - 1 < i /\ r[j - 1] = q[j]
      BY <2>1, <3>1
    <3> QED
      BY <3>1, <3>2
  <2> QED
    BY <2>2, <2>3
<1>4. b = a \/ \E j \in DOMAIN r : IsDocument(r[j]) /\ DirOf(r[j]) = b
  <2>1. ASSUME NEW j \in DOMAIN q, IsDocument(q[j])
        PROVE  j - 1 \in DOMAIN r /\ r[j - 1] = q[j]
    BY <1>1, <2>1
  <2> QED
    BY <2>1 DEF InOrder
<1>5. InOrder(r, a, b)
  BY <1>1, <1>2, <1>3, <1>4 DEF InOrder
<1> QED
  BY <1>5 DEF r

LEMMA OpenedInOrder ==
    ASSUME NEW q \in Seq(Answers), q # <<>>, NEW a \in Nat, NEW b \in Nat, InOrder(q, a, b),
           IsDocument(Head(q))
    PROVE  /\ InOrder(Tail(q), DirOf(Head(q)), b)
           /\ a < DirOf(Head(q))
<1> DEFINE r == Tail(q)
           c == DirOf(Head(q))
<1>1. /\ \A j \in DOMAIN r : /\ j + 1 \in DOMAIN q /\ r[j] = q[j + 1] /\ j \in Nat
                             /\ 1 < j + 1
      /\ \A i \in DOMAIN q : \/ i = 1 /\ q[i] = Head(q)
                             \/ i - 1 \in DOMAIN r /\ r[i - 1] = q[i]
      /\ 1 \in DOMAIN q /\ q[1] = Head(q) /\ DOMAIN q \subseteq Nat
  BY TailFacts
<1>2. Dated(q[1]) /\ c \in Nat /\ c = DirOf(q[1]) /\ IsDocument(q[1])
  BY <1>1, DatedFacts DEF Dated
<1>3. \A i \in DOMAIN r : Dated(r[i]) => DirOf(r[i]) \in Nat
  BY <1>1, DatedFacts
<1> HIDE DEF r, c
<1>4. a < c /\ c <= b
  BY <1>1, <1>2 DEF InOrder
<1>5. ASSUME NEW i \in DOMAIN r, Dated(r[i])
      PROVE  c <= DirOf(r[i]) /\ DirOf(r[i]) <= b /\ (IsDocument(r[i]) => c < DirOf(r[i]))
  BY <1>1, <1>2, <1>5 DEF InOrder
<1>6. ASSUME NEW i \in DOMAIN r, NEW j \in DOMAIN r, i < j, Dated(r[i]), Dated(r[j])
      PROVE  /\ DirOf(r[i]) <= DirOf(r[j])
             /\ IsDocument(r[j]) => DirOf(r[i]) < DirOf(r[j])
  <2>1. i + 1 < j + 1
    BY <1>1, <1>6
  <2> QED
    BY <1>1, <1>6, <2>1 DEF InOrder
<1>7. ASSUME NEW i \in DOMAIN r, IsFiles(r[i])
      PROVE  \/ DirOf(r[i]) = c
             \/ \E j \in DOMAIN r : j < i /\ IsDocument(r[j]) /\ DirOf(r[j]) = DirOf(r[i])
  <2>1. Dated(r[i]) /\ c <= DirOf(r[i]) /\ DirOf(r[i]) \in Nat
    BY <1>3, <1>5, <1>7 DEF Dated
  <2>2. DirOf(r[i]) # a
    BY <1>2, <1>4, <2>1
  <2>3. PICK j \in DOMAIN q : j < i + 1 /\ IsDocument(q[j]) /\ DirOf(q[j]) = DirOf(r[i])
    BY <1>1, <1>7, <2>2 DEF InOrder
  <2>4. CASE j = 1
    BY <1>2, <2>3, <2>4
  <2>5. CASE j # 1
    <3>1. j - 1 \in DOMAIN r /\ r[j - 1] = q[j] /\ j - 1 < i
      BY <1>1, <2>3, <2>5, SMTT(30)
    <3> QED
      BY <2>3, <3>1
  <2> QED
    BY <2>4, <2>5
<1>8. b = c \/ \E j \in DOMAIN r : IsDocument(r[j]) /\ DirOf(r[j]) = b
  <2>1. b # a
    BY <1>2, <1>4
  <2>2. PICK j \in DOMAIN q : IsDocument(q[j]) /\ DirOf(q[j]) = b
    BY <2>1 DEF InOrder
  <2>3. CASE j = 1
    BY <1>2, <2>2, <2>3
  <2>4. CASE j # 1
    BY <1>1, <2>2, <2>4
  <2> QED
    BY <2>3, <2>4
<1>9. InOrder(r, c, b)
  BY <1>4, <1>5, <1>6, <1>7, <1>8 DEF InOrder
<1> QED
  BY <1>4, <1>9 DEF r, c

AnswersInOrder == InOrder(down, docDir, dir)

LEMMA UndatedFacts ==
    /\ \A k \in Lists, v \in Made : ~Dated(List(k, v))
    /\ \A k \in Blocks, ok \in BOOLEAN : ~Dated(Block(k, ok))
  BY DEF Dated, IsFiles, IsDocument, FileModes, List, Block

LEMMA FilesOfDir ==
    \A mode \in FileModes, r \in Recs, n \in Nat :
        /\ IsFiles(FilesOf(mode, r, n)) /\ DirOf(FilesOf(mode, r, n)) = dir
        /\ FilesOf(mode, r, n).type = mode /\ FilesOf(mode, r, n).rec = r
        /\ FilesOf(mode, r, n).files.ver = n
  BY DEF IsFiles, DirOf, IsDocument, FilesOf, FileModes

LEMMA StepAnswersInOrder == Types /\ AnswersInOrder /\ [Next]_vars => AnswersInOrder'
<1> SUFFICES ASSUME Types, AnswersInOrder, [Next]_vars PROVE AnswersInOrder'
  OBVIOUS
<1>0. /\ down \in Seq(Answers) /\ docDir \in Nat /\ dir \in Nat /\ dir \in Documents
      /\ InOrder(down, docDir, dir) /\ up \in Seq(Requests)
  BY DEF Types, ChannelTypes, QtTypes, PageTypes, Documents, AnswersInOrder
<1>1. ASSUME UNCHANGED <<down, docDir, dir>> PROVE AnswersInOrder'
  BY <1>1 DEF AnswersInOrder
<1>2. CASE \/ Type \/ PickRec \/ PickExport \/ PickBlock \/ StageTwo \/ PickFile \/ PickMedia
           \/ Escape \/ Timeout \/ UNCHANGED vars
  BY <1>1, <1>2 DEF Type, PickRec, PickExport, PickRecForgetting, PickFiles, PickBlock, StageTwo,
     StageTwoLeaving, PickFile, PickMedia, Escape, Dismiss, Timeout, vars, qtVars, pageVars
<1>3. CASE ReceiveList \/ ReceiveFiles \/ ReceiveBlock
  <2>1. /\ down # <<>> /\ down' = Tail(down) /\ UNCHANGED <<docDir, dir>>
        /\ ~IsDocument(Head(down))
    BY <1>3 DEF ReceiveList, ReceiveFiles, ReceiveBlock, ReceiveBlockEnding, Receiving, qtVars,
                IsDocument
  <2> QED
    BY <1>0, <2>1, TakenInOrder DEF AnswersInOrder
<1>4. CASE ReceiveDocument
  <2>1. /\ down # <<>> /\ down' = Tail(down) /\ dir' = dir /\ IsDocument(Head(down))
        /\ docDir' = DirOf(Head(down))
    BY <1>4 DEF ReceiveDocument, Receiving, qtVars, IsDocument, DirOf
  <2> QED
    BY <1>0, <2>1, OpenedInOrder DEF AnswersInOrder
<1>5. ASSUME NEW m \in Answers, down' = Append(down, m), UNCHANGED <<docDir, dir>>,
             ~Dated(m) \/ (IsFiles(m) /\ DirOf(m) = dir)
      PROVE  AnswersInOrder'
  BY <1>0, <1>5, UndatedInOrder, FilesInOrder DEF AnswersInOrder
<1>6. CASE HandleList \/ HandleExisting \/ HandleExport \/ HandleBlock
  <2>1. /\ UNCHANGED <<docDir, dir>> /\ Head(up) \in Requests
    BY <1>0, <1>6, QtFacts DEF Qt
  <2>2. CASE HandleList
    <3>1. Head(up).of \in Lists
      BY <1>0, <2>1, <2>2, RequestFacts DEF HandleList, Handling
    <3>2. down' = down \/ \E v \in Made : down' = Append(down, List(Head(up).of, v))
      BY <1>0, <2>2, ListAnswer
    <3>3. \A v \in Made : List(Head(up).of, v) \in Answers /\ ~Dated(List(Head(up).of, v))
      BY <3>1, MessageFacts, UndatedFacts
    <3> QED
      BY <1>1, <1>5, <2>1, <3>2, <3>3
  <2>3. CASE HandleExisting
    <3>1. Head(up).rec \in Recs /\ disk[Head(up).rec] \in Nat
      BY <2>1, <2>3, RequestFacts DEF HandleExisting, Handling, FileModes, Types, QtTypes
    <3>2. down' = Append(down, FilesOf("existing", Head(up).rec, disk[Head(up).rec]))
      BY <2>3 DEF HandleExisting, Emit
    <3>3. "existing" \in FileModes
      BY DEF FileModes
    <3>4. /\ FilesOf("existing", Head(up).rec, disk[Head(up).rec]) \in Answers
          /\ IsFiles(FilesOf("existing", Head(up).rec, disk[Head(up).rec]))
          /\ DirOf(FilesOf("existing", Head(up).rec, disk[Head(up).rec])) = dir
      BY <1>0, <3>1, <3>3, FilesOfFacts, FilesOfDir
    <3> QED
      BY <1>5, <2>1, <3>2, <3>4
  <2>4. CASE HandleExport
    BY <1>1, <2>1, <2>4 DEF HandleExport
  <2>5. CASE HandleBlock
    <3>1. Head(up).of \in Blocks
      BY <2>1, <2>5, RequestFacts DEF HandleBlock, AnswerBlock, LosePhoto, Handling
    <3>2. down' = down \/ \E ok \in BOOLEAN : down' = Append(down, Block(Head(up).of, ok))
      BY <2>5, BlockAnswer
    <3> QED
      BY <1>1, <1>5, <2>1, <3>1, <3>2, MessageFacts, UndatedFacts
  <2> QED
    BY <1>6, <2>2, <2>3, <2>4, <2>5
<1>7. CASE EndExport
  <2> DEFINE r == exporting[Len(exporting)]
  <2>1. r \in Recs /\ disk[r] + 1 \in Nat /\ 0 \in Nat
    BY <1>7 DEF EndExport, Types, QtTypes
  <2>2. \E n \in Nat : down' = Append(down, FilesOf("exported", r, n))
    BY <1>7, <2>1 DEF EndExport, Emit
  <2>3. "exported" \in FileModes
    BY DEF FileModes
  <2>4. UNCHANGED <<docDir, dir>>
    BY <1>7 DEF EndExport, pageVars
  <2> HIDE DEF r
  <2>5. ASSUME NEW n \in Nat
        PROVE  /\ FilesOf("exported", r, n) \in Answers
               /\ IsFiles(FilesOf("exported", r, n)) /\ DirOf(FilesOf("exported", r, n)) = dir
    BY <1>0, <2>1, <2>3, FilesOfFacts, FilesOfDir
  <2> QED
    BY <1>5, <2>2, <2>4, <2>5
<1>8. CASE Open
  <2>1. dir' = dir + 1 /\ down' = Append(down, Document(dir')) /\ docDir' = docDir
    BY <1>8 DEF Open, Emit, pageVars
  <2>2. dir' \in Documents
    BY <1>8, OpenTypes DEF Types, QtTypes
  <2>3. /\ Document(dir') \in Answers /\ IsDocument(Document(dir'))
        /\ DirOf(Document(dir')) = dir + 1
    BY <2>1, <2>2, MessageFacts DEF IsDocument, Document, DirOf
  <2> QED
    BY <1>0, <2>1, <2>3, DocumentInOrder DEF AnswersInOrder
<1> QED
  BY <1>2, <1>3, <1>4, <1>6, <1>7, <1>8 DEF Next, Page, Qt, User

----------------------------------------------------------------------------
(* Picks get what was there when they were made.                            *)

(* The picks that wait to be shown. *)
Waiting == pendingRec \cup {q.q : q \in {x \in query : x.type = "files"}}

(* Nothing was under way for the recording when p was picked, and the page   *)
(* has had no other document since.                                          *)
Clear(p) == p.alone /\ p.at = docDir

(* An answer that suits p; an export that failed has no files. *)
Suits(p, type, f) ==
    /\ p.mode = "existing" => type = "existing" /\ p.since <= f.ver
    /\ p.mode = "exported" /\ type = "exported" => f.ver = 0 \/ p.since <= f.ver

(* While p waits, all that comes of its recording suits it. *)
Serving(p) ==
    /\ p.mode = "existing" =>
          /\ p.since <= disk[p.rec]
          /\ \A i \in DOMAIN up : ~(up[i].type = "exported" /\ up[i].rec = p.rec)
          /\ \A i \in DOMAIN exporting : exporting[i] # p.rec
    /\ p.mode = "exported" => p.since <= disk[p.rec] + 1
    /\ \A i \in DOMAIN down : IsFiles(down[i]) /\ down[i].rec = p.rec =>
          Suits(p, down[i].type, down[i].files)

Known(p) == IF p.mode = "existing" THEN existing[p.rec] ELSE exports[p.rec]

KnownSuits(p) == \A f \in Known(p) : f.dir = docDir /\ Suits(p, p.mode, f)

Served ==
    /\ \A p \in Waiting : p.at <= docDir /\ (Clear(p) => Serving(p))
    /\ \A p \in pendingRec : Clear(p) => KnownSuits(p)
    /\ \A m \in menu : m.type = "files" => m.q.at <= docDir

MenuInv == Types /\ Awaited /\ AnswersInOrder /\ Served /\ FreshFiles

LEMMA PickFacts ==
    ASSUME NEW p \in Picks
    PROVE  /\ p.mode \in {"existing", "exported"} /\ p.rec \in Recs /\ p.since \in Nat
           /\ p.at \in Nat
  BY DEF Picks, Documents

LEMMA WaitingFacts ==
    ASSUME Types
    PROVE  /\ Waiting \subseteq Picks
           /\ query # {} => pendingRec = {} /\ menu = {}
           /\ menu # {} => Waiting = {} /\ pendingRec = {} /\ query = {}
<1>1. \A q \in query : q.type = "files" => q.q \in Picks
  BY CallFacts DEF Types, PageTypes
<1>2. query # {} => pendingRec = {} /\ menu = {}
  BY DEF Types, Exclusive
<1>3. menu # {} => pendingRec = {} /\ query = {}
  BY DEF Types, Exclusive, One
<1> QED
  BY <1>1, <1>2, <1>3 DEF Waiting, Types, PageTypes

(* Nobody waits, and no files are offered. *)
LEMMA IdleServed ==
    ASSUME pendingRec' = {}, \A q \in query' : q.type = "lists",
           \A m \in menu' : m.type = "lists"
    PROVE  (Served /\ FreshFiles)'
<1>1. Waiting' = {}
  BY DEF Waiting
<1> QED
  BY <1>1 DEF Served, FreshFiles

(* The page stays as it is. *)
LEMMA KeptServed ==
    ASSUME Types, Served, FreshFiles,
           UNCHANGED <<pendingRec, query, menu, existing, exports, docDir>>,
           \A p \in Picks : Serving(p) => Serving(p)'
    PROVE  (Served /\ FreshFiles)'
<1>1. Waiting' = Waiting /\ Waiting \subseteq Picks
  BY WaitingFacts DEF Waiting
<1> QED
  BY <1>1 DEF Served, FreshFiles, Clear, KnownSuits, Known

LEMMA TakenServing ==
    ASSUME Types, NEW types, Receiving(types), UNCHANGED <<disk, exporting, up>>,
           NEW p \in Picks, Serving(p)
    PROVE  Serving(p)'
<1>1. down \in Seq(Answers) /\ down # <<>> /\ down' = Tail(down)
  BY DEF Receiving, Types, ChannelTypes
<1>2. \A j \in DOMAIN down' : j + 1 \in DOMAIN down /\ down'[j] = down[j + 1]
  BY <1>1, TailFacts
<1>3. \A i \in DOMAIN down' : IsFiles(down'[i]) /\ down'[i].rec = p.rec =>
         Suits(p, down'[i].type, down'[i].files)
  BY <1>2 DEF Serving
<1> QED
  BY <1>3 DEF Serving

LEMMA ListsServed ==
    ASSUME MenuInv, Type \/ Timeout \/ ReceiveList
    PROVE  (Served /\ FreshFiles)'
<1> USE DEF MenuInv
<1>1. CASE Type
  <2>1. pendingRec' = pendingRec /\ pendingRec = {}
    BY <1>1 DEF Type
  <2>2. PICK cmd \in DOMAIN Needs :
           Ask(cmd, [k \in {Needs[cmd][i] : i \in DOMAIN Needs[cmd]}
                              \cap {k \in Lists : lists[k] # {}} |-> lists[k]])
    BY <1>1 DEF Type
  <2> DEFINE K == {Needs[cmd][i] : i \in DOMAIN Needs[cmd]} \cap {k \in Lists : lists[k] # {}}
  <2>3. [k \in K |-> lists[k]] \in [K -> Made] /\ K \in SUBSET Lists
    BY DEF Types, PageTypes
  <2>4. [k \in K |-> lists[k]] \in Got
    BY <2>3 DEF Got
  <2>5. AsksOnly
    BY <2>2, <2>4, AskFacts
  <2> QED
    BY <2>1, <2>5, IdleServed DEF AsksOnly
<1>2. ASSUME NEW k \in Lists, NEW v \in Made, Resolve(k, v),
             UNCHANGED <<pendingRec, existing, exports, docDir>>,
             \A p \in Picks : Serving(p) => Serving(p)'
      PROVE  (Served /\ FreshFiles)'
  <2>1. CASE query # {} /\ AsksOnly
    <3>1. pendingRec' = {}
      BY <1>2, <2>1, WaitingFacts
    <3> QED
      BY <2>1, <3>1, IdleServed DEF AsksOnly
  <2>2. CASE UNCHANGED <<query, menu>>
    BY <1>2, <2>2, KeptServed
  <2> QED
    BY <1>2, <2>1, <2>2, ResolveFacts, QueryOne DEF Types
<1>3. CASE Timeout
  <2>1. PICK k \in Lists : Resolve(k, lists[k])
    BY <1>3 DEF Timeout
  <2>2. lists[k] \in Made /\ UNCHANGED <<pendingRec, existing, exports, docDir>>
    BY <1>3 DEF Timeout, Types, PageTypes
  <2>3. \A p \in Picks : Serving(p) => Serving(p)'
    BY <1>3 DEF Timeout, qtVars, Serving
  <2> QED
    BY <1>2, <2>1, <2>2, <2>3
<1>4. CASE ReceiveList
  <2>1. Receiving({"list"}) /\ Resolve(Head(down).of, Head(down).made)
    BY <1>4 DEF ReceiveList
  <2>2. Head(down).of \in Lists /\ Head(down).made \in Made
    BY <2>1, ReceivedFacts, AnswerFacts
  <2>3. UNCHANGED <<pendingRec, existing, exports, docDir>> /\ UNCHANGED <<disk, exporting, up>>
    BY <1>4 DEF ReceiveList, qtVars
  <2>4. \A p \in Picks : Serving(p) => Serving(p)'
    BY <2>1, <2>3, TakenServing
  <2> QED
    BY <1>2, <2>1, <2>2, <2>3, <2>4
<1> QED
  BY <1>1, <1>3, <1>4

LEMMA LeavingServed ==
    ASSUME MenuInv, PickBlock \/ PickFile \/ PickMedia \/ Escape
    PROVE  (Served /\ FreshFiles)'
<1>1. menu' = {} /\ pendingRec' = pendingRec /\ (menu # {} \/ query # {})
      /\ query' \in {query, {}}
  BY DEF PickBlock, PickFile, PickMedia, Escape, Dismiss
<1>2. query' = {} /\ pendingRec' = {}
  <2>1. pendingRec = {} /\ (menu # {} => query = {})
    BY <1>1, WaitingFacts DEF MenuInv
  <2>2. query # {} /\ menu = {} => query' = {}
    BY DEF PickBlock, PickFile, PickMedia, Escape, Dismiss
  <2> QED
    BY <1>1, <2>1, <2>2
<1> QED
  BY <1>1, <1>2, IdleServed

(* A suitable answer makes a fresh menu. *)
LEMMA ShownServed ==
    ASSUME MenuInv, NEW q \in Picks, q \in Waiting, NEW f \in Files, Show(q, f),
           pendingRec' = {}, docDir' = docDir,
           Clear(q) => f.dir = docDir /\ Suits(q, q.mode, f)
    PROVE  (Served /\ FreshFiles)'
<1>1. /\ query' = {} /\ q.at <= docDir /\ q.since \in Nat
      /\ \A m \in menu' : m.q = q /\ m.files = f /\ ~(q.mode = "exported" /\ f.ver = 0)
  BY ShowFacts, PickFacts DEF MenuInv, Served
<1>2. Waiting' = {}
  BY <1>1 DEF Waiting
<1>3. f.ver \in Nat /\ q.mode \in {"existing", "exported"}
  BY PickFacts DEF Files
<1>4. ASSUME NEW m \in menu', m.q.alone, m.q.at = docDir'
      PROVE  m.files.ver >= m.q.since /\ m.files.dir = docDir'
  <2>1. m.q = q /\ m.files = f /\ ~(q.mode = "exported" /\ f.ver = 0)
    BY <1>1
  <2>2. f.dir = docDir /\ Suits(q, q.mode, f)
    BY <1>4, <2>1 DEF Clear
  <2>3. q.since <= f.ver
    BY <1>3, <2>1, <2>2 DEF Suits
  <2> QED
    BY <1>1, <1>3, <2>1, <2>2, <2>3
<1>5. \A m \in menu' : m.q.at <= docDir'
  BY <1>1
<1> QED
  BY <1>2, <1>4, <1>5 DEF Served, FreshFiles

LEMMA StageTwoServed ==
    ASSUME MenuInv, StageTwo
    PROVE  (Served /\ FreshFiles)'
<1> USE DEF MenuInv
<1>1. /\ pendingRec' = {} /\ UNCHANGED <<docDir, lists, existing, exports, blockVars>>
      /\ UNCHANGED <<qtVars, down, up, acts>>
  BY DEF StageTwo, StageTwoLeaving
<1>2. PICK q \in pendingRec :
         LET known == IF q.mode = "existing" THEN existing[q.rec] ELSE exports[q.rec] IN
         IF known # {} THEN \E f \in known : Show(q, f)
         ELSE query' = {[type |-> "files", q |-> q]} /\ menu' = {}
  BY DEF StageTwo, StageTwoLeaving
<1>3. q \in Picks /\ q \in Waiting /\ q.rec \in Recs
  BY PickFacts DEF Types, PageTypes, Waiting
<1>4. Known(q) \subseteq Files
  BY <1>3 DEF Types, PageTypes, Known
<1>5. CASE query' = {[type |-> "files", q |-> q]} /\ menu' = {}
  <2> DEFINE call == [type |-> "files", q |-> q]
  <2>0. query' = {call} /\ call.type = "files" /\ call.q = q
    BY <1>5
  <2> HIDE DEF call
  <2>1. Waiting' = {q}
    BY <1>1, <2>0 DEF Waiting
  <2>2. q.at <= docDir' /\ (Clear(q)' => Serving(q)')
    BY <1>1, <1>3 DEF Served, Clear, Serving, qtVars
  <2> QED
    BY <1>1, <1>5, <2>1, <2>2 DEF Served, FreshFiles
<1>6. ASSUME NEW f \in Known(q), Show(q, f) PROVE (Served /\ FreshFiles)'
  <2>1. Clear(q) => f.dir = docDir /\ Suits(q, q.mode, f)
    BY <1>6 DEF Served, KnownSuits
  <2> QED
    BY <1>1, <1>3, <1>4, <1>6, <2>1, ShownServed
<1> QED
  BY <1>2, <1>5, <1>6 DEF Known

LEMMA PickFilesServed ==
    ASSUME MenuInv, menu # {}, NEW mode \in FileModes, NEW r \in Recs, NEW since \in Nat,
           PickFiles(mode, r, since),
           mode = "existing" => since <= disk[r] /\ existing'[r] = {},
           mode = "exported" => since <= disk[r] + 1 /\ exports'[r] = {}
    PROVE  (Served /\ FreshFiles)'
<1> USE DEF MenuInv
<1>0. PICK p : p = [mode |-> mode, rec |-> r, since |-> since, alone |-> Unasked(r),
                    at |-> docDir]
  OBVIOUS
<1>1. /\ pendingRec' = {p} /\ menu' = {} /\ up' = up \o <<FilesRequest(mode, r)>>
      /\ UNCHANGED <<qtVars, down, docDir, lists, query, blockVars, acts>>
  BY <1>0 DEF PickFiles, Send
<1>2. p.mode = mode /\ p.rec = r /\ p.since = since /\ p.at = docDir /\ (p.alone => Unasked(r))
  BY <1>0
<1>3. query' = {} /\ docDir \in Nat
  BY <1>1, WaitingFacts DEF Types, PageTypes, Documents
<1>4. Waiting' = {p}
  BY <1>1, <1>3 DEF Waiting
<1>5. ASSUME Unasked(r) PROVE Serving(p)'
  <2>1. /\ \A i \in DOMAIN up : IsFiles(up[i]) => up[i].rec # r
        /\ \A i \in DOMAIN down : IsFiles(down[i]) => down[i].rec # r
        /\ \A i \in DOMAIN exporting : exporting[i] # r
    BY <1>5 DEF Unasked, IsFiles, FileModes
  <2>2. UNCHANGED <<down, exporting, disk>>
    BY <1>1 DEF qtVars
  <2>3. ASSUME mode = "existing", NEW i \in DOMAIN up'
        PROVE  ~(up'[i].type = "exported" /\ up'[i].rec = r)
    <3>1. FilesRequest(mode, r) \in Requests /\ FilesRequest(mode, r).type = mode
      BY MessageFacts DEF FilesRequest
    <3>2. up \in Seq(Requests) /\ <<FilesRequest(mode, r)>> \in Seq(Requests)
      BY <3>1 DEF Types, ChannelTypes
    <3>3. \/ i \in DOMAIN up /\ up'[i] = up[i]
          \/ \E j \in DOMAIN <<FilesRequest(mode, r)>> :
                up'[i] = <<FilesRequest(mode, r)>>[j]
      BY <1>1, <2>3, <3>2, LongerFacts
    <3>4. \/ i \in DOMAIN up /\ up'[i] = up[i]
          \/ up'[i].type = "existing"
      BY <2>3, <3>1, <3>3
    <3> QED
      BY <2>1, <3>4 DEF IsFiles, FileModes
  <2>4. \A i \in DOMAIN down' : ~(IsFiles(down'[i]) /\ down'[i].rec = p.rec)
    BY <1>2, <2>1, <2>2
  <2> QED
    BY <1>2, <2>1, <2>2, <2>3, <2>4 DEF Serving, FileModes
<1>6. Clear(p)' => KnownSuits(p)'
  BY <1>2 DEF KnownSuits, Known, FileModes
<1>7. p.at <= docDir' /\ (Clear(p)' => Serving(p)')
  BY <1>1, <1>2, <1>3, <1>5 DEF Clear
<1> QED
  BY <1>1, <1>4, <1>6, <1>7 DEF Served, FreshFiles

LEMMA PickRecServed ==
    ASSUME MenuInv, PickRec \/ PickExport
    PROVE  (Served /\ FreshFiles)'
<1>0. /\ disk \in [Recs -> Nat] /\ existing \in [Recs -> SUBSET Files]
      /\ exports \in [Recs -> SUBSET Files]
  BY DEF MenuInv, Types, QtTypes, PageTypes
<1>1. CASE PickRec
  <2>1. PICK r \in Recs : /\ menu # {} /\ PickFiles("existing", r, disk[r])
                          /\ existing' = [existing EXCEPT ![r] = {}]
    BY <1>1 DEF PickRec, PickRecForgetting
  <2>2. "existing" \in FileModes /\ disk[r] \in Nat /\ disk[r] <= disk[r] /\ existing'[r] = {}
    BY <1>0, <2>1 DEF FileModes
  <2> QED
    BY <2>1, <2>2, PickFilesServed
<1>2. CASE PickExport
  <2>1. PICK m \in menu : /\ m.type = "files"
                          /\ PickFiles("exported", m.q.rec, disk[m.q.rec] + 1)
                          /\ exports' = [exports EXCEPT ![m.q.rec] = {}]
    BY <1>2 DEF PickExport
  <2>2. m.q.rec \in Recs
    BY <2>1, MenuFacts, PickFacts DEF MenuInv, Types, PageTypes
  <2>3. /\ "exported" \in FileModes /\ disk[m.q.rec] + 1 \in Nat
        /\ disk[m.q.rec] + 1 <= disk[m.q.rec] + 1 /\ exports'[m.q.rec] = {}
    BY <1>0, <2>1, <2>2 DEF FileModes
  <2> QED
    BY <2>1, <2>2, <2>3, PickFilesServed
<1> QED
  BY <1>1, <1>2

LEMMA ReceiveFilesServed ==
    ASSUME MenuInv, ReceiveFiles
    PROVE  (Served /\ FreshFiles)'
<1> USE DEF MenuInv
<1> DEFINE m == Head(down)
<1>1. /\ Receiving({"existing", "exported"})
      /\ existing' = [existing EXCEPT ![m.rec] = {m.files}]
      /\ exports' = IF m.type = "exported" THEN [exports EXCEPT ![m.rec] = {m.files}] ELSE exports
      /\ IF \E q \in query : q.type = "files" /\ q.q.mode = m.type /\ q.q.rec = m.rec
         THEN \E q \in query : Show(q.q, m.files)
         ELSE UNCHANGED <<query, menu>>
      /\ UNCHANGED <<docDir, pendingRec>> /\ UNCHANGED <<disk, exporting, up>>
  BY DEF ReceiveFiles, qtVars
<1>2. /\ m \in Answers /\ m.type \in FileModes /\ down # <<>> /\ IsFiles(m)
      /\ m.rec \in Recs /\ m.files \in Files /\ 1 \in DOMAIN down /\ m = down[1]
  <2>1. m \in Answers /\ m.type \in FileModes /\ down # <<>> /\ down \in Seq(Answers)
    BY <1>1, ReceivedFacts DEF FileModes, Types, ChannelTypes
  <2> QED
    BY <2>1, AnswerFacts DEF IsFiles
<1>3. m.files.dir = docDir
  <2>1. /\ down \in Seq(Answers) /\ docDir \in Nat /\ dir \in Nat /\ InOrder(down, docDir, dir)
    BY DEF Types, ChannelTypes, QtTypes, PageTypes, Documents, AnswersInOrder
  <2>2. DirOf(m) = docDir
    BY <1>2, <2>1, TakenFiles
  <2>3. ~IsDocument(m)
    BY <1>2 DEF IsDocument, FileModes
  <2> QED
    BY <2>2, <2>3 DEF DirOf
<1>4. \A p \in Picks : Serving(p) /\ p.rec = m.rec => Suits(p, m.type, m.files)
  BY <1>2 DEF Serving
<1>5. \A p \in Picks : Serving(p) => Serving(p)'
  BY <1>1, TakenServing
<1> HIDE DEF m
<1>6. CASE \E q \in query : q.type = "files" /\ q.q.mode = m.type /\ q.q.rec = m.rec
  <2>1. PICK q \in query : Show(q.q, m.files)
    BY <1>1, <1>6
  <2>2. q.type = "files" /\ q.q.mode = m.type /\ q.q.rec = m.rec
    BY <1>6, <2>1, QueryOne DEF One, Types
  <2>3. q.q \in Waiting /\ q.q \in Picks /\ pendingRec' = {}
    BY <1>1, <2>1, <2>2, WaitingFacts DEF Waiting
  <2>4. Clear(q.q) => m.files.dir = docDir /\ Suits(q.q, q.q.mode, m.files)
    BY <1>3, <1>4, <2>2, <2>3 DEF Served
  <2> QED
    BY <1>1, <1>2, <2>1, <2>3, <2>4, ShownServed
<1>7. CASE UNCHANGED <<query, menu>>
  <2>1. Waiting' = Waiting /\ Waiting \subseteq Picks /\ pendingRec \subseteq Waiting
    BY <1>1, <1>7, WaitingFacts DEF Waiting
  <2>2. ASSUME NEW p \in pendingRec, Clear(p)' PROVE KnownSuits(p)'
    <3>1. Clear(p) /\ Serving(p) /\ KnownSuits(p) /\ p \in Picks
      BY <1>1, <2>1, <2>2 DEF Served, Clear
    <3>2. p.mode \in {"existing", "exported"} /\ p.rec \in Recs
      BY <3>1, PickFacts
    <3>3. ASSUME NEW f \in Known(p)' PROVE f.dir = docDir /\ Suits(p, p.mode, f)
      <4>1. CASE f \in Known(p)
        BY <3>1, <4>1 DEF KnownSuits
      <4>2. CASE f \notin Known(p)
        <5>1. p.rec = m.rec /\ f = m.files /\ (p.mode = "exported" => m.type = "exported")
          BY <1>1, <1>2, <3>2, <3>3, <4>2 DEF Known, Types, PageTypes
        <5>2. Suits(p, m.type, f)
          BY <1>4, <3>1, <5>1
        <5>3. Suits(p, p.mode, f)
          BY <3>2, <5>1, <5>2 DEF Suits
        <5> QED
          BY <1>3, <5>1, <5>3
      <4> QED
        BY <4>1, <4>2
    <3> QED
      BY <1>1, <3>3 DEF KnownSuits, Suits
  <2> QED
    BY <1>1, <1>5, <1>7, <2>1, <2>2 DEF Served, FreshFiles, Clear
<1> QED
  BY <1>1, <1>6, <1>7

LEMMA ReceiveOtherServed ==
    ASSUME MenuInv, ReceiveBlock \/ ReceiveDocument
    PROVE  (Served /\ FreshFiles)'
<1> USE DEF MenuInv
<1>1. CASE ReceiveBlock
  <2>1. Receiving({"block"}) /\ UNCHANGED <<disk, exporting, up>>
    BY <1>1 DEF ReceiveBlock, ReceiveBlockEnding, qtVars
  <2>2. \A p \in Picks : Serving(p) => Serving(p)'
    BY <2>1, TakenServing
  <2>3. UNCHANGED <<pendingRec, query, menu, existing, exports, docDir>>
    BY <1>1 DEF ReceiveBlock, ReceiveBlockEnding
  <2> QED
    BY <2>2, <2>3, KeptServed
<1>2. CASE ReceiveDocument
  <2>1. /\ down # <<>> /\ IsDocument(Head(down)) /\ docDir' = DirOf(Head(down))
        /\ pendingRec' = pendingRec /\ (menu' = menu \/ menu' = {}) /\ (query' = query \/ query' = {})
    BY <1>2 DEF ReceiveDocument, Receiving, IsDocument, DirOf
  <2>2. docDir < docDir' /\ docDir \in Nat /\ docDir' \in Nat
    <3>1. /\ down \in Seq(Answers) /\ docDir \in Nat /\ dir \in Nat /\ InOrder(down, docDir, dir)
      BY DEF Types, ChannelTypes, QtTypes, PageTypes, Documents, AnswersInOrder
    <3>2. Head(down) \in Answers
      BY <2>1, <3>1
    <3> QED
      BY <2>1, <3>1, <3>2, OpenedInOrder, DatedFacts DEF Dated
  <2>3. \A p \in Waiting' : p \in Waiting /\ p \in Picks
    BY <2>1, WaitingFacts DEF Waiting
  <2>4. \A p \in Waiting' : p.at <= docDir' /\ p.at # docDir'
    BY <2>2, <2>3, PickFacts DEF Served
  <2>5. \A m \in menu' : m.type = "files" => m.q.at <= docDir' /\ m.q.at # docDir'
    <3>1. \A m \in menu : m.type = "files" => m.q.at <= docDir /\ m.q.at \in Nat
      BY MenuFacts, PickFacts DEF Served, Types, PageTypes
    <3> QED
      BY <2>1, <2>2, <3>1
  <2>6. pendingRec' \subseteq Waiting'
    BY DEF Waiting
  <2> QED
    BY <2>4, <2>5, <2>6 DEF Served, FreshFiles, Clear
<1> QED
  BY <1>1, <1>2

LEMMA QtServing ==
    ASSUME MenuInv, Qt, NEW p \in Picks, Serving(p)
    PROVE  Serving(p)'
<1> USE DEF MenuInv
<1>1. /\ up \in Seq(Requests) /\ up # <<>> /\ up' = Tail(up) /\ down \in Seq(Answers)
      /\ disk \in [Recs -> Nat] /\ exporting \in Seq(Recs) /\ Head(up) \in Requests
      /\ Head(up) = up[1] /\ 1 \in DOMAIN up
  BY QtFacts DEF Types, ChannelTypes, QtTypes
<1>2. disk' = disk /\ p.rec \in Recs
  BY PickFacts, QtFacts
<1>3. \A i \in DOMAIN up' : i + 1 \in DOMAIN up /\ up'[i] = up[i + 1]
  BY <1>1, TailFacts
<1>4. ASSUME p.mode = "existing", NEW i \in DOMAIN exporting' PROVE exporting'[i] # p.rec
  <2>1. CASE exporting' = exporting
    BY <1>4, <2>1 DEF Serving
  <2>2. CASE HandleExport
    <3>1. Head(up).type = "exported" /\ exporting' = Append(exporting, Head(up).rec)
      BY <2>2 DEF HandleExport, Handling
    <3>2. Head(up).rec # p.rec
      BY <1>1, <1>4, <3>1 DEF Serving
    <3>3. Head(up).rec \in Recs
      BY <1>1, <3>1, RequestFacts DEF FileModes
    <3>4. \/ i \in DOMAIN exporting /\ exporting'[i] = exporting[i]
          \/ exporting'[i] = Head(up).rec
      BY <1>1, <1>4, <3>1, <3>3, AppendFacts
    <3> QED
      BY <1>4, <3>2, <3>4 DEF Serving
  <2> QED
    BY <2>1, <2>2, QtFacts
<1>5. ASSUME NEW i \in DOMAIN down', IsFiles(down'[i]), down'[i].rec = p.rec
      PROVE  Suits(p, down'[i].type, down'[i].files)
  <2>1. ASSUME NEW m \in Answers, down' = Append(down, m),
               IsFiles(m) /\ m.rec = p.rec => Suits(p, m.type, m.files)
        PROVE  Suits(p, down'[i].type, down'[i].files)
    <3>1. \/ i \in DOMAIN down /\ down'[i] = down[i]
          \/ down'[i] = m
      BY <1>1, <1>5, <2>1, AppendFacts
    <3> QED
      BY <1>5, <2>1, <3>1 DEF Serving
  <2>2. CASE down' = down
    BY <1>5, <2>2 DEF Serving
  <2>3. CASE HandleList
    <3>1. Head(up).of \in Lists
      BY <1>1, <2>3, RequestFacts DEF HandleList, Handling
    <3>2. down' = down \/ \E v \in Made : down' = Append(down, List(Head(up).of, v))
      BY <2>3, ListAnswer
    <3>3. \A v \in Made : List(Head(up).of, v) \in Answers /\ ~IsFiles(List(Head(up).of, v))
      BY <3>1, MessageFacts, UndatedFacts DEF Dated
    <3> QED
      BY <2>1, <2>2, <3>2, <3>3
  <2>4. CASE HandleExisting
    <3> DEFINE r == Head(up).rec
    <3>1. r \in Recs /\ disk[r] \in Nat /\ "existing" \in FileModes
      BY <1>1, <2>4, RequestFacts DEF HandleExisting, Handling, FileModes
    <3>2. down' = Append(down, FilesOf("existing", r, disk[r]))
      BY <2>4 DEF HandleExisting, Emit
    <3> HIDE DEF r
    <3>3. /\ FilesOf("existing", r, disk[r]) \in Answers
          /\ FilesOf("existing", r, disk[r]).type = "existing"
          /\ FilesOf("existing", r, disk[r]).rec = r
          /\ FilesOf("existing", r, disk[r]).files.ver = disk[r]
      BY <3>1, FilesOfFacts, FilesOfDir DEF Types, QtTypes
    <3>4. ASSUME r = p.rec PROVE Suits(p, "existing", FilesOf("existing", r, disk[r]).files)
      BY <3>3, <3>4 DEF Suits, Serving
    <3> QED
      BY <2>1, <3>2, <3>3, <3>4
  <2>5. CASE HandleExport
    BY <2>2, <2>5 DEF HandleExport
  <2>6. CASE HandleBlock
    <3>1. Head(up).of \in Blocks
      BY <1>1, <2>6, RequestFacts DEF HandleBlock, AnswerBlock, LosePhoto, Handling
    <3>2. down' = down \/ \E ok \in BOOLEAN : down' = Append(down, Block(Head(up).of, ok))
      BY <2>6, BlockAnswer
    <3>3. \A ok \in BOOLEAN :
             Block(Head(up).of, ok) \in Answers /\ ~IsFiles(Block(Head(up).of, ok))
      BY <3>1, MessageFacts, UndatedFacts DEF Dated
    <3> QED
      BY <2>1, <2>2, <3>2, <3>3
  <2> QED
    BY <2>3, <2>4, <2>5, <2>6 DEF Qt
<1>6. p.mode = "existing" => \A i \in DOMAIN up' : ~(up'[i].type = "exported" /\ up'[i].rec = p.rec)
  BY <1>3 DEF Serving
<1> QED
  BY <1>2, <1>4, <1>5, <1>6 DEF Serving

LEMMA EndExportServing ==
    ASSUME MenuInv, EndExport, NEW p \in Picks, Serving(p)
    PROVE  Serving(p)'
<1> USE DEF MenuInv
<1> DEFINE r == exporting[Len(exporting)]
<1>1. /\ exporting \in Seq(Recs) /\ exporting # <<>> /\ r \in Recs
      /\ Len(exporting) \in DOMAIN exporting /\ disk \in [Recs -> Nat]
      /\ down \in Seq(Answers) /\ up' = up
      /\ \/ disk' = [disk EXCEPT ![r] = @ + 1] /\ Emit(FilesOf("exported", r, disk[r] + 1))
         \/ UNCHANGED disk /\ Emit(FilesOf("exported", r, 0))
      /\ exporting' = SubSeq(exporting, 1, Len(exporting) - 1)
  BY DEF EndExport, Types, QtTypes, ChannelTypes
<1>2. p.mode = "existing" => r # p.rec
  BY <1>1 DEF Serving
<1> HIDE DEF r
<1>3. \A i \in DOMAIN exporting' : i \in DOMAIN exporting /\ exporting'[i] = exporting[i]
  BY <1>1
<1>4. /\ p.rec \in Recs /\ p.since \in Nat /\ disk[p.rec] \in Nat /\ disk'[p.rec] \in Nat
      /\ disk[p.rec] <= disk'[p.rec] /\ (r # p.rec => disk'[p.rec] = disk[p.rec])
  BY <1>1, PickFacts
<1>5. PICK n \in {0, disk[r] + 1} : down' = Append(down, FilesOf("exported", r, n))
  BY <1>1 DEF Emit
<1>6. /\ FilesOf("exported", r, n) \in Answers
      /\ FilesOf("exported", r, n).type = "exported"
      /\ FilesOf("exported", r, n).rec = r
      /\ FilesOf("exported", r, n).files.ver = n
  <2>1. "exported" \in FileModes /\ n \in Nat
    BY <1>1, <1>5 DEF FileModes
  <2> QED
    BY <1>1, <2>1, FilesOfFacts, FilesOfDir DEF Types, QtTypes
<1>7. ASSUME r = p.rec PROVE Suits(p, "exported", FilesOf("exported", r, n).files)
  <2>1. p.mode = "exported"
    BY <1>2, <1>7, PickFacts
  <2>2. p.since <= disk[r] + 1
    BY <1>7, <2>1 DEF Serving
  <2> QED
    BY <1>5, <1>6, <2>1, <2>2 DEF Suits
<1>8. ASSUME NEW i \in DOMAIN down', IsFiles(down'[i]), down'[i].rec = p.rec
      PROVE  Suits(p, down'[i].type, down'[i].files)
  <2>1. \/ i \in DOMAIN down /\ down'[i] = down[i]
        \/ down'[i] = FilesOf("exported", r, n)
    BY <1>1, <1>5, <1>6, <1>8, AppendFacts
  <2> QED
    BY <1>6, <1>7, <1>8, <2>1 DEF Serving
<1>9. p.mode = "exported" => p.since <= disk'[p.rec] + 1
  BY <1>4 DEF Serving
<1>10. p.mode = "existing" => p.since <= disk'[p.rec]
  BY <1>4 DEF Serving
<1> QED
  BY <1>1, <1>3, <1>8, <1>9, <1>10 DEF Serving

LEMMA OpenServing ==
    ASSUME MenuInv, Open, NEW p \in Picks, Serving(p)
    PROVE  Serving(p)'
<1>1. /\ down \in Seq(Answers) /\ UNCHANGED <<disk, exporting, up>>
      /\ down' = Append(down, Document(dir'))
  BY DEF Open, Emit, MenuInv, Types, ChannelTypes
<1>2. Document(dir') \in Answers /\ ~IsFiles(Document(dir'))
  <2>1. dir' \in Documents
    BY OpenTypes DEF MenuInv, Types, QtTypes
  <2> QED
    BY <2>1, MessageFacts DEF IsFiles, Document, FileModes
<1>3. \A i \in DOMAIN down' : IsFiles(down'[i]) => i \in DOMAIN down /\ down'[i] = down[i]
  BY <1>1, <1>2, AppendFacts
<1> QED
  BY <1>1, <1>3 DEF Serving

LEMMA StepServed == MenuInv /\ [Next]_vars => (Served /\ FreshFiles)'
<1> SUFFICES ASSUME MenuInv, [Next]_vars PROVE (Served /\ FreshFiles)'
  OBVIOUS
<1>0. Types /\ Served /\ FreshFiles
  BY DEF MenuInv
<1>1. ASSUME Qt \/ EndExport \/ Open PROVE (Served /\ FreshFiles)'
  <2>1. UNCHANGED <<pendingRec, query, menu, existing, exports, docDir>>
    BY <1>0, <1>1, QtFacts DEF EndExport, Open, pageVars
  <2>2. \A p \in Picks : Serving(p) => Serving(p)'
    BY <1>1, QtServing, EndExportServing, OpenServing
  <2> QED
    BY <1>0, <2>1, <2>2, KeptServed
<1>2. CASE UNCHANGED vars
  <2>1. UNCHANGED <<pendingRec, query, menu, existing, exports, docDir>>
    BY <1>2 DEF vars, pageVars
  <2>2. \A p \in Picks : Serving(p) => Serving(p)'
    BY <1>2 DEF vars, qtVars, Serving
  <2> QED
    BY <1>0, <2>1, <2>2, KeptServed
<1> QED
  BY <1>1, <1>2, ListsServed, LeavingServed, StageTwoServed, PickRecServed, ReceiveFilesServed,
     ReceiveOtherServed DEF Next, Page, User

(* A menu of files has what was exported when the recording was picked, or   *)
(* the export that was asked for, with paths of the document shown.  It says *)
(* nothing of a pick made while the recording's files were already asked for *)
(* (an export that ends late, or inside another export of the recording, may *)
(* then bring an older list), nor of a menu that a document came after.      *)
THEOREM MenusFresh == Spec => []FreshFiles
<1>1. Init => MenuInv
  <2> SUFFICES ASSUME Init PROVE MenuInv
    OBVIOUS
  <2>1. Types
    BY InitTypes
  <2>2. \A i \in DOMAIN down : ~Dated(down[i])
    <3>1. /\ "rec" \in Lists /\ "proc" \in Lists /\ "cams" \in Lists /\ "media" \in Lists
          /\ {} \in Made /\ {0} \in Made
      BY SlashAssumption DEF Lists, Made, Documents
    <3>2. \A i \in DOMAIN down : \E k \in Lists, v \in Made : down[i] = List(k, v)
      <4>1. PICK v \in {{}, {0}} :
               \/ down = <<List("rec", v), List("proc", v), List("cams", v), List("media", v)>>
               \/ down = <<List("cams", v), List("media", v)>>
        BY DEF Init
      <4>2. v \in Made
        BY <3>1
      <4>3. CASE down = <<List("rec", v), List("proc", v), List("cams", v), List("media", v)>>
        <5>1. \A i \in DOMAIN down : \E k \in Lists : down[i] = List(k, v)
          BY <3>1, <4>3
        <5> QED
          BY <4>2, <5>1
      <4>4. CASE down = <<List("cams", v), List("media", v)>>
        <5>1. \A i \in DOMAIN down : \E k \in Lists : down[i] = List(k, v)
          BY <3>1, <4>4
        <5> QED
          BY <4>2, <5>1
      <4> QED
        BY <4>1, <4>3, <4>4
    <3> QED
      BY <3>2, UndatedFacts
  <2>3. AnswersInOrder
    <3>1. dir = 0 /\ docDir = 0 /\ 0 <= 0
      BY DEF Init
    <3> QED
      BY <2>2, <3>1 DEF AnswersInOrder, InOrder, Dated
  <2>4. Served /\ FreshFiles /\ Awaited
    <3>1. pendingRec = {} /\ query = {} /\ menu = {} /\ owed = {}
      BY DEF Init
    <3>2. Waiting = {}
      BY <3>1 DEF Waiting
    <3> QED
      BY <3>1, <3>2 DEF Served, FreshFiles, Awaited
  <2> QED
    BY <2>1, <2>3, <2>4 DEF MenuInv
<1>2. MenuInv /\ [Next]_vars => MenuInv'
  BY StepTypes, StepAwaited, StepAnswersInOrder, StepServed DEF MenuInv
<1>3. MenuInv => FreshFiles
  BY DEF MenuInv
<1> QED
  BY <1>1, <1>2, <1>3, PTL DEF Spec
=============================================================================
